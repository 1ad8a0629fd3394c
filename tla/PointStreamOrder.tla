--------------------------- MODULE PointStreamOrder ---------------------------
(***************************************************************************)
(* The numbers in PointStream, proved for every number of ranks, every     *)
(* choice of communicators and every bound, when the logger does not print *)
(* on the captured standard output: what a call writes is numbered before  *)
(* what a later call of one of its ranks writes, and a message is numbered *)
(* after the started node of its point and before all ended nodes of its   *)
(* call.                                                                   *)
(*                                                                         *)
(* The members of a communicator pass the milestones of a call together    *)
(* (PointStreamProofs), and agree on a number at each of them.  What the   *)
(* root has when all members have passed the one that begins the point is  *)
(* the number of the started node, and nobody has a smaller one from there *)
(* on; a message takes a number for its name before it takes its own.      *)
(* Nobody logs who has passed the one that ends the point, and what the    *)
(* members agree on there is greater than what any message has.            *)
(***************************************************************************)
EXTENDS PointStreamProofs

-----------------------------------------------------------------------------
(* The numbers.                                                            *)

\* The n-th call is one of a loop.
Looping(n) == n \in 1 .. Len(calls) /\ calls[n].kind # "finalize"

\* Some rank takes part in the m-th call and later in the n-th.
Meet(m, n) == m < n /\ calls[m].comm \cap calls[n].comm # {}

\* Rank r has done the first sync of the n-th call; it has done all of them.
Begun(left, r, n) ==
  \/ taken[r] > n
  \/ taken[r] = n /\ left[r][calls[n].comm] < Total(calls[n], calls[n].comm)
Ended(left, r, n) == taken[r] > n \/ (taken[r] = n /\ left[r][calls[n].comm] = 0)

\* A number that comes after the m-th call: the counter of a rank that has done its
\* syncs, or of one that has begun a call it meets, or a number such a call has given.
Later(left, m, v) ==
  \/ \E q \in calls[m].comm : Ended(left, q, m) /\ v = id[q]
  \/ \E n \in 1 .. Len(calls) :
       /\ Looping(n) /\ Meet(m, n)
       /\ \/ \E q \in calls[n].comm : Begun(left, q, n) /\ v = id[q]
          \/ \E d \in AllComms : \E i \in Numbered(d) : stream[d][i].call = n /\ v = stream[d][i].jid

\* The number of node x comes before v.
Before(x, v) == x.jid < v \/ (x.jid = v /\ x.node = "ended")

\* A node of a call has a number its root has passed, which has begun the call.
Passed(left, d, x) == Looping(x.call) => x.jid < id[Root(d)] /\ Begun(left, Root(d), x.call)

\* Its number comes before those that come after its call.
First(left, x) == \A v : Looping(x.call) /\ Later(left, x.call, v) => Before(x, v)

\* So does the number of the last node, which is still to be written.
Closing(left, r) ==
  Loop(r) /\ left[r][calls[taken[r]].comm] = 0 /\ todo[r] # << >> =>
    \A v : Later(left, taken[r], v) => id[r] <= v

Counted(left) ==
  /\ \A d \in AllComms : \A i \in Numbered(d) : Passed(left, d, stream[d][i]) /\ First(left, stream[d][i])
  /\ \A r \in Ranks : Closing(left, r)

FinalLast == \A n \in 1 .. (Len(calls) - 1) : calls[n].kind # "finalize"

Ordered(left) == Steady(left) /\ Stages(left) /\ Counted(left)

\* The invariant.
OInv ==
  /\ Typed /\ OfCalls /\ InOwnStream /\ FinalLast
  /\ \E left \in Lefts : Ordered(left)

\* The calls of loops.
LEMMA LoopingFacts ==
  ASSUME Typed, NEW n, Looping(n)
  PROVE  /\ n \in Nat /\ n \in 1 .. Len(calls) /\ calls[n] \in LoopCall /\ calls[n] \in ACall
         /\ calls[n].comm \in AllComms /\ calls[n].comm \subseteq Ranks
         /\ calls[n].logComm \subseteq calls[n].comm
         /\ \A r \in calls[n].comm : calls[n].comm \in Own(r)
         /\ Total(calls[n], calls[n].comm) \in Nat /\ Total(calls[n], calls[n].comm) >= 2
<1>1. n \in 1 .. Len(calls) /\ calls[n].kind # "finalize" /\ calls \in Seq(ACall)
  BY DEF Looping, Typed
<1>2. calls[n] \in ACall /\ n \in Nat
  BY <1>1, ElementOfSeq, LenProperties
<1>3. calls[n] \in LoopCall /\ calls[n].logComm \subseteq calls[n].comm /\ calls[n].comm \in AllComms
  BY <1>1, <1>2, CallFacts
<1>4. calls[n].comm \subseteq Ranks /\ \A r \in calls[n].comm : calls[n].comm \in Own(r)
  BY <1>3, CommFacts DEF Own
<1> DEFINE call == calls[n]
<1>5. call.parents \in Nat /\ call.logs \in Nat
  BY <1>3 DEF LoopCall
<1>6. Total(call, call.comm) = (Hooked + 2 + (call.parents * 2)) + (IF call.comm = call.logComm THEN call.logs ELSE 0)
  BY <1>1 DEF Total
<1> HIDE DEF call
<1>7. Hooked \in Nat
  BY DEF Hooked
<1>8. Total(call, call.comm) \in Nat /\ Total(call, call.comm) >= 2
  BY <1>5, <1>6, <1>7
<1>9. QED
  BY <1>1, <1>2, <1>3, <1>4, <1>8 DEF call

\* When one of the ranks of a call has begun it, all of them have.
LEMMA TogetherBegun ==
  ASSUME Typed, NEW left \in Lefts, Steady(left), NEW n, Looping(n),
         NEW q \in calls[n].comm, NEW p \in calls[n].comm, Begun(left, q, n)
  PROVE  Begun(left, p, n)
<1> DEFINE c == calls[n].comm
           total == Total(calls[n], c)
<1>1. c \in AllComms /\ p \in Ranks /\ q \in Ranks /\ n \in Nat /\ total \in Nat /\ total >= 2
  BY LoopingFacts
<1>2. taken[p] \in Nat /\ taken[q] \in Nat /\ left[p][c] \in Nat /\ left[q][c] \in Nat
  <2>1. \A s \in Ranks : taken[s] \in Nat
    BY LenProperties DEF Typed, TypeOK
  <2>2. \A s \in Ranks : left[s][c] \in Nat
    BY <1>1 DEF Lefts
  <2>3. QED
    BY <1>1, <2>1, <2>2
<1>3. Pace(left, p, q, c) /\ Pace(left, q, p, c)
  BY <1>1 DEF Steady
<1>4. taken[q] > n \/ (taken[q] = n /\ left[q][c] < total)
  BY DEF Begun
<1>5. CASE taken[p] < taken[q]
  <2>1. /\ left[p][c] = 0 /\ left[q][c] = Total(calls[taken[q]], c)
        /\ \A k \in (taken[p] + 1) .. (taken[q] - 1) : Total(calls[k], c) = 0
    BY <1>3, <1>5 DEF Pace
  <2>2. ~(taken[q] = n)
    BY <1>2, <1>4, <2>1
  <2>3. taken[q] > n
    BY <1>4, <2>2
  <2>4. ~(taken[p] < n)
    <3>1. SUFFICES ASSUME taken[p] < n
                   PROVE  FALSE
      OBVIOUS
    <3>2. n \in (taken[p] + 1) .. (taken[q] - 1)
      BY <1>1, <1>2, <2>3, <3>1
    <3>3. total = 0
      BY <2>1, <3>2
    <3>4. QED
      BY <1>1, <3>3
  <2>5. 0 < total
    BY <1>1
  <2>6. taken[p] > n \/ taken[p] = n
    BY <1>1, <1>2, <2>4
  <2>7. QED
    BY <2>1, <2>5, <2>6 DEF Begun
<1>6. CASE taken[p] = taken[q]
  <2>1. left[p][c] = left[q][c]
    BY <1>3, <1>6 DEF Pace
  <2>2. QED
    BY <1>4, <1>6, <2>1 DEF Begun
<1>7. CASE taken[q] < taken[p]
  <2>1. taken[p] > n
    BY <1>1, <1>2, <1>4, <1>7
  <2>2. QED
    BY <2>1 DEF Begun
<1>8. QED
  BY <1>2, <1>5, <1>6, <1>7

\* The root that writes a node of a call takes part in it.
LEMMA NodeRoot ==
  ASSUME Typed, InOwnStream, NEW d \in AllComms, NEW i \in Numbered(d), Looping(stream[d][i].call)
  PROVE  LET c == calls[stream[d][i].call].comm
         IN  Root(d) \in c /\ d \subseteq c /\ Root(d) \in d /\ Root(d) \in Ranks
<1> DEFINE x == stream[d][i]
<1>1. d = OwnComm(x.node, x.call) /\ x.call # 0
  BY DEF InOwnStream, Numbered, Looping
<1>2. d = calls[x.call].comm \/ d = calls[x.call].logComm
  BY <1>1 DEF OwnComm
<1>3. calls[x.call].logComm \subseteq calls[x.call].comm
  BY LoopingFacts
<1>4. Root(d) \in d /\ Root(d) \in Ranks
  BY RootFacts
<1>5. QED
  BY <1>2, <1>3, <1>4

\* Nothing comes after a call while one of its ranks has a sync to come.
LEMMA NotLater ==
  ASSUME Typed, InOwnStream, NEW left \in Lefts, Steady(left), Counted(left), NEW n, Looping(n),
         NEW r \in calls[n].comm, taken[r] = n, left[r][calls[n].comm] # 0, NEW v
  PROVE  ~Later(left, n, v)
<1> DEFINE c == calls[n].comm
<1>1. c \in AllComms /\ r \in Ranks /\ n \in Nat
  BY LoopingFacts
<1>2. \A q \in Ranks : taken[q] \in Nat
  BY LenProperties DEF Typed, TypeOK
<1>3. ASSUME NEW q \in c, taken[q] > n
      PROVE  FALSE
  <2>1. Pace(left, r, q, c) /\ q \in Ranks
    BY <1>1, CommFacts DEF Steady
  <2>2. taken[r] < taken[q]
    BY <1>1, <1>2, <1>3, <2>1
  <2>3. QED
    BY <2>1, <2>2 DEF Pace
<1>4. ASSUME NEW q \in c, Ended(left, q, n)
      PROVE  FALSE
  <2>1. taken[q] = n /\ left[q][c] = 0
    BY <1>3, <1>4 DEF Ended
  <2>2. Pace(left, r, q, c)
    BY <1>1 DEF Steady
  <2>3. QED
    BY <2>1, <2>2 DEF Pace
<1>5. ASSUME NEW k \in 1 .. Len(calls), Looping(k), Meet(n, k), NEW q \in calls[k].comm, Begun(left, q, k)
      PROVE  FALSE
  <2>1. PICK p \in c \cap calls[k].comm : TRUE
    BY <1>5 DEF Meet
  <2>2. Begun(left, p, k) /\ k \in Nat /\ n < k /\ p \in Ranks
    BY <1>5, <2>1, TogetherBegun, LoopingFacts DEF Meet
  <2>3. taken[p] > n
    BY <1>1, <1>2, <2>2 DEF Begun
  <2>4. QED
    BY <1>3, <2>1, <2>3
<1>6. ASSUME NEW k \in 1 .. Len(calls), Looping(k), Meet(n, k), NEW d \in AllComms, NEW i \in Numbered(d),
             stream[d][i].call = k
      PROVE  FALSE
  <2>1. Root(d) \in calls[k].comm
    BY <1>6, NodeRoot
  <2>2. Begun(left, Root(d), k)
    BY <1>6 DEF Counted, Passed
  <2>3. QED
    BY <1>5, <1>6, <2>1, <2>2
<1>7. QED
  BY <1>4, <1>5, <1>6 DEF Later

\* What is in the streams.
LEMMA NumberedTypes ==
  ASSUME Typed, NEW d \in AllComms, NEW i \in Numbered(d)
  PROVE  stream[d][i] \in Node /\ stream[d][i].jid \in Int /\ stream[d][i].call \in Nat
<1>1. stream \in [AllComms -> Seq(Node)] /\ i \in 1 .. Len(stream[d])
  BY DEF Typed, TypeOK, Numbered
<1>2. stream[d][i] \in Node
  BY <1>1, ElementOfSeq
<1>3. QED
  BY <1>2 DEF Node

\* The application has called what it had called.
CallsKept == Len(calls) <= Len(calls') /\ \A k \in 1 .. Len(calls) : calls'[k] = calls[k]

\* A call keeps its kind; only calls that have been made matter.
LEMMA LoopingKept ==
  ASSUME Typed, Typed', CallsKept, NEW n
  PROVE  /\ Looping(n) => Looping(n)' /\ calls'[n] = calls[n]
         /\ Looping(n)' /\ n <= Len(calls) => Looping(n)
<1>1. Len(calls) \in Nat /\ Len(calls') \in Nat
  BY LenProperties DEF Typed
<1>2. QED
  BY <1>1 DEF CallsKept, Looping

\* What comes after a call came after it, or is greater than something that did, when no
\* rank begins or ends a call and what is written has the number of one that has begun.
LEMMA LaterKept ==
  ASSUME Typed, Typed', NEW left, NEW less, CallsKept,
         \A r \in Ranks : id[r] <= id'[r],
         \A n : Looping(n)' => \A q \in calls'[n].comm : Begun(less, q, n)' => n <= Len(calls) /\ Begun(left, q, n),
         \A n : Looping(n) => \A q \in calls[n].comm : Ended(less, q, n)' => Ended(left, q, n),
         \A d \in AllComms : \A i \in Numbered(d)' : \A n : Looping(n)' /\ stream'[d][i].call = n =>
           \/ i \in Numbered(d) /\ stream'[d][i] = stream[d][i] /\ Looping(n)
           \/ Looping(n) /\ \E q \in calls[n].comm : Begun(left, q, n) /\ stream'[d][i].jid = id[q],
         NEW m, Looping(m), NEW v, Later(less, m, v)'
  PROVE  v \in Int /\ \E u \in Int : Later(left, m, u) /\ u <= v
<1>1. id \in [Ranks -> Nat] /\ id' \in [Ranks -> Nat]
  BY DEF Typed, TypeOK
<1>2. Looping(m)' /\ calls'[m] = calls[m] /\ calls[m].comm \subseteq Ranks
  BY LoopingKept, LoopingFacts
<1>3. ASSUME NEW q \in calls[m].comm, Ended(less, q, m)', v = id'[q]
      PROVE  v \in Int /\ \E u \in Int : Later(left, m, u) /\ u <= v
  <2>1. q \in Ranks /\ id[q] <= id'[q] /\ id[q] \in Int /\ id'[q] \in Int
    BY <1>1, <1>2
  <2>2. Later(left, m, id[q])
    BY <1>3 DEF Later
  <2>3. QED
    BY <1>3, <2>1, <2>2
<1>4. ASSUME NEW n, Looping(n)', Meet(m, n)'
      PROVE  n <= Len(calls) => Looping(n) /\ n \in 1 .. Len(calls) /\ Meet(m, n) /\ calls'[n] = calls[n] /\ calls[n].comm \subseteq Ranks
  <2>1. SUFFICES ASSUME n <= Len(calls)
                 PROVE  Looping(n) /\ n \in 1 .. Len(calls) /\ Meet(m, n) /\ calls'[n] = calls[n] /\ calls[n].comm \subseteq Ranks
    OBVIOUS
  <2>2. Looping(n) /\ calls'[n] = calls[n] /\ n \in 1 .. Len(calls) /\ calls[n].comm \subseteq Ranks
    BY <1>4, <2>1, LoopingKept, LoopingFacts
  <2>3. QED
    BY <1>2, <1>4, <2>2 DEF Meet
<1>5. ASSUME NEW n, Looping(n), n \in 1 .. Len(calls), Meet(m, n), calls[n].comm \subseteq Ranks,
             NEW q \in calls[n].comm, Begun(left, q, n), v = id[q] \/ v = id'[q]
      PROVE  v \in Int /\ \E u \in Int : Later(left, m, u) /\ u <= v
  <2>1. q \in Ranks /\ id[q] <= id'[q] /\ id[q] \in Int /\ id'[q] \in Int
    BY <1>1, <1>5
  <2>2. Later(left, m, id[q])
    BY <1>5 DEF Later
  <2>3. QED
    BY <1>5, <2>1, <2>2
<1>6. ASSUME NEW n, Looping(n)', Meet(m, n)', NEW q \in calls'[n].comm, Begun(less, q, n)', v = id'[q]
      PROVE  v \in Int /\ \E u \in Int : Later(left, m, u) /\ u <= v
  <2>1. n <= Len(calls) /\ Begun(left, q, n)
    BY <1>6
  <2>2. QED
    BY <1>4, <1>5, <1>6, <2>1
<1>7. ASSUME NEW n, Looping(n)', Meet(m, n)', NEW d \in AllComms, NEW i \in Numbered(d)',
             stream'[d][i].call = n, v = stream'[d][i].jid
      PROVE  v \in Int /\ \E u \in Int : Later(left, m, u) /\ u <= v
  <2>1. Looping(n) => n <= Len(calls) /\ n \in 1 .. Len(calls)
    BY LoopingFacts, LenProperties DEF Typed
  <2>2. CASE i \in Numbered(d) /\ stream'[d][i] = stream[d][i] /\ Looping(n)
    <3>1. v = stream[d][i].jid /\ stream[d][i].call = n /\ v \in Int
      BY <1>7, <2>2, NumberedTypes
    <3>2. Meet(m, n) /\ n \in 1 .. Len(calls)
      BY <1>4, <1>7, <2>1, <2>2
    <3>3. Later(left, m, v)
      BY <2>2, <3>1, <3>2 DEF Later
    <3>4. QED
      BY <3>1, <3>3
  <2>3. CASE Looping(n) /\ \E q \in calls[n].comm : Begun(left, q, n) /\ stream'[d][i].jid = id[q]
    BY <1>4, <1>5, <1>7, <2>1, <2>3
  <2>4. QED
    BY <1>7, <2>2, <2>3
<1>8. QED
  <2>1. \/ \E q \in calls'[m].comm : Ended(less, q, m)' /\ v = id'[q]
        \/ \E n \in 1 .. Len(calls') :
             /\ Looping(n)' /\ Meet(m, n)'
             /\ \/ \E q \in calls'[n].comm : Begun(less, q, n)' /\ v = id'[q]
                \/ \E d \in AllComms : \E i \in Numbered(d)' : stream'[d][i].call = n /\ v = stream'[d][i].jid
    BY DEF Later
  <2>2. QED
    BY <1>2, <1>3, <1>6, <1>7, <2>1

\* Counting goes on when what comes after a call does, what is written comes before it,
\* and no rank takes a number while it closes a call.
LEMMA CountedKept ==
  ASSUME Typed, Typed', InOwnStream, NEW left, NEW less, CallsKept, Counted(left),
         \A r \in Ranks : id[r] <= id'[r],
         \A n : Looping(n) => \A q \in calls[n].comm : Begun(left, q, n) => Begun(less, q, n)',
         \A m, v : Looping(m) /\ Later(less, m, v)' =>
           v \in Int /\ \E u \in Int : Later(left, m, u) /\ u <= v,
         \A d \in AllComms : \A i \in Numbered(d)' : \A x : x = stream'[d][i] =>
           \/ i \in Numbered(d) /\ stream[d][i] = x /\ (Looping(x.call)' => Looping(x.call))
           \/ Passed(less, d, x)' /\ First(less, x)',
         \A r \in Ranks : Loop(r)' /\ less[r][calls'[taken'[r]].comm] = 0 /\ todo'[r] # << >> =>
           /\ Loop(r) /\ taken'[r] = taken[r] /\ id'[r] = id[r]
           /\ left[r][calls[taken[r]].comm] = 0 /\ todo[r] # << >>
  PROVE  Counted(less)'
<1>1. id \in [Ranks -> Nat] /\ id' \in [Ranks -> Nat]
  BY DEF Typed, TypeOK
<1>2. ASSUME NEW d \in AllComms, NEW i \in Numbered(d), NEW x, x = stream[d][i], Looping(x.call)
      PROVE  Passed(less, d, x)' /\ First(less, x)'
  <2>1. Root(d) \in calls[x.call].comm /\ Root(d) \in Ranks /\ x.jid \in Int /\ id[Root(d)] \in Int
    BY <1>1, <1>2, NodeRoot, NumberedTypes
  <2>2. x.jid < id[Root(d)] /\ Begun(left, Root(d), x.call) /\ First(left, x)
    BY <1>2 DEF Counted, Passed
  <2>3. id[Root(d)] <= id'[Root(d)] /\ id'[Root(d)] \in Int
    BY <1>1, <2>1
  <2>4. x.jid < id'[Root(d)]
    BY <2>1, <2>2, <2>3
  <2>5. Begun(less, Root(d), x.call)'
    BY <1>2, <2>1, <2>2
  <2>6. ASSUME NEW v, Later(less, x.call, v)'
        PROVE  Before(x, v)
    <3>1. v \in Int
      BY <1>2, <2>6
    <3>2. PICK u \in Int : Later(left, x.call, u) /\ u <= v
      BY <1>2, <2>6
    <3>3. Before(x, u)
      BY <1>2, <2>2, <3>2 DEF First
    <3>4. QED
      BY <2>1, <3>1, <3>2, <3>3 DEF Before
  <2>7. QED
    BY <2>4, <2>5, <2>6 DEF Passed, First
<1>3. ASSUME NEW d \in AllComms, NEW i \in Numbered(d)', NEW x, x = stream'[d][i]
      PROVE  Passed(less, d, x)' /\ First(less, x)'
  <2>1. CASE i \in Numbered(d) /\ stream[d][i] = x /\ (Looping(x.call)' => Looping(x.call))
    <3>1. CASE Looping(x.call)
      BY <1>2, <2>1, <3>1
    <3>2. CASE ~Looping(x.call)
      BY <2>1, <3>2 DEF Passed, First
    <3>3. QED
      BY <3>1, <3>2
  <2>2. QED
    BY <1>3, <2>1
<1>4. ASSUME NEW r \in Ranks
      PROVE  Closing(less, r)'
  <2>1. SUFFICES ASSUME Loop(r)', less[r][calls'[taken'[r]].comm] = 0, todo'[r] # << >>,
                        NEW n, n = taken'[r], NEW v, Later(less, n, v)'
                 PROVE  id'[r] <= v
    BY DEF Closing
  <2>2. /\ Loop(r) /\ taken'[r] = taken[r] /\ id'[r] = id[r]
        /\ left[r][calls[taken[r]].comm] = 0 /\ todo[r] # << >>
    BY <2>1
  <2>3. Looping(n) /\ n = taken[r]
    BY <2>1, <2>2, LoopFacts DEF Looping, Loop
  <2>4. v \in Int /\ \E u \in Int : Later(left, n, u) /\ u <= v
    BY <2>1, <2>3
  <2>5. PICK u \in Int : Later(left, n, u) /\ u <= v
    BY <2>4
  <2>6. id[r] <= u
    BY <2>2, <2>3, <2>5 DEF Counted, Closing
  <2>7. QED
    BY <1>1, <2>2, <2>4, <2>5, <2>6
<1>5. QED
  BY <1>3, <1>4 DEF Counted

\* What the operation of a rank does to the numbers and the streams.
LEMMA StepNumbers ==
  ASSUME Typed, NEW r \in Ranks, Step(r)
  PROVE  /\ \A s \in Ranks : id[s] <= id'[s]
         /\ \A s \in Ranks \ {r} : id'[s] = id[s]
         /\ \/ stream' = stream
            \/ /\ DoWrite(r) /\ r = Root(comm[r]) /\ id'[r] = id[r] + 1
               /\ stream' = [stream EXCEPT ![comm[r]] =
                               Append(@, [jid |-> id[r], node |-> Head1(r).node, call |-> taken[r]])]
<1>1. id \in [Ranks -> Nat]
  BY DEF Typed, TypeOK
<1>2. CASE DoWrite(r)
  <2>1. CASE r = Root(comm[r])
    <3>1. id' = [id EXCEPT ![r] = id[r] + 1]
      BY <1>2, <2>1 DEF DoWrite
    <3>2. stream' = [stream EXCEPT ![comm[r]] =
                       Append(@, [jid |-> id[r], node |-> Head1(r).node, call |-> taken[r]])]
      BY <1>2, <2>1, WriteFacts
    <3>3. id'[r] = id[r] + 1 /\ (\A s \in Ranks \ {r} : id'[s] = id[s]) /\ \A s \in Ranks : id[s] <= id'[s]
      BY <1>1, <3>1
    <3>4. QED
      BY <1>2, <2>1, <3>2, <3>3
  <2>2. CASE r # Root(comm[r])
    <3>1. id' = id /\ stream' = stream
      BY <1>2, <2>2 DEF DoWrite
    <3>2. QED
      BY <1>1, <3>1
  <2>3. QED
    BY <2>1, <2>2
<1>3. CASE DoName(r)
  <2>1. stream' = stream /\ id' = IF r = Root(comm[r]) THEN [id EXCEPT ![r] = id[r] + 1] ELSE id
    BY <1>3 DEF DoName
  <2>2. (\A s \in Ranks \ {r} : id'[s] = id[s]) /\ \A s \in Ranks : id[s] <= id'[s]
    BY <1>1, <2>1
  <2>3. QED
    BY <2>1, <2>2
<1>4. CASE DoSetComm(r) \/ DoLog(r) \/ DoPrint(r) \/ DoRead(r)
  <2>1. stream' = stream /\ id' = id
    BY <1>4 DEF DoSetComm, DoLog, DoPrint, DoRead, engine
  <2>2. QED
    BY <1>1, <2>1
<1>5. QED
  BY <1>2, <1>3, <1>4 DEF Step

\* Counting goes on with it.
LEMMA StepCounted ==
  ASSUME Typed, Typed', InOwnStream, NEW left \in Lefts, Steady(left), Stages(left), Counted(left),
         NEW r \in Ranks, Step(r)
  PROVE  Counted(left)'
<1> DEFINE x == [jid |-> id[r], node |-> Head1(r).node, call |-> taken[r]]
           c == comm[r]
<1>1. UNCHANGED <<calls, taken>>
  BY StepKeeps
<1>2. /\ \A s \in Ranks : id[s] <= id'[s]
      /\ \A s \in Ranks \ {r} : id'[s] = id[s]
      /\ \/ stream' = stream
         \/ /\ DoWrite(r) /\ r = Root(c) /\ id'[r] = id[r] + 1
            /\ stream' = [stream EXCEPT ![c] = Append(@, x)]
  BY StepNumbers
<1>3. CallsKept
  <2>1. Len(calls) \in Nat
    BY LenProperties DEF Typed
  <2>2. QED
    BY <1>1, <2>1 DEF CallsKept
<1>4. \A q, n : /\ Begun(left, q, n)' <=> Begun(left, q, n)
                /\ Ended(left, q, n)' <=> Ended(left, q, n)
  BY <1>1 DEF Begun, Ended
<1>5. \A n : Looping(n)' <=> Looping(n)
  BY <1>1 DEF Looping
<1>6. id \in [Ranks -> Nat] /\ id' \in [Ranks -> Nat] /\ stream \in [AllComms -> Seq(Node)] /\ taken[r] \in Nat
  BY LenProperties, SMTT(30) DEF Typed, TypeOK
<1>7. ASSUME NEW d \in AllComms, NEW i \in Numbered(d)'
      PROVE  \/ i \in Numbered(d) /\ stream'[d][i] = stream[d][i]
             \/ /\ stream'[d][i] = x /\ x.node \notin {"comminfo", "info", "stdout"}
                /\ d = c /\ r = Root(c) /\ DoWrite(r) /\ id'[r] = id[r] + 1
  <2>1. i \in 1 .. Len(stream'[d]) /\ stream'[d][i].node \notin {"comminfo", "info", "stdout"}
    BY <1>7 DEF Numbered
  <2>2. CASE stream' = stream
    BY <2>1, <2>2 DEF Numbered
  <2>3. CASE stream' # stream
    <3>1. DoWrite(r) /\ r = Root(c) /\ id'[r] = id[r] + 1 /\ stream' = [stream EXCEPT ![c] = Append(@, x)]
      BY <1>2, <2>3
    <3>2. c \in AllComms /\ x \in Node
      BY <3>1, WriteFacts
    <3> HIDE DEF x, c
    <3>3. \/ i \in 1 .. Len(stream[d]) /\ stream'[d][i] = stream[d][i]
          \/ d = c /\ stream'[d][i] = x
      BY <1>6, <2>1, <3>1, <3>2, Appended
    <3>4. QED
      BY <2>1, <3>1, <3>3 DEF Numbered
  <2>4. QED
    BY <2>2, <2>3
<1>8. ASSUME DoWrite(r), x.node \notin {"comminfo", "info", "stdout"}, Looping(taken[r])
      PROVE  /\ Loop(r) /\ r \in calls[taken[r]].comm /\ Begun(left, r, taken[r])
             /\ left[r][calls[taken[r]].comm] = 0 => todo[r] # << >> /\ x.node = "ended"
  <2>1. Loop(r)
    <3>1. taken[r] # 0
      BY <1>8 DEF Looping
    <3>2. QED
      BY <1>8, <3>1 DEF Looping, Loop
  <2>2. r \in calls[taken[r]].comm
    BY <2>1, LoopFacts
  <2>3. Doing(r, "write") /\ Head1(r).node # "stdout" /\ todo[r] # << >>
    BY <1>8 DEF DoWrite, Doing
  <2>4. Stage(left, r)
    BY DEF Stages
  <2>5. Begun(left, r, taken[r])
    BY <2>1, <2>3, <2>4, StageFacts DEF Begun
  <2>6. ASSUME left[r][calls[taken[r]].comm] = 0
        PROVE  x.node = "ended"
    <3>1. todo[r] \in Done
      BY <2>1, <2>4, <2>6, StageFacts
    <3>2. Head1(r) = Write("ended")
      BY <2>3, <3>1, DoneFacts
    <3>3. QED
      BY <3>2 DEF Write
  <2>7. QED
    BY <2>1, <2>2, <2>3, <2>5, <2>6
<1>9. \A d \in AllComms : \A i \in Numbered(d)' : \A n : Looping(n)' /\ stream'[d][i].call = n =>
        \/ i \in Numbered(d) /\ stream'[d][i] = stream[d][i] /\ Looping(n)
        \/ Looping(n) /\ \E q \in calls[n].comm : Begun(left, q, n) /\ stream'[d][i].jid = id[q]
  <2>1. SUFFICES ASSUME NEW d \in AllComms, NEW i \in Numbered(d)', NEW n, Looping(n), stream'[d][i].call = n
                 PROVE  \/ i \in Numbered(d) /\ stream'[d][i] = stream[d][i]
                        \/ \E q \in calls[n].comm : Begun(left, q, n) /\ stream'[d][i].jid = id[q]
    BY <1>5
  <2>2. CASE stream'[d][i] = x /\ x.node \notin {"comminfo", "info", "stdout"} /\ DoWrite(r)
    <3>1. n = taken[r] /\ stream'[d][i].jid = id[r]
      BY <2>1, <2>2
    <3>2. r \in calls[n].comm /\ Begun(left, r, n)
      BY <1>8, <2>1, <2>2, <3>1
    <3>3. QED
      BY <3>1, <3>2
  <2>3. QED
    BY <1>7, <2>1, <2>2
<1>10. \A m, v : Looping(m) /\ Later(left, m, v)' =>
         v \in Int /\ \E u \in Int : Later(left, m, u) /\ u <= v
  <2>1. ASSUME NEW m, NEW v, Looping(m), Later(left, m, v)'
        PROVE  v \in Int /\ \E u \in Int : Later(left, m, u) /\ u <= v
    <3>1. \A n : Looping(n)' => \A q \in calls'[n].comm : Begun(left, q, n)' => n <= Len(calls) /\ Begun(left, q, n)
      <4>1. \A n : Looping(n) => n <= Len(calls)
        BY LoopingFacts, LenProperties DEF Typed
      <4>2. QED
        BY <1>4, <1>5, <4>1
    <3>2. \A n : Looping(n) => \A q \in calls[n].comm : Ended(left, q, n)' => Ended(left, q, n)
      BY <1>4
    <3> HIDE DEF x, c
    <3>3. QED
      BY <1>2, <1>3, <1>9, <2>1, <3>1, <3>2, LaterKept
  <2>2. QED
    BY <2>1
<1>11. ASSUME NEW d, d = c, NEW y, y = x, x.node \notin {"comminfo", "info", "stdout"},
              r = Root(c), DoWrite(r), id'[r] = id[r] + 1
       PROVE  Passed(left, d, y)' /\ First(left, y)'
  <2>1. PICK n : n = taken[r]
    OBVIOUS
  <2>2. y.jid = id[r] /\ y.call = n /\ Root(d) = r /\ y.node = x.node
    BY <1>11, <2>1
  <2>3. SUFFICES ASSUME Looping(n)
                 PROVE  /\ id[r] < id'[r] /\ Begun(left, r, n)'
                        /\ \A v : Later(left, n, v)' => Before(y, v)
    BY <1>5, <2>2 DEF Passed, First
  <2> HIDE DEF c
  <2>4. id[r] < id'[r]
    BY <1>6, <1>11
  <2>5. /\ Loop(r) /\ r \in calls[n].comm /\ Begun(left, r, n)
        /\ left[r][calls[n].comm] = 0 => todo[r] # << >> /\ x.node = "ended"
    BY <1>8, <1>11, <2>1, <2>3
  <2>6. Begun(left, r, n)'
    BY <1>4, <2>5
  <2>7. ASSUME NEW v, Later(left, n, v)'
        PROVE  Before(y, v)
    <3>1. v \in Int /\ \E u \in Int : Later(left, n, u) /\ u <= v
      BY <1>10, <2>3, <2>7
    <3>2. PICK u \in Int : Later(left, n, u) /\ u <= v
      BY <3>1
    <3>3. left[r][calls[n].comm] = 0
      BY <2>1, <2>3, <2>5, <3>2, NotLater
    <3>4. todo[r] # << >> /\ x.node = "ended"
      BY <2>5, <3>3
    <3>5. Closing(left, r)
      BY DEF Counted
    <3>6. id[r] <= u
      BY <2>1, <2>5, <3>2, <3>3, <3>4, <3>5 DEF Closing
    <3>7. id[r] <= v /\ id[r] \in Int
      BY <1>6, <3>1, <3>2, <3>6
    <3>8. y.jid <= v /\ y.jid \in Int /\ y.node = "ended"
      BY <2>2, <3>4, <3>7
    <3>9. QED
      BY ONLY <3>1, <3>8 DEF Before
  <2>8. QED
    BY <2>4, <2>6, <2>7
<1>12. \A d \in AllComms : \A i \in Numbered(d)' : \A y : y = stream'[d][i] =>
         \/ i \in Numbered(d) /\ stream[d][i] = y /\ (Looping(y.call)' => Looping(y.call))
         \/ Passed(left, d, y)' /\ First(left, y)'
  <2>1. ASSUME NEW d \in AllComms, NEW i \in Numbered(d)', NEW y, y = stream'[d][i]
        PROVE  \/ i \in Numbered(d) /\ stream[d][i] = y /\ (Looping(y.call)' => Looping(y.call))
               \/ Passed(left, d, y)' /\ First(left, y)'
    <3> HIDE DEF x, c
    <3>1. CASE i \in Numbered(d) /\ stream'[d][i] = stream[d][i]
      BY <1>5, <2>1, <3>1
    <3>2. CASE ~(i \in Numbered(d) /\ stream'[d][i] = stream[d][i])
      <4>1. /\ y = x /\ x.node \notin {"comminfo", "info", "stdout"}
            /\ d = c /\ r = Root(c) /\ DoWrite(r) /\ id'[r] = id[r] + 1
        BY <1>7, <2>1, <3>2
      <4>2. QED
        BY <1>11, <4>1
    <3>3. QED
      BY <3>1, <3>2
  <2>2. QED
    BY <2>1
<1>13. ASSUME NEW s \in Ranks, Loop(s)', left[s][calls'[taken'[s]].comm] = 0, todo'[s] # << >>
       PROVE  /\ Loop(s) /\ taken'[s] = taken[s] /\ id'[s] = id[s]
              /\ left[s][calls[taken[s]].comm] = 0 /\ todo[s] # << >>
  <2>1. Loop(s) /\ taken'[s] = taken[s] /\ left[s][calls[taken[s]].comm] = 0
    BY <1>1, <1>13 DEF Loop
  <2>2. s # r
    <3>1. SUFFICES ASSUME s = r
                   PROVE  FALSE
      OBVIOUS
    <3>2. Stage(left, r) /\ Loop(r) /\ left[r][calls[taken[r]].comm] = 0
      BY <2>1, <3>1 DEF Stages
    <3>3. todo[r] \in Done
      BY <3>2, StageFacts
    <3>4. todo[r] # << >> /\ \A node : Head1(r) = Write(node) => todo'[r] = Tail(todo[r])
      BY StepTodo
    <3>5. Head1(r) = Write("ended") /\ Tail(todo[r]) = << >>
      BY <3>3, <3>4, DoneFacts
    <3>6. QED
      BY <1>13, <3>1, <3>4, <3>5
  <2>3. todo'[s] = todo[s] /\ id'[s] = id[s]
    BY <1>2, <2>2, StepTodo
  <2>4. QED
    BY <1>13, <2>1, <2>3
<1>14. \A n : Looping(n) => \A q \in calls[n].comm : Begun(left, q, n) => Begun(left, q, n)'
  BY <1>4
<1>15. QED
  <2> HIDE DEF x, c
  <2>1. \A s \in Ranks : id[s] <= id'[s]
    BY <1>2
  <2>2. \A s \in Ranks : Loop(s)' /\ left[s][calls'[taken'[s]].comm] = 0 /\ todo'[s] # << >> =>
           /\ Loop(s) /\ taken'[s] = taken[s] /\ id'[s] = id[s]
           /\ left[s][calls[taken[s]].comm] = 0 /\ todo[s] # << >>
    BY <1>13
  <2>3. QED
    BY <1>3, <1>10, <1>12, <1>14, <2>1, <2>2, CountedKept

\* Counting goes on when no rank takes a number or begins or ends a call.
LEMMA QuietCounted ==
  ASSUME Typed, Typed', OfCalls, InOwnStream, NEW left, NEW less, CallsKept, Counted(left), UNCHANGED id,
         \A n : Looping(n)' => \A q \in calls'[n].comm : Begun(less, q, n)' => n <= Len(calls) /\ Begun(left, q, n),
         \A n : Looping(n) => \A q \in calls[n].comm : /\ Begun(left, q, n) => Begun(less, q, n)'
                                                       /\ Ended(less, q, n)' => Ended(left, q, n),
         \A d \in AllComms : \A i \in Numbered(d)' : i \in Numbered(d) /\ stream'[d][i] = stream[d][i],
         \A r \in Ranks : Loop(r)' /\ less[r][calls'[taken'[r]].comm] = 0 /\ todo'[r] # << >> =>
           /\ Loop(r) /\ taken'[r] = taken[r]
           /\ left[r][calls[taken[r]].comm] = 0 /\ todo[r] # << >>
  PROVE  Counted(less)'
<1>1. id \in [Ranks -> Nat]
  BY DEF Typed, TypeOK
<1>2. \A r \in Ranks : id[r] <= id'[r] /\ id'[r] = id[r]
  BY <1>1
<1>3. ASSUME NEW d \in AllComms, NEW i \in Numbered(d)', NEW n, Looping(n)', stream'[d][i].call = n
      PROVE  i \in Numbered(d) /\ stream'[d][i] = stream[d][i] /\ Looping(n)
  <2>1. i \in Numbered(d) /\ stream'[d][i] = stream[d][i] /\ stream[d][i].call = n
    BY <1>3
  <2>2. i \in 1 .. Len(stream[d])
    BY <2>1 DEF Numbered
  <2>3. n \in 0 .. Len(calls)
    BY <2>1, <2>2 DEF OfCalls
  <2>4. n <= Len(calls)
    BY <2>3
  <2>5. QED
    BY <1>3, <2>1, <2>4, LoopingKept
<1>4. \A d \in AllComms : \A i \in Numbered(d)' : \A n : Looping(n)' /\ stream'[d][i].call = n =>
        \/ i \in Numbered(d) /\ stream'[d][i] = stream[d][i] /\ Looping(n)
        \/ Looping(n) /\ \E q \in calls[n].comm : Begun(left, q, n) /\ stream'[d][i].jid = id[q]
  BY <1>3
<1>5. \A d \in AllComms : \A i \in Numbered(d)' : \A x : x = stream'[d][i] =>
        \/ i \in Numbered(d) /\ stream[d][i] = x /\ (Looping(x.call)' => Looping(x.call))
        \/ Passed(less, d, x)' /\ First(less, x)'
  <2>1. ASSUME NEW d \in AllComms, NEW i \in Numbered(d)', NEW x, x = stream'[d][i]
        PROVE  i \in Numbered(d) /\ stream[d][i] = x /\ (Looping(x.call)' => Looping(x.call))
    <3>1. i \in Numbered(d) /\ stream[d][i] = x
      BY <2>1
    <3>2. \A n : Looping(n)' /\ x.call = n => Looping(n)
      BY <1>3, <2>1
    <3>3. QED
      BY <3>1, <3>2
  <2>2. QED
    BY <2>1
<1>6. \A n : Looping(n) => \A q \in calls[n].comm : Ended(less, q, n)' => Ended(left, q, n)
  OBVIOUS
<1>7. ASSUME NEW m, NEW v, Looping(m), Later(less, m, v)'
      PROVE  v \in Int /\ \E u \in Int : Later(left, m, u) /\ u <= v
  BY <1>2, <1>4, <1>6, <1>7, LaterKept
<1>8. \A n : Looping(n) => \A q \in calls[n].comm : Begun(left, q, n) => Begun(less, q, n)'
  OBVIOUS
<1>9. \A r \in Ranks : Loop(r)' /\ less[r][calls'[taken'[r]].comm] = 0 /\ todo'[r] # << >> =>
        /\ Loop(r) /\ taken'[r] = taken[r] /\ id'[r] = id[r]
        /\ left[r][calls[taken[r]].comm] = 0 /\ todo[r] # << >>
  BY <1>2
<1>10. QED
  BY <1>2, <1>5, <1>7, <1>8, <1>9, CountedKept

\* The members of a communicator announce it.
LEMMA GatherCounted ==
  ASSUME Typed, Typed', OfCalls, InOwnStream, NEW left \in Lefts, Counted(left), NEW c \in AllComms, DoGather(c),
         NEW less \in Lefts, \A r \in Ranks, x \in AllComms : less[r][x] = left[r][x]
  PROVE  Counted(less)'
<1> DEFINE x == [jid |-> -1, node |-> "comminfo", call |-> taken[Root(c)]]
<1>1. /\ UNCHANGED <<calls, taken, id>> /\ GoOn(c) /\ Together(c, "gather")
      /\ stream' = [stream EXCEPT ![c] = Append(@, x)]
  BY DEF DoGather, app
<1>2. x \in Node /\ x.node = "comminfo"
  <2>1. taken[Root(c)] \in Nat
    BY RootFacts, LenProperties DEF Typed, TypeOK
  <2>2. QED
    BY <2>1 DEF Node, Nodes
<1> HIDE DEF x
<1>3. CallsKept
  <2>1. Len(calls) \in Nat
    BY LenProperties DEF Typed
  <2>2. QED
    BY <1>1, <2>1 DEF CallsKept
<1>4. \A n : Looping(n)' <=> Looping(n)
  BY <1>1 DEF Looping
<1>5. ASSUME NEW n, Looping(n), NEW q \in calls[n].comm
      PROVE  /\ Begun(less, q, n)' <=> Begun(left, q, n)
             /\ Ended(less, q, n)' <=> Ended(left, q, n)
  <2>1. q \in Ranks /\ calls[n].comm \in AllComms
    BY <1>5, LoopingFacts
  <2>2. less[q][calls[n].comm] = left[q][calls[n].comm]
    BY <2>1
  <2>3. QED
    BY <1>1, <2>2 DEF Begun, Ended
<1>6. ASSUME NEW d \in AllComms, NEW i \in Numbered(d)'
      PROVE  i \in Numbered(d) /\ stream'[d][i] = stream[d][i]
  <2>1. i \in 1 .. Len(stream'[d]) /\ stream'[d][i].node # "comminfo"
        /\ stream'[d][i].node \notin {"comminfo", "info", "stdout"}
    BY <1>6 DEF Numbered
  <2>2. stream \in [AllComms -> Seq(Node)]
    BY DEF Typed, TypeOK
  <2>3. i \in 1 .. Len(stream[d]) /\ stream'[d][i] = stream[d][i]
    BY <1>1, <1>2, <2>1, <2>2, Appended
  <2>4. QED
    BY <2>1, <2>3 DEF Numbered
<1>7. ASSUME NEW r \in Ranks, Loop(r)', less[r][calls'[taken'[r]].comm] = 0, todo'[r] # << >>
      PROVE  /\ Loop(r) /\ taken'[r] = taken[r]
             /\ left[r][calls[taken[r]].comm] = 0 /\ todo[r] # << >>
  <2>1. Loop(r) /\ taken'[r] = taken[r] /\ less[r][calls[taken[r]].comm] = 0
    BY <1>1, <1>7 DEF Loop
  <2>2. left[r][calls[taken[r]].comm] = 0
    BY <2>1, LoopFacts
  <2>3. todo[r] # << >>
    <3>1. \A s \in c : s \in Ranks /\ todo[s] # << >>
      BY <1>1, TogetherFacts DEF Doing
    <3>2. \A s \in Ranks \ c : todo'[s] = todo[s]
      BY <1>1, <3>1, GoOnTyped
    <3>3. QED
      BY <1>7, <3>1, <3>2
  <2>4. QED
    BY <2>1, <2>2, <2>3
<1>8. \A n : Looping(n)' => \A q \in calls'[n].comm : Begun(less, q, n)' => n <= Len(calls) /\ Begun(left, q, n)
  <2>1. \A n : Looping(n) => n <= Len(calls)
    BY LoopingFacts, LenProperties DEF Typed
  <2>2. QED
    BY <1>1, <1>4, <1>5, <2>1
<1>9. QED
  BY <1>1, <1>3, <1>5, <1>6, <1>7, <1>8, QuietCounted

\* The application makes another call.
LEMMA ApplicationCounted ==
  ASSUME Typed, Typed', OfCalls, InOwnStream, NEW left \in Lefts, Counted(left), Application
  PROVE  Counted(left)' /\ FinalLast'
<1>1. /\ Len(calls) \in Nat /\ Len(calls') = Len(calls) + 1
      /\ \A k \in 1 .. Len(calls) : calls'[k] = calls[k] /\ calls[k].kind # "finalize"
      /\ UNCHANGED <<taken, todo, comm, id, known, stream, output>>
  BY CallsGrow
<1>2. CallsKept
  BY <1>1 DEF CallsKept
<1>3. FinalLast'
  BY <1>1 DEF FinalLast
<1>4. \A r \in Ranks : taken[r] \in Nat /\ taken[r] <= Len(calls)
  BY <1>1 DEF Typed, TypeOK
<1>5. ASSUME NEW n \in 1 .. Len(calls), NEW q
      PROVE  /\ Begun(left, q, n)' <=> Begun(left, q, n)
             /\ Ended(left, q, n)' <=> Ended(left, q, n)
  BY <1>1 DEF Begun, Ended, Total
<1>6. ASSUME NEW n, Looping(n)', NEW q \in calls'[n].comm, Begun(left, q, n)'
      PROVE  n <= Len(calls) /\ Begun(left, q, n)
  <2>1. n \in Nat /\ n >= 1 /\ q \in Ranks
    <3>1. calls' \in Seq(ACall) /\ n \in 1 .. Len(calls')
      BY <1>6 DEF Typed, Looping
    <3>2. calls'[n] \in ACall
      BY <3>1, ElementOfSeq
    <3>3. calls'[n].comm \subseteq Ranks
      BY <3>2, CallFacts, CommFacts
    <3>4. QED
      BY <1>1, <1>6, <3>1, <3>3
  <2>2. taken[q] >= n
    <3>1. taken[q] > n \/ taken[q] = n
      BY <1>1, <1>6 DEF Begun
    <3>2. QED
      BY <1>4, <2>1, <3>1
  <2>3. n <= Len(calls)
    BY <1>1, <1>4, <2>1, <2>2
  <2>4. n \in 1 .. Len(calls)
    BY <1>1, <2>1, <2>3
  <2>5. QED
    BY <1>5, <1>6, <2>3, <2>4
<1>7. ASSUME NEW n, Looping(n), NEW q \in calls[n].comm
      PROVE  /\ Begun(left, q, n) => Begun(left, q, n)'
             /\ Ended(left, q, n)' => Ended(left, q, n)
  <2>1. n \in 1 .. Len(calls)
    BY <1>7 DEF Looping
  <2>2. QED
    BY <1>5, <2>1
<1>8. ASSUME NEW d \in AllComms, NEW i \in Numbered(d)'
      PROVE  i \in Numbered(d) /\ stream'[d][i] = stream[d][i]
  BY <1>1, <1>8 DEF Numbered
<1>9. ASSUME NEW r \in Ranks, Loop(r)', left[r][calls'[taken'[r]].comm] = 0, todo'[r] # << >>
      PROVE  /\ Loop(r) /\ taken'[r] = taken[r]
             /\ left[r][calls[taken[r]].comm] = 0 /\ todo[r] # << >>
  <2>1. taken[r] # 0 /\ calls'[taken[r]].kind # "finalize"
    BY <1>1, <1>9 DEF Loop
  <2>2. taken[r] \in 1 .. Len(calls)
    BY <1>1, <1>4, <2>1
  <2>3. calls'[taken[r]] = calls[taken[r]]
    BY <1>1, <2>2
  <2>4. QED
    BY <1>1, <1>9, <2>1, <2>3 DEF Loop
<1>10. Counted(left)'
  BY <1>1, <1>2, <1>6, <1>7, <1>8, <1>9, QuietCounted
<1>11. QED
  BY <1>3, <1>10

\* A rank that enters its next call has ended the calls it was in before, and has not
\* begun the new one.
LEMMA EnterCounted ==
  ASSUME Typed, Typed', OfCalls, InOwnStream, NEW left \in Lefts, Counted(left), NEW r \in Ranks, Enter(r),
         NEW less \in Lefts, \A s \in Ranks \ {r} : less[s] = left[s],
         \A c \in AllComms : less[r][c] = Total(calls[taken'[r]], c),
         \A c \in Own(r) : left[r][c] = 0
  PROVE  Counted(less)'
<1>1. PICK k \in (taken[r] + 1) .. Len(calls) :
        /\ r \in calls[k].comm
        /\ \A n \in (taken[r] + 1) .. (k - 1) : r \notin calls[n].comm
        /\ taken' = [taken EXCEPT ![r] = k]
        /\ todo' = [todo EXCEPT ![r] = IF calls[k].kind = "finalize" THEN Shutdown
                                       ELSE Operations(calls[k], r)]
  BY DEF Enter
<1>2. UNCHANGED <<calls, id, stream>>
  BY DEF Enter, app, engine
<1>3. /\ taken \in [Ranks -> 0 .. Len(calls)] /\ todo \in [Ranks -> Seq(AnyOp)]
      /\ calls \in Seq(ACall) /\ Len(calls) \in Nat
  BY LenProperties DEF Typed, TypeOK
<1>4. /\ taken'[r] = k /\ \A s \in Ranks \ {r} : taken'[s] = taken[s] /\ todo'[s] = todo[s]
      /\ \A s \in Ranks : taken[s] \in Nat
  BY <1>1, <1>3
<1>5. CallsKept
  BY <1>2, <1>3 DEF CallsKept
<1>6. \A n : Looping(n)' <=> Looping(n)
  BY <1>2 DEF Looping
<1>7. taken[r] < k /\ k \in Nat
  BY <1>1, <1>3, <1>4
<1>8. ASSUME NEW n, Looping(n), NEW q \in calls[n].comm
      PROVE  /\ Begun(less, q, n)' <=> Begun(left, q, n)
             /\ Ended(less, q, n)' => Ended(left, q, n)
  <2> DEFINE c == calls[n].comm
             total == Total(calls[n], c)
  <2>1. q \in Ranks /\ c \in AllComms /\ c \in Own(q) /\ n \in Nat /\ total \in Nat /\ total >= 2
    BY <1>8, LoopingFacts
  <2>2. CASE q # r
    <3>1. taken'[q] = taken[q] /\ less[q][c] = left[q][c]
      BY <1>4, <2>1, <2>2
    <3>2. QED
      BY <1>2, <3>1 DEF Begun, Ended
  <2>3. CASE q = r
    <3>1. left[r][c] = 0
      BY <2>1, <2>3
    <3>2. n = k => less[r][c] = total
      BY <1>4, <2>1
    <3>3. n < k => n <= taken[r]
      <4>1. SUFFICES ASSUME n < k, ~(n <= taken[r])
                     PROVE  FALSE
        BY <1>4, <2>1
      <4>2. n \in (taken[r] + 1) .. (k - 1)
        BY <1>4, <1>7, <2>1, <4>1
      <4>3. QED
        BY <1>1, <1>8, <2>3, <4>2
    <3>4. Begun(less, q, n)' <=> (k > n \/ (k = n /\ less[r][c] < total))
      BY <1>2, <1>4, <2>3 DEF Begun
    <3>5. Begun(left, q, n) <=> (taken[r] > n \/ (taken[r] = n /\ left[r][c] < total))
      BY <2>3 DEF Begun
    <3>6. Ended(less, q, n)' <=> (k > n \/ (k = n /\ less[r][c] = 0))
      BY <1>2, <1>4, <2>3 DEF Ended
    <3>7. Ended(left, q, n) <=> (taken[r] > n \/ (taken[r] = n /\ left[r][c] = 0))
      BY <2>3 DEF Ended
    <3> HIDE DEF c, total
    <3>8. taken[r] \in Nat
      BY <1>4
    <3>9. CASE n < k
      <4>1. n <= taken[r] /\ k > n
        BY <1>7, <2>1, <3>3, <3>9
      <4>2. taken[r] > n \/ taken[r] = n
        BY <2>1, <3>8, <4>1
      <4>3. left[r][c] < total
        BY <2>1, <3>1
      <4>4. QED
        BY <3>1, <3>4, <3>5, <3>6, <3>7, <4>1, <4>2, <4>3
    <3>10. CASE n = k
      <4>1. ~(k > n) /\ ~(taken[r] > n) /\ taken[r] # n
        BY <1>7, <2>1, <3>8, <3>10
      <4>2. ~(less[r][c] < total) /\ less[r][c] # 0
        BY <2>1, <3>2, <3>10
      <4>3. QED
        BY <3>4, <3>5, <3>6, <4>1, <4>2
    <3>11. CASE n > k
      <4>1. ~(k > n) /\ k # n /\ ~(taken[r] > n) /\ taken[r] # n
        BY <1>7, <2>1, <3>8, <3>11
      <4>2. QED
        BY <3>4, <3>5, <3>6, <4>1
    <3>12. QED
      BY <1>7, <2>1, <3>9, <3>10, <3>11
  <2>4. QED
    BY <2>2, <2>3
<1>9. \A d \in AllComms : \A i \in Numbered(d)' : i \in Numbered(d) /\ stream'[d][i] = stream[d][i]
  BY <1>2 DEF Numbered
<1>10. ASSUME NEW s \in Ranks, Loop(s)', less[s][calls'[taken'[s]].comm] = 0, todo'[s] # << >>
       PROVE  /\ Loop(s) /\ taken'[s] = taken[s]
              /\ left[s][calls[taken[s]].comm] = 0 /\ todo[s] # << >>
  <2>1. s # r
    <3>1. SUFFICES ASSUME s = r
                   PROVE  FALSE
      OBVIOUS
    <3>2. Looping(k)
      BY <1>1, <1>2, <1>3, <1>4, <1>7, <1>10, <3>1 DEF Looping, Loop
    <3>3. calls[k].comm \in AllComms /\ Total(calls[k], calls[k].comm) \in Nat /\ Total(calls[k], calls[k].comm) >= 2
      BY <3>2, LoopingFacts
    <3>4. less[r][calls[k].comm] = Total(calls[k], calls[k].comm)
      BY <1>4, <3>3
    <3>5. less[r][calls[k].comm] = 0
      BY <1>2, <1>4, <1>10, <3>1
    <3>6. QED
      BY <3>3, <3>4, <3>5
  <2>2. taken'[s] = taken[s] /\ todo'[s] = todo[s] /\ less[s] = left[s]
    BY <1>4, <2>1
  <2>3. QED
    BY <1>2, <1>10, <2>2 DEF Loop
<1>11. \A n : Looping(n)' => \A q \in calls'[n].comm : Begun(less, q, n)' => n <= Len(calls) /\ Begun(left, q, n)
  <2>1. \A n : Looping(n) => n <= Len(calls)
    BY <1>3, LoopingFacts
  <2>2. QED
    BY <1>2, <1>6, <1>8, <2>1
<1>12. QED
  BY <1>2, <1>5, <1>8, <1>9, <1>10, <1>11, QuietCounted

\* The members of a communicator agree on a number: those who begin or end their call
\* with it get one that is greater than what they have written.
LEMMA SyncCounted ==
  ASSUME Typed, InOwnStream, NEW left \in Lefts, Steady(left), Stages(left), Counted(left),
         NEW c \in AllComms, DoSync(c), \A r \in c : left[r][c] # 0, NEW less \in Lefts,
         \A r \in Ranks, x \in AllComms : less[r][x] = IF r \in c /\ x = c THEN left[r][x] - 1 ELSE left[r][x]
  PROVE  Counted(less)'
<1>1. UNCHANGED <<calls, taken, stream>> /\ Together(c, "sync") /\ GoOn(c)
      /\ id' = [r \in Ranks |-> IF r \in c THEN Agreed(c) ELSE id[r]]
  BY DEF DoSync, app
<1>2. id \in [Ranks -> Nat]
  BY DEF Typed, TypeOK
<1>3. PICK a \in Nat : a = Agreed(c) /\ \A r \in c : id[r] <= a
  BY <1>2, AgreedFacts
<1>4. \A r \in c : r \in Ranks /\ Doing(r, "sync") /\ comm[r] = c
  BY <1>1, TogetherFacts
<1>5. /\ \A r \in c : id'[r] = a
      /\ \A r \in Ranks \ c : id'[r] = id[r]
      /\ \A r \in Ranks : id[r] \in Int /\ id'[r] \in Int /\ id[r] <= id'[r]
  <2>1. \A r \in Ranks : id'[r] = IF r \in c THEN a ELSE id[r]
    BY <1>1, <1>3
  <2>2. QED
    BY <1>2, <1>3, <1>4, <2>1
<1>6. \A r \in Ranks \ c : todo'[r] = todo[r]
  BY <1>1, <1>4, GoOnTyped DEF Doing
<1>7. PICK t : t \in Nat /\ \A r \in c : taken[r] = t
  <2>1. \A r \in Ranks : taken[r] \in Nat
    BY LenProperties DEF Typed, TypeOK
  <2>2. ASSUME NEW r \in c, NEW s \in c
        PROVE  ~(taken[r] < taken[s])
    <3>1. Pace(left, r, s, c)
      BY DEF Steady
    <3>2. QED
      BY <3>1 DEF Pace
  <2>3. Root(c) \in c /\ Root(c) \in Ranks
    BY RootFacts
  <2>4. \A r \in c : taken[r] = taken[Root(c)]
    BY <1>4, <2>1, <2>2, <2>3
  <2>5. QED
    BY <2>1, <2>3, <2>4
<1>8. ASSUME NEW n, Looping(n), NEW q \in calls[n].comm
      PROVE  /\ q \in Ranks /\ calls[n].comm \in AllComms /\ n \in Nat
             /\ Begun(left, q, n) => Begun(less, q, n)'
             /\ Begun(less, q, n)' => Begun(left, q, n) \/ (q \in c /\ n = t /\ calls[n].comm = c)
             /\ Ended(less, q, n)' => Ended(left, q, n) \/ (q \in c /\ n = t /\ calls[n].comm = c)
  <2> DEFINE d == calls[n].comm
             total == Total(calls[n], d)
  <2>1. q \in Ranks /\ d \in AllComms /\ n \in Nat /\ total \in Nat
    BY <1>8, LoopingFacts
  <2>2. left[q][d] \in Nat /\ less[q][d] = IF q \in c /\ d = c THEN left[q][d] - 1 ELSE left[q][d]
    BY <2>1 DEF Lefts
  <2>3. /\ Begun(less, q, n)' <=> (taken[q] > n \/ (taken[q] = n /\ less[q][d] < total))
        /\ Begun(left, q, n) <=> (taken[q] > n \/ (taken[q] = n /\ left[q][d] < total))
        /\ Ended(less, q, n)' <=> (taken[q] > n \/ (taken[q] = n /\ less[q][d] = 0))
        /\ Ended(left, q, n) <=> (taken[q] > n \/ (taken[q] = n /\ left[q][d] = 0))
    BY <1>1 DEF Begun, Ended
  <2>4. q \in c => taken[q] = t
    BY <1>7
  <2> HIDE DEF d, total
  <2>5. left[q][d] < total => less[q][d] < total
    BY <2>1, <2>2
  <2>6. CASE q \in c /\ d = c
    BY <2>1, <2>3, <2>4, <2>5, <2>6 DEF d
  <2>7. CASE ~(q \in c /\ d = c)
    BY <2>1, <2>2, <2>3, <2>7 DEF d
  <2>8. QED
    BY <2>6, <2>7
<1>9. \A n : Looping(n)' <=> Looping(n)
  BY <1>1 DEF Looping
<1>10. ASSUME NEW m, Looping(m), NEW v, Later(less, m, v)'
       PROVE  \/ v \in Int /\ \E u \in Int : Later(left, m, u) /\ u <= v
              \/ m = t /\ calls[m].comm = c /\ v = a
  <2>1. ASSUME NEW q \in calls[m].comm, Ended(less, q, m)', v = id'[q]
        PROVE  \/ v \in Int /\ \E u \in Int : Later(left, m, u) /\ u <= v
               \/ m = t /\ calls[m].comm = c /\ v = a
    <3>1. q \in Ranks /\ (Ended(left, q, m) \/ (q \in c /\ m = t /\ calls[m].comm = c))
      BY <1>8, <1>10, <2>1
    <3>2. CASE Ended(left, q, m)
      <4>1. Later(left, m, id[q])
        BY <2>1, <3>2 DEF Later
      <4>2. QED
        BY <1>5, <2>1, <3>1, <4>1
    <3>3. CASE q \in c /\ m = t /\ calls[m].comm = c
      BY <1>5, <2>1, <3>3
    <3>4. QED
      BY <3>1, <3>2, <3>3
  <2>2. ASSUME NEW n, Looping(n), n \in 1 .. Len(calls), Meet(m, n), NEW q \in calls[n].comm, Begun(less, q, n)', v = id'[q]
        PROVE  v \in Int /\ \E u \in Int : Later(left, m, u) /\ u <= v
    <3>1. q \in Ranks /\ n \in Nat /\ (Begun(left, q, n) \/ (q \in c /\ n = t /\ calls[n].comm = c))
      BY <1>8, <2>2
    <3>2. CASE Begun(left, q, n)
      <4>1. Later(left, m, id[q])
        BY <2>2, <3>2 DEF Later
      <4>2. QED
        BY <1>5, <2>2, <3>1, <4>1
    <3>3. CASE q \in c /\ n = t /\ calls[n].comm = c
      <4>1. PICK p \in calls[m].comm : p \in c
        BY <2>2, <3>3 DEF Meet
      <4>2. taken[p] > m /\ p \in Ranks
        BY <1>4, <1>7, <2>2, <3>3, <4>1 DEF Meet
      <4>3. Later(left, m, id[p])
        BY <4>1, <4>2 DEF Later, Ended
      <4>4. v = a /\ id[p] <= a /\ id[p] \in Int
        BY <1>3, <1>5, <2>2, <3>3, <4>1, <4>2
      <4>5. QED
        BY <4>3, <4>4
    <3>4. QED
      BY <3>1, <3>2, <3>3
  <2>3. ASSUME NEW n, Looping(n), n \in 1 .. Len(calls), Meet(m, n), NEW d \in AllComms, NEW i \in Numbered(d),
               stream[d][i].call = n, v = stream[d][i].jid
        PROVE  v \in Int /\ \E u \in Int : Later(left, m, u) /\ u <= v
    <3>1. Later(left, m, v)
      BY <2>3 DEF Later
    <3>2. v \in Int
      BY <2>3, NumberedTypes
    <3>3. QED
      BY <3>1, <3>2
  <2>4. \/ \E q \in calls[m].comm : Ended(less, q, m)' /\ v = id'[q]
        \/ \E n \in 1 .. Len(calls) :
             /\ Looping(n) /\ Meet(m, n)
             /\ \/ \E q \in calls[n].comm : Begun(less, q, n)' /\ v = id'[q]
                \/ \E d \in AllComms : \E i \in Numbered(d) : stream[d][i].call = n /\ v = stream[d][i].jid
    BY <1>1, <1>9, <1>10 DEF Later, Meet, Numbered
  <2>5. QED
    BY <2>1, <2>2, <2>3, <2>4
<1>11. ASSUME NEW d \in AllComms, NEW i \in Numbered(d), NEW x, x = stream[d][i], Looping(x.call)
       PROVE  Passed(less, d, x)' /\ First(less, x)'
  <2>1. Root(d) \in calls[x.call].comm /\ Root(d) \in Ranks /\ x.jid \in Int
    BY <1>11, NodeRoot, NumberedTypes
  <2>2. x.jid < id[Root(d)] /\ Begun(left, Root(d), x.call) /\ First(left, x)
    BY <1>11 DEF Counted, Passed
  <2>3. x.jid < id'[Root(d)]
    BY <1>5, <2>1, <2>2
  <2>4. Begun(less, Root(d), x.call)'
    BY <1>8, <1>11, <2>1, <2>2
  <2>5. ASSUME NEW v, Later(less, x.call, v)'
        PROVE  Before(x, v)
    <3>1. CASE v \in Int /\ \E u \in Int : Later(left, x.call, u) /\ u <= v
      <4>1. PICK u \in Int : Later(left, x.call, u) /\ u <= v
        BY <3>1
      <4>2. Before(x, u)
        BY <1>11, <2>2, <4>1 DEF First
      <4>3. QED
        BY <2>1, <3>1, <4>1, <4>2 DEF Before
    <3>2. CASE calls[x.call].comm = c /\ v = a
      <4>1. x.jid < a
        BY <1>5, <2>1, <2>3, <3>2
      <4>2. QED
        BY <3>2, <4>1 DEF Before
    <3>3. QED
      BY <1>10, <1>11, <2>5, <3>1, <3>2
  <2>6. QED
    BY <2>3, <2>4, <2>5 DEF Passed, First
<1>12. ASSUME NEW d \in AllComms, NEW i \in Numbered(d)', NEW x, x = stream'[d][i]
       PROVE  Passed(less, d, x)' /\ First(less, x)'
  <2>1. i \in Numbered(d) /\ x = stream[d][i]
    BY <1>1, <1>12 DEF Numbered
  <2>2. CASE Looping(x.call)
    BY <1>11, <2>1, <2>2
  <2>3. CASE ~Looping(x.call)
    BY <1>9, <2>3 DEF Passed, First
  <2>4. QED
    BY <2>2, <2>3
<1>13. ASSUME NEW r \in Ranks
       PROVE  Closing(less, r)'
  <2>1. SUFFICES ASSUME Loop(r), less[r][calls[taken[r]].comm] = 0, todo'[r] # << >>,
                        NEW m, m = taken[r], NEW v, Later(less, m, v)'
                 PROVE  id'[r] <= v
    BY <1>1 DEF Closing, Loop
  <2> DEFINE here == calls[m].comm
  <2>2. Looping(m) /\ r \in here /\ here \in AllComms /\ less[r][here] = 0
    BY <2>1, LoopFacts DEF Looping, Loop
  <2>3. \/ v \in Int /\ \E u \in Int : Later(left, m, u) /\ u <= v
        \/ m = t /\ here = c /\ v = a
    BY <1>10, <2>1, <2>2
  <2> HIDE DEF here
  <2>4. CASE here = c
    <3>1. ~\E u \in Int : Later(left, m, u)
      BY <2>1, <2>2, <2>4, NotLater DEF here
    <3>2. v = a
      BY <2>3, <3>1
    <3>3. QED
      BY <1>3, <1>5, <2>2, <2>4, <3>2
  <2>5. CASE here # c
    <3>1. left[r][here] = 0
      BY <2>2, <2>5
    <3>2. todo[r] \in Done
      BY <2>1, <3>1, StageFacts DEF Stages, here
    <3>3. r \notin c
      <4>1. SUFFICES ASSUME r \in c
                     PROVE  FALSE
        OBVIOUS
      <4>2. todo[r] # << >> /\ Head1(r).op = "sync"
        BY <1>4, <4>1 DEF Doing, Head1
      <4>3. Head1(r) = Write("ended") /\ Write("ended").op = "write"
        BY <3>2, <4>2, DoneFacts DEF Write
      <4>4. QED
        BY <4>2, <4>3
    <3>4. todo[r] # << >> /\ id'[r] = id[r]
      BY <1>5, <1>6, <2>1, <3>3
    <3>5. PICK u \in Int : Later(left, m, u) /\ u <= v
      BY <2>3, <2>5
    <3>6. Closing(left, r)
      BY DEF Counted
    <3>7. id[r] <= u
      BY <2>1, <3>1, <3>4, <3>5, <3>6 DEF Closing, here
    <3>8. v \in Int
      BY <2>3, <2>5
    <3>9. QED
      BY <1>5, <3>4, <3>5, <3>7, <3>8
  <2>6. QED
    BY <2>4, <2>5
<1>14. QED
  BY <1>12, <1>13 DEF Counted

\* At the start nothing has been called.
LEMMA InitOrdered == Init => OInv
<1> SUFFICES ASSUME Init
             PROVE  OInv
  OBVIOUS
<1>1. Typed /\ OfCalls /\ InOwnStream /\ \E left \in Lefts : Steady(left)
  BY InitSteady DEF IInv
<1>2. PICK left \in Lefts : Steady(left)
  BY <1>1
<1>3. Len(calls) = 0 /\ \A r \in Ranks : taken[r] = 0
  BY DEF Init
<1>4. \A n : ~Looping(n)
  BY <1>3 DEF Looping
<1>5. \A r \in Ranks : ~Loop(r)
  BY <1>3 DEF Loop
<1>6. FinalLast
  BY <1>3 DEF FinalLast
<1>7. Stages(left)
  BY <1>5 DEF Stages, Stage
<1>8. Counted(left)
  BY <1>4, <1>5 DEF Counted, Passed, First, Closing
<1>9. QED
  BY <1>1, <1>2, <1>6, <1>7, <1>8 DEF OInv, Ordered

\* Every step keeps the order: doing nothing does.
LEMMA StutterOrdered ==
  ASSUME Typed, Typed', OfCalls, InOwnStream, FinalLast, NEW left \in Lefts, Ordered(left), UNCHANGED vars
  PROVE  FinalLast' /\ Ordered(left)'
<1>1. UNCHANGED <<calls, open, taken, todo, comm, id, known, stream, output>>
  BY DEF vars
<1>2. Steady(left) /\ Stages(left) /\ Counted(left)
  BY DEF Ordered
<1>3. Steady(left)'
  BY <1>1, <1>2 DEF Steady, Goes, Here, Messages, Pace, Total, Doing
<1>4. Stages(left)' /\ FinalLast'
  BY <1>1, <1>2 DEF Stages, Stage, Loop, FinalLast
<1>5. Counted(left)'
  <2>1. CallsKept
    <3>1. Len(calls) \in Nat
      BY LenProperties DEF Typed
    <3>2. QED
      BY <1>1, <3>1 DEF CallsKept
  <2>2. \A n : Looping(n)' <=> Looping(n)
    BY <1>1 DEF Looping
  <2>3. \A n, q : (Begun(left, q, n)' <=> Begun(left, q, n)) /\ (Ended(left, q, n)' <=> Ended(left, q, n))
    BY <1>1 DEF Begun, Ended
  <2>4. \A n : Looping(n) => n <= Len(calls)
    BY LoopingFacts, LenProperties DEF Typed
  <2>5. \A d \in AllComms : \A i \in Numbered(d)' : i \in Numbered(d) /\ stream'[d][i] = stream[d][i]
    BY <1>1 DEF Numbered
  <2>6. \A r \in Ranks : Loop(r)' <=> Loop(r)
    BY <1>1 DEF Loop
  <2>7. \A n : Looping(n)' => \A q \in calls'[n].comm :
           Begun(left, q, n)' => n <= Len(calls) /\ Begun(left, q, n)
    BY <2>2, <2>3, <2>4
  <2>8. \A n : Looping(n) => \A q \in calls[n].comm :
           (Begun(left, q, n) => Begun(left, q, n)') /\ (Ended(left, q, n)' => Ended(left, q, n))
    BY <2>3
  <2>9. \A r \in Ranks : Loop(r)' /\ left[r][calls'[taken'[r]].comm] = 0 /\ todo'[r] # << >> =>
          /\ Loop(r) /\ taken'[r] = taken[r]
          /\ left[r][calls[taken[r]].comm] = 0 /\ todo[r] # << >>
    BY <1>1, <2>6
  <2>10. QED
    BY <1>1, <1>2, <2>1, <2>5, <2>7, <2>8, <2>9, QuietCounted
<1>6. QED
  BY <1>3, <1>4, <1>5 DEF Ordered

\* A call of the application does,
LEMMA ApplicationOrdered ==
  ASSUME Typed, Typed', OfCalls, InOwnStream, NEW left \in Lefts, Ordered(left), Application
  PROVE  FinalLast' /\ Ordered(left)'
<1>1. Steady(left) /\ Stages(left) /\ Counted(left)
  BY DEF Ordered
<1>2. Steady(left)'
  BY <1>1, ApplicationSteady
<1>3. Counted(left)' /\ FinalLast'
  BY <1>1, ApplicationCounted
<1>4. Stages(left)'
  <2>1. /\ \A k \in 1 .. Len(calls) : calls'[k] = calls[k]
        /\ UNCHANGED <<taken, todo, comm>> /\ Len(calls) \in Nat
    BY CallsGrow
  <2>2. \A r \in Ranks : taken[r] # 0 => calls'[taken[r]] = calls[taken[r]]
    <3>1. \A r \in Ranks : taken[r] \in 0 .. Len(calls)
      BY DEF Typed, TypeOK
    <3>2. QED
      BY <2>1, <3>1
  <2>3. QED
    BY <1>1, <2>1, <2>2 DEF Stages, Stage, Loop
<1>5. QED
  BY <1>2, <1>3, <1>4 DEF Ordered

\* a rank that enters its next call,
LEMMA EnterOrdered ==
  ASSUME Typed, Typed', OfCalls, InOwnStream, FinalLast, NEW left \in Lefts, Ordered(left),
         NEW r \in Ranks, Enter(r)
  PROVE  /\ FinalLast'
         /\ \E less \in Lefts :
              /\ Ordered(less)'
              /\ \A s \in Ranks \ {r} : less[s] = left[s]
              /\ \A c \in AllComms : less[r][c] = Total(calls[taken'[r]], c)
              /\ \A c \in Own(r) : left[r][c] = 0
<1>1. Steady(left) /\ Stages(left) /\ Counted(left)
  BY DEF Ordered
<1>2. FinalLast'
  BY DEF Enter, app, FinalLast
<1>3. PICK less \in Lefts :
        /\ Steady(less)'
        /\ \A s \in Ranks \ {r} : less[s] = left[s]
        /\ \A c \in AllComms : less[r][c] = Total(calls[taken'[r]], c)
        /\ \A c \in Own(r) : left[r][c] = 0
  BY <1>1, EnterSteady
<1>4. Stages(less)'
  BY <1>1, <1>3, EnterStages
<1>5. Counted(less)'
  BY <1>1, <1>3, EnterCounted
<1>6. QED
  BY <1>2, <1>3, <1>4, <1>5 DEF Ordered

\* an operation of a rank,
LEMMA StepOrdered ==
  ASSUME ~LogsToStdout, Typed, Typed', OfCalls, InOwnStream, InOwnStream', FinalLast,
         NEW left \in Lefts, Ordered(left), NEW r \in Ranks, Step(r)
  PROVE  FinalLast' /\ Ordered(left)'
<1>1. Steady(left) /\ Stages(left) /\ Counted(left)
  BY DEF Ordered
<1>2. FinalLast'
  BY StepKeeps DEF FinalLast
<1>3. Steady(left)'
  BY <1>1, StepSteady
<1>4. Stages(left)'
  BY <1>1, StepStages
<1>5. Counted(left)'
  BY <1>1, StepCounted
<1>6. QED
  BY <1>2, <1>3, <1>4, <1>5 DEF Ordered

\* and the collectives.
LEMMA GatherOrdered ==
  ASSUME Typed, Typed', OfCalls, InOwnStream, FinalLast, NEW left \in Lefts, Ordered(left),
         NEW c \in AllComms, DoGather(c)
  PROVE  /\ FinalLast'
         /\ \E less \in Lefts :
              /\ Ordered(less)'
              /\ \A r \in Ranks, x \in AllComms : less[r][x] = left[r][x]
<1>1. Steady(left) /\ Stages(left) /\ Counted(left)
  BY DEF Ordered
<1>2. Together(c, "gather") /\ GoOn(c) /\ UNCHANGED <<calls, taken, comm, output>>
  BY DEF DoGather, app
<1>3. PICK less \in Lefts :
        /\ Steady(less)'
        /\ \A r \in Ranks, x \in AllComms :
             less[r][x] = IF "gather" = "sync" /\ r \in c /\ x = c THEN left[r][x] - 1 ELSE left[r][x]
  BY <1>1, <1>2, CollectiveSteady
<1>4. \A r \in Ranks, x \in AllComms : less[r][x] = left[r][x]
  BY <1>3
<1>5. Stages(less)'
  BY <1>1, <1>2, <1>3, CollectiveStages
<1>6. Counted(less)'
  BY <1>1, <1>4, GatherCounted
<1>7. FinalLast'
  BY <1>2 DEF FinalLast
<1>8. QED
  BY <1>3, <1>4, <1>5, <1>6, <1>7 DEF Ordered

LEMMA SyncOrdered ==
  ASSUME Typed, Typed', OfCalls, InOwnStream, FinalLast, NEW left \in Lefts, Ordered(left),
         NEW c \in AllComms, DoSync(c)
  PROVE  /\ FinalLast' /\ \A r \in c : left[r][c] # 0
         /\ \E less \in Lefts :
              /\ Ordered(less)'
              /\ \A r \in Ranks, x \in AllComms :
                   less[r][x] = IF r \in c /\ x = c THEN left[r][x] - 1 ELSE left[r][x]
<1>1. Steady(left) /\ Stages(left) /\ Counted(left)
  BY DEF Ordered
<1>2. Together(c, "sync") /\ GoOn(c) /\ UNCHANGED <<calls, taken, comm, output>>
  BY DEF DoSync, app
<1>3. \A r \in c : left[r][c] # 0
  BY <1>1, <1>2, CollectiveSteady
<1>4. PICK less \in Lefts :
        /\ Steady(less)'
        /\ \A r \in Ranks, x \in AllComms :
             less[r][x] = IF "sync" = "sync" /\ r \in c /\ x = c THEN left[r][x] - 1 ELSE left[r][x]
  BY <1>1, <1>2, CollectiveSteady
<1>5. \A r \in Ranks, x \in AllComms : less[r][x] = IF r \in c /\ x = c THEN left[r][x] - 1 ELSE left[r][x]
  BY <1>4
<1>6. Stages(less)'
  BY <1>1, <1>2, <1>4, CollectiveStages
<1>7. Counted(less)'
  BY <1>1, <1>3, <1>5, SyncCounted
<1>8. FinalLast'
  BY <1>2 DEF FinalLast
<1>9. QED
  BY <1>3, <1>4, <1>5, <1>6, <1>7, <1>8 DEF Ordered

LEMMA NextOrdered ==
  ASSUME OInv, ~LogsToStdout, [Next]_vars
  PROVE  OInv'
<1>1. PICK left \in Lefts : Ordered(left)
  BY DEF OInv
<1>2. Typed /\ OfCalls /\ InOwnStream /\ FinalLast
  BY DEF OInv
<1>3. IInv
  BY <1>1, <1>2 DEF IInv, Ordered
<1>4. Typed' /\ OfCalls' /\ InOwnStream'
  BY <1>3, NextSteady DEF IInv
<1>5. FinalLast' /\ \E less \in Lefts : Ordered(less)'
  <2>1. CASE UNCHANGED vars
    BY <1>1, <1>2, <1>4, <2>1, StutterOrdered
  <2>2. CASE Application
    BY <1>1, <1>2, <1>4, <2>2, ApplicationOrdered
  <2>3. ASSUME NEW r \in Ranks, Enter(r)
        PROVE  FinalLast' /\ \E less \in Lefts : Ordered(less)'
    BY <1>1, <1>2, <1>4, <2>3, EnterOrdered
  <2>4. ASSUME NEW r \in Ranks, Step(r)
        PROVE  FinalLast' /\ \E less \in Lefts : Ordered(less)'
    BY <1>1, <1>2, <1>4, <2>4, StepOrdered
  <2>5. ASSUME NEW c \in AllComms, Collective(c)
        PROVE  FinalLast' /\ \E less \in Lefts : Ordered(less)'
    <3>1. CASE DoGather(c)
      BY <1>1, <1>2, <1>4, <3>1, GatherOrdered
    <3>2. CASE DoSync(c)
      BY <1>1, <1>2, <1>4, <3>2, SyncOrdered
    <3>3. QED
      BY <2>5, <3>1, <3>2 DEF Collective
  <2>6. QED
    BY <2>1, <2>2, <2>3, <2>4, <2>5 DEF Next
<1>6. QED
  BY <1>4, <1>5 DEF OInv

\* What a call writes comes before what a later one does.
LEMMA OrderedCalls ==
  ASSUME OInv
  PROVE  CallOrder
<1>1. PICK left \in Lefts : Counted(left)
  BY DEF OInv, Ordered
<1>2. Typed /\ OfCalls /\ FinalLast
  BY DEF OInv
<1>3. ASSUME NEW c \in AllComms, NEW d \in AllComms, NEW i \in Numbered(c), NEW k \in Numbered(d),
             0 < stream[c][i].call, stream[c][i].call < stream[d][k].call,
             calls[stream[d][k].call].kind # "finalize",
             calls[stream[c][i].call].comm \cap calls[stream[d][k].call].comm # {}
      PROVE  Before(stream[c][i], stream[d][k].jid)
  <2> DEFINE m == stream[c][i].call
             n == stream[d][k].call
  <2>1. m \in 0 .. Len(calls) /\ n \in 0 .. Len(calls) /\ Len(calls) \in Nat
    BY <1>2, LenProperties DEF OfCalls, Numbered, Typed
  <2>2. n \in 1 .. Len(calls) /\ m \in 1 .. (Len(calls) - 1) /\ m \in 1 .. Len(calls)
    BY <1>3, <2>1
  <2>3. Looping(n) /\ Looping(m)
    BY <1>2, <1>3, <2>2 DEF Looping, FinalLast
  <2>4. Meet(m, n)
    BY <1>3 DEF Meet
  <2>5. Later(left, m, stream[d][k].jid)
    BY <2>2, <2>3, <2>4 DEF Later
  <2>6. First(left, stream[c][i])
    BY <1>1 DEF Counted
  <2>7. QED
    BY <2>3, <2>5, <2>6 DEF First
<1>4. QED
  BY <1>3 DEF CallOrder, Before

-----------------------------------------------------------------------------
(* The order of calls.                                                     *)

\* When the logger does not print on the captured standard output, the counts of the
\* ranks and the numbers they have given are in order in every state.
THEOREM OrderInvariance ==
  ASSUME ~LogsToStdout
  PROVE  Spec => []OInv
<1>1. Init => OInv
  BY InitOrdered
<1>2. OInv /\ [Next]_vars => OInv'
  BY NextOrdered
<1>3. QED
  BY <1>1, <1>2, PTL DEF Spec

\* When a rank takes part in two calls, everything the first one wrote, on whatever
\* communicator and by whatever rank, is numbered before what the second one writes
\* (the last node of a point may share its number): a reader that merges the streams
\* by these numbers puts the calls in the order the application made them.
THEOREM CallOrderTheorem ==
  ASSUME ~LogsToStdout
  PROVE  Spec => []CallOrder
<1>1. OInv => CallOrder
  BY OrderedCalls
<1>2. QED
  BY <1>1, OrderInvariance, PTL

-----------------------------------------------------------------------------
(* A message takes a number for its name just before its own.              *)

Named(s) == \A i \in 1 .. (Len(s) - 1) : s[i + 1] = Write("log") => s[i] = NameLog

\* Outside the calls of loops nobody logs.
Calm(r) == ~Loop(r) => todo[r] \in Seq(Unlogged)

Loggers == \A r \in Ranks : Named(todo[r]) /\ Calm(r)

\* What may be in a call before it is done.
Plain == SomeOp \ {Write("log")}

\* Without messages to write there is nothing to name.
LEMMA NamedPlain ==
  ASSUME NEW s \in Seq(Plain)
  PROVE  Named(s) /\ (s # << >> => s[1] # Write("log"))
<1>1. \A i \in 1 .. Len(s) : s[i] \in Plain
  BY ElementOfSeq
<1>2. Len(s) \in Nat /\ (s # << >> => Len(s) > 0)
  BY LenProperties, EmptySeq
<1>3. ASSUME NEW i \in 1 .. (Len(s) - 1)
      PROVE  s[i + 1] # Write("log")
  <2>1. i + 1 \in 1 .. Len(s)
    BY <1>2
  <2>2. QED
    BY <1>1, <2>1 DEF Plain
<1>4. s # << >> => s[1] # Write("log")
  BY <1>1, <1>2 DEF Plain
<1>5. QED
  BY <1>3, <1>4 DEF Named

\* Names stay before their messages.
LEMMA NamedConcat ==
  ASSUME NEW p \in Seq(SomeOp), NEW t \in Seq(SomeOp), Named(p), Named(t),
         p # << >> /\ t # << >> => t[1] # Write("log")
  PROVE  Named(p \o t)
<1> DEFINE m == Len(p)
           n == Len(t)
           u == p \o t
<1>1. m \in Nat /\ n \in Nat
  BY LenProperties
<1>2. /\ Len(u) = m + n
      /\ \A i \in 1 .. m : u[i] = p[i]
      /\ \A i \in (m + 1) .. (m + n) : u[i] = t[i - m]
  BY ConcatProperties
<1>3. SUFFICES ASSUME NEW i \in 1 .. (Len(u) - 1), u[i + 1] = Write("log")
               PROVE  u[i] = NameLog
  BY DEF Named
<1> HIDE DEF u
<1>4. CASE i + 1 <= m
  <2>1. i \in 1 .. m /\ i + 1 \in 1 .. m /\ i \in 1 .. (m - 1)
    BY <1>1, <1>4
  <2>2. QED
    BY <1>2, <1>3, <2>1 DEF Named
<1>5. CASE i = m
  <2>1. m + 1 \in (m + 1) .. (m + n) /\ (m + 1) - m = 1 /\ n > 0 /\ m > 0
    BY <1>1, <1>2, <1>5
  <2>2. u[m + 1] = t[1]
    BY <1>2, <2>1
  <2>3. p # << >> /\ t # << >>
    BY <2>1, EmptySeq
  <2>4. QED
    BY <1>3, <1>5, <2>2, <2>3
<1>6. CASE i > m
  <2>1. /\ i \in (m + 1) .. (m + n) /\ i + 1 \in (m + 1) .. (m + n)
        /\ (i + 1) - m = (i - m) + 1 /\ i - m \in 1 .. (n - 1)
    BY <1>1, <1>2, <1>6
  <2>2. u[i] = t[i - m] /\ u[i + 1] = t[(i - m) + 1]
    BY <1>2, <2>1
  <2>3. QED
    BY <1>3, <2>1, <2>2 DEF Named
<1>7. QED
  BY <1>1, <1>2, <1>4, <1>5, <1>6

\* A message is reached from its name only.
LEMMA NamedTail ==
  ASSUME NEW s \in Seq(SomeOp), s # << >>, Named(s)
  PROVE  /\ Named(Tail(s))
         /\ Tail(s) # << >> /\ Tail(s)[1] = Write("log") => s[1] = NameLog
<1> DEFINE t == Tail(s)
           n == Len(s)
<1>1. n \in Nat /\ n > 0
  BY LenProperties, EmptySeq
<1>2. t \in Seq(SomeOp) /\ Len(t) = n - 1 /\ \A i \in 1 .. (n - 1) : t[i] = s[i + 1]
  <2>1. s[1] \in SomeOp /\ t \in Seq(SomeOp) /\ s = <<s[1]>> \o t
    BY HeadTail
  <2> DEFINE e == s[1]
  <2> HIDE DEF e, t
  <2>2. Len(<<e>> \o t) = Len(t) + 1 /\ \A i \in 1 .. Len(t) : (<<e>> \o t)[i + 1] = t[i]
    BY <2>1, ConsFacts DEF e
  <2>3. s = <<e>> \o t /\ Len(t) \in Nat
    BY <2>1, LenProperties DEF e
  <2>4. Len(t) = n - 1
    BY <1>1, <2>2, <2>3
  <2>5. QED
    BY <2>1, <2>2, <2>3, <2>4
<1> HIDE DEF t
<1>3. Named(t)
  <2>1. SUFFICES ASSUME NEW i \in 1 .. (Len(t) - 1), t[i + 1] = Write("log")
                 PROVE  t[i] = NameLog
    BY DEF Named
  <2>2. i \in 1 .. (n - 1) /\ i + 1 \in 1 .. (n - 1)
    BY <1>1, <1>2
  <2>3. t[i] = s[i + 1] /\ t[i + 1] = s[(i + 1) + 1]
    BY <1>2, <2>2
  <2>4. QED
    BY <2>1, <2>2, <2>3 DEF Named
<1>4. ASSUME t # << >>, t[1] = Write("log")
      PROVE  s[1] = NameLog
  <2>1. n - 1 > 0
    <3>1. Len(t) # 0
      BY <1>2, <1>4, EmptySeq
    <3>2. QED
      BY <1>1, <1>2, <3>1
  <2>2. 1 \in 1 .. (n - 1)
    BY <1>1, <2>1
  <2>3. s[1 + 1] = Write("log")
    BY <1>2, <1>4, <2>2
  <2>4. QED
    BY <2>2, <2>3 DEF Named
<1>5. QED
  BY <1>3, <1>4 DEF t

\* What a rank starts, a call and the end have no messages written yet.
LEMMA EdgesPlain ==
  /\ Startup \in Seq(Unlogged) /\ Shutdown \in Seq(Unlogged)
  /\ Unlogged \subseteq Plain
<1>1. World \in AllComms
  BY CommFacts
<1>2. /\ SetComm(World, TRUE) \in Unlogged /\ SetComm(World, FALSE) \in Unlogged /\ Read \in Unlogged
      /\ Write("actionStarted") \in Unlogged /\ Write("actionFinished") \in Unlogged /\ Write("final") \in Unlogged
  BY <1>1, SetFacts DEF Nodes
<1>3. ActionGroup(World) \in Seq(Unlogged)
  BY <1>1, <1>2, ActionGroupLeads
<1>4. <<Read>> \in Seq(Unlogged) /\ <<Read, SetComm(World, FALSE), Write("final")>> \in Seq(Unlogged)
  BY <1>2, Tuples
<1>5. Startup \in Seq(Unlogged) /\ Shutdown \in Seq(Unlogged)
  <2> DEFINE a == ActionGroup(World)
             b == <<Read>>
             e == <<Read, SetComm(World, FALSE), Write("final")>>
  <2>1. Startup = (a \o b) \o a /\ Shutdown = ((b \o a) \o a) \o e
    BY DEF Startup, Shutdown
  <2>2. a \in Seq(Unlogged) /\ b \in Seq(Unlogged) /\ e \in Seq(Unlogged)
    BY <1>3, <1>4
  <2> HIDE DEF a, b, e
  <2>3. (a \o b) \o a \in Seq(Unlogged) /\ ((b \o a) \o a) \o e \in Seq(Unlogged)
    BY ONLY <2>2, ConcatProperties
  <2>4. QED
    BY <2>1, <2>3
<1>6. Unlogged \subseteq Plain
  BY DEF Unlogged, Plain, Messaging
<1>7. QED
  BY <1>5, <1>6

\* A call of a loop logs, but has no messages written yet.
LEMMA OperationsPlain ==
  ASSUME NEW call \in LoopCall, NEW r \in call.comm
  PROVE  Operations(call, r) \in Seq(Plain) /\ Operations(call, r) # << >> /\ Operations(call, r)[1] = Read
<1> DEFINE here == call.comm
           logs == call.logComm
           e == << >>
           o == SetComm(here, TRUE)
<1>1. here \in AllComms /\ logs \in AllComms /\ call.logs \in Nat /\ call.parents \in Nat
  BY DEF LoopCall
<1>2. /\ o \in Plain /\ Read \in Plain /\ Sync \in Plain /\ LogOn(logs) \in Plain
      /\ \A node \in Nodes \ {"log"} : Write(node) \in Plain
  <2>1. o \in Plain /\ Read \in Plain /\ Sync \in Plain /\ \A node \in Nodes \ {"log"} : Write(node) \in Plain
    BY <1>1, SetFacts, EdgesPlain
  <2>2. LogOn(logs) \in SomeOp /\ LogOn(logs).op = "log" /\ Write("log").op = "write"
    BY <1>1, SomeOpFacts, OpNames
  <2>3. QED
    BY <2>1, <2>2 DEF Plain
<1>3. {"actionStarted", "actionFinished", "started", "ended", "testStarted", "testFinished"} \subseteq Nodes \ {"log"}
  BY DEF Nodes
<1>4. \A b \in Seq(Plain) : Test(b) \in Seq(Plain)
  <2>1. SUFFICES ASSUME NEW b \in Seq(Plain)
                 PROVE  Test(b) \in Seq(Plain)
    OBVIOUS
  <2> DEFINE x == <<Write("testStarted")>>
             y == <<Write("testFinished")>>
  <2>2. x \in Seq(Plain) /\ y \in Seq(Plain) /\ Test(b) = (x \o b) \o y
    BY <1>2, <1>3, Tuples DEF Test
  <2> HIDE DEF x, y
  <2>3. (x \o b) \o y \in Seq(Plain)
    BY ONLY <2>1, <2>2, ConcatProperties
  <2>4. QED
    BY <2>2, <2>3
<1>5. \A b \in Seq(Plain) : PointGroup(here, b) \in Seq(Plain)
  <2>1. SUFFICES ASSUME NEW b \in Seq(Plain)
                 PROVE  PointGroup(here, b) \in Seq(Plain)
    OBVIOUS
  <2> DEFINE x == <<o, Write("started")>>
             y == <<Sync, Write("ended")>>
  <2>2. x \in Seq(Plain) /\ y \in Seq(Plain) /\ PointGroup(here, b) = (x \o b) \o y
    BY <1>2, <1>3, Tuples DEF PointGroup
  <2> HIDE DEF x, y
  <2>3. (x \o b) \o y \in Seq(Plain)
    BY ONLY <2>1, <2>2, ConcatProperties
  <2>4. QED
    BY <2>2, <2>3
<1>6. e \in Seq(Plain)
  BY EmptySeq
<1>7. Body(call, r) \in Seq(Plain)
  <2>1. <<Read, LogOn(logs)>> \in Seq(Plain) /\ <<Read, LogOn(logs)>> # << >>
    BY <1>2, Tuples
  <2>2. Times(<<Read, LogOn(logs)>>, call.logs) \in Seq(Plain)
    BY <1>1, <2>1, TimesFacts
  <2>3. QED
    BY <1>6, <2>2 DEF Body
<1>8. ActionGroup(here) \in Seq(Plain)
  BY <1>1, <1>2, <1>3, ActionGroupLeads
<1>9. Times(PointGroup(here, Test(e)), call.parents) \in Seq(Plain)
  <2>1. PointGroup(here, Test(e)) \in Seq(Plain)
    BY <1>4, <1>5, <1>6
  <2>2. PointGroup(here, Test(e)) # << >>
    BY DEF PointGroup, Test
  <2>3. QED
    BY <1>1, <2>1, <2>2, TimesFacts
<1>10. PointGroup(here, Test(Body(call, r)) \o Test(e)) \in Seq(Plain)
  <2>1. Test(Body(call, r)) \in Seq(Plain) /\ Test(e) \in Seq(Plain)
    BY <1>4, <1>6, <1>7
  <2>2. Test(Body(call, r)) \o Test(e) \in Seq(Plain)
    BY ONLY <2>1, ConcatProperties
  <2>3. QED
    BY <1>5, <2>2
<1> DEFINE w == <<Read>>
           x == ActionGroup(here)
           y == PointGroup(here, Test(Body(call, r)) \o Test(e))
           z == Times(PointGroup(here, Test(e)), call.parents)
<1>11. /\ Operations(call, r) = ((w \o x) \o y) \o z
       /\ w \in Seq(Plain) /\ x \in Seq(Plain) /\ y \in Seq(Plain) /\ z \in Seq(Plain)
  BY <1>2, <1>8, <1>9, <1>10, Tuples DEF Operations
<1> HIDE DEF w, x, y, z
<1>12. ((w \o x) \o y) \o z \in Seq(Plain)
  BY ONLY <1>11, ConcatProperties
<1>13. Operations(call, r) # << >> /\ Operations(call, r)[1] = Read
  <2>1. here \subseteq Ranks /\ r \in Ranks
    BY <1>1, CommFacts
  <2>2. QED
    BY <2>1, OperationsType
<1>14. QED
  BY <1>11, <1>12, <1>13

\* An operation of a rank: who writes a message next has named it.
LEMMA StepLoggers ==
  ASSUME Typed, Loggers, NEW r \in Ranks, Step(r)
  PROVE  /\ Loggers'
         /\ todo'[r] # << >> /\ todo'[r][1] = Write("log") => DoName(r)
<1> DEFINE h == Head1(r)
           t == Tail(todo[r])
<1>1. /\ todo[r] # << >> /\ h \in SomeOp /\ t \in Seq(SomeOp) /\ todo[r] = <<h>> \o t /\ todo[r][1] = h
      /\ \A s \in Ranks \ {r} : todo'[s] = todo[s]
  BY StepTodo DEF Head1
<1>2. UNCHANGED <<calls, taken>> /\ todo \in [Ranks -> Seq(AnyOp)]
  BY StepKeeps DEF Typed
<1>3. todo[r] \in Seq(SomeOp)
  BY <1>1, ConsFacts
<1>4. Named(t) /\ (t # << >> /\ t[1] = Write("log") => h = NameLog)
  BY <1>1, <1>3, NamedTail DEF Loggers
<1>5. ASSUME NEW p \in Seq(SomeOp), Named(p), p # << >> => p[1] # Write("log"), h # NameLog,
             Instead(r, p)
      PROVE  Named(todo'[r]) /\ (todo'[r] # << >> => todo'[r][1] # Write("log"))
  <2>1. todo'[r] = p \o t
    BY <1>2, <1>5 DEF Instead
  <2> HIDE DEF t, h
  <2>2. t # << >> => t[1] # Write("log")
    BY <1>4, <1>5
  <2>3. Named(p \o t)
    BY <1>1, <1>4, <1>5, <2>2, NamedConcat DEF t
  <2>4. t \in Seq(SomeOp)
    BY <1>1 DEF t
  <2>5. CASE p = << >>
    <3>1. p \o t = t
      BY <2>4, <2>5, ConcatEmptySeq
    <3>2. QED
      BY <2>1, <2>2, <2>3, <3>1
  <2>6. CASE p # << >>
    <3>1. (p \o t)[1] = p[1]
      BY <1>5, <2>4, <2>6, HeadKept
    <3>2. QED
      BY <1>5, <2>1, <2>3, <2>6, <3>1
  <2>7. QED
    BY <2>5, <2>6
<1> DEFINE After1 == Named(todo'[r]) /\ (todo'[r] # << >> /\ todo'[r][1] = Write("log") => DoName(r))
<1>6. \A p \in Seq(Plain) : Instead(r, p) /\ h # NameLog => After1
  <2>1. SUFFICES ASSUME NEW p \in Seq(Plain), Instead(r, p), h # NameLog
                 PROVE  After1
    OBVIOUS
  <2>2. p \in Seq(SomeOp)
    BY SeqMonotonic DEF Plain
  <2>3. Named(p) /\ (p # << >> => p[1] # Write("log"))
    BY NamedPlain
  <2> HIDE DEF h
  <2>4. QED
    BY <1>5, <2>1, <2>2, <2>3 DEF h
<1>7. << >> \in Seq(Plain)
  BY EmptySeq
<1>8. Gather \in Plain /\ Sync \in Plain /\ SetComm({r}, FALSE) \in Plain /\ Write("stdout") \in Plain
  <2>1. {r} \in AllComms /\ "stdout" \in Nodes
    BY CommFacts DEF Own, Nodes
  <2>2. QED
    BY <2>1, SetFacts, EdgesPlain
<1>9. ASSUME DoSetComm(r)
      PROVE  After1
  <2> DEFINE p == (IF Announces(r, h.comm) THEN <<Gather>> ELSE << >>) \o (IF h.sync THEN <<Sync>> ELSE << >>)
  <2>1. Instead(r, p) /\ h.op = "setComm"
    BY <1>9 DEF DoSetComm, Doing, Head1
  <2>2. p \in Seq(Plain)
    <3>1. <<Gather>> \in Seq(Plain) /\ <<Sync>> \in Seq(Plain)
      BY <1>8, Tuples
    <3>2. QED
      BY <1>7, <3>1, ConcatProperties
  <2>3. h # NameLog
    BY <2>1, OpNames
  <2> HIDE DEF p
  <2>4. QED
    BY <1>6, <2>1, <2>2, <2>3
<1>10. ASSUME DoWrite(r) \/ DoPrint(r)
       PROVE  After1
  <2>1. Instead(r, << >>) /\ h.op \in {"write", "print"}
    BY <1>10 DEF DoWrite, DoPrint, Doing, Head1
  <2>2. h # NameLog
    BY <2>1, OpNames
  <2>3. QED
    BY <1>6, <1>7, <2>1, <2>2
<1>11. ASSUME DoRead(r)
       PROVE  After1
  <2> DEFINE p == IF output[r] THEN <<SetComm({r}, FALSE), Write("stdout")>> ELSE << >>
  <2>1. Instead(r, p) /\ h.op = "read"
    BY <1>11 DEF DoRead, Doing, Head1
  <2>2. p \in Seq(Plain)
    BY <1>7, <1>8, Tuples
  <2>3. h # NameLog
    BY <2>1, OpNames
  <2> HIDE DEF p
  <2>4. QED
    BY <1>6, <2>1, <2>2, <2>3
<1>12. ASSUME DoName(r)
       PROVE  After1
  <2>1. Instead(r, << >>)
    BY <1>12 DEF DoName
  <2>2. todo'[r] = << >> \o t
    BY <1>2, <2>1 DEF Instead
  <2> HIDE DEF t
  <2>3. todo'[r] = t
    BY <1>1, <2>2, ConcatEmptySeq DEF t
  <2>4. QED
    BY <1>4, <1>12, <2>3
<1>13. ASSUME DoLog(r)
       PROVE  After1
  <2>1. /\ Instead(r, LogOperations(r, h.comm)) /\ h.op = "log"
        /\ Doing(r, "log")
    BY <1>13 DEF DoLog, Doing, Head1
  <2>2. h.comm \in AllComms /\ comm[r] \in AllComms
    BY <2>1, DoingFacts, OpsCases DEF Own
  <2> DEFINE a == SetComm(h.comm, TRUE)
             w == Write("log")
             b == SetComm(comm[r], FALSE)
             p == <<a, NameLog, w, b, Printed>>
  <2>3. p = LogOperations(r, h.comm)
    BY DEF LogOperations
  <2>4. a \in SomeOp /\ NameLog \in SomeOp /\ w \in SomeOp /\ b \in SomeOp /\ Printed \in SomeOp
    BY <2>2, SomeOpFacts DEF Nodes
  <2>5. a # w /\ b # w /\ NameLog # w /\ Printed # w
    <3>1. a.op = "setComm" /\ b.op = "setComm" /\ NameLog.op = "name" /\ Printed.op = "print" /\ w.op = "write"
      BY OpNames
    <3> HIDE DEF a, b, w
    <3>2. QED
      BY <3>1
  <2>6. h # NameLog
    BY <2>1, OpNames
  <2>7. Instead(r, p)
    BY <2>1, <2>3
  <2> DEFINE W == w
  <2> HIDE DEF a, b, w, h
  <2>8. p \in Seq(SomeOp) /\ Len(p) = 5 /\ p # << >> /\ p[1] # w
    BY <2>4, <2>5
  <2>9. Named(p)
    <3>1. \A i \in 1 .. 4 : p[i + 1] = w => p[i] = NameLog
      BY <2>5
    <3>2. Len(p) - 1 = 4
      BY <2>8
    <3> HIDE DEF p
    <3>3. QED
      BY <3>1, <3>2 DEF Named, w
  <2> HIDE DEF p
  <2>10. QED
    BY <1>5, <2>6, <2>7, <2>8, <2>9 DEF h, w
<1>14. After1
  BY <1>9, <1>10, <1>11, <1>12, <1>13 DEF Step
<1>15. Calm(r)'
  <2>1. Loop(r)' <=> Loop(r)
    BY <1>2 DEF Loop
  <2>2. todo[r] \in Seq(Unlogged) => todo'[r] \in Seq(Unlogged)
    BY SetsClosed, ClosedKept
  <2>3. QED
    BY <2>1, <2>2 DEF Loggers, Calm
<1>16. \A s \in Ranks \ {r} : Named(todo'[s]) /\ Calm(s)'
  BY <1>1, <1>2 DEF Loggers, Calm, Loop
<1>17. QED
  BY <1>14, <1>15, <1>16 DEF Loggers

\* Who meets others does not write a message next.
LEMMA CollectiveLoggers ==
  ASSUME Typed, Loggers, NEW c \in AllComms, NEW op \in {"gather", "sync"}, Together(c, op), GoOn(c),
         UNCHANGED <<calls, taken>>
  PROVE  /\ Loggers'
         /\ \A r \in c : todo'[r] # << >> => todo'[r][1] # Write("log")
<1>1. \A r \in c : r \in Ranks /\ Doing(r, op)
  BY TogetherFacts
<1>2. /\ \A r \in c : todo'[r] = Tail(todo[r])
      /\ \A r \in Ranks \ c : todo'[r] = todo[r]
  BY <1>1, GoOnTyped DEF Doing
<1>3. ASSUME NEW r \in c
      PROVE  Named(todo'[r]) /\ Calm(r)' /\ (todo'[r] # << >> => todo'[r][1] # Write("log"))
  <2>1. r \in Ranks /\ todo'[r] = Tail(todo[r]) /\ todo[r] # << >>
    BY <1>1, <1>2, CollectiveTodo
  <2>2. todo[r][1] \in {Sync, Gather} /\ todo[r] \in Seq(SomeOp)
    <3>1. todo[r][1] \in {Sync, Gather} /\ Tail(todo[r]) \in Seq(SomeOp) /\ todo[r] = <<todo[r][1]>> \o Tail(todo[r])
      BY <1>1, CollectiveTodo
    <3>2. todo[r][1] \in SomeOp
      BY <3>1, SomeOpFacts
    <3>3. QED
      BY <3>1, <3>2, ConsFacts
  <2>3. todo[r][1] # NameLog
    BY <2>2, OpNames
  <2>4. Named(todo[r])
    BY <2>1 DEF Loggers
  <2>5. Named(Tail(todo[r])) /\ (Tail(todo[r]) # << >> => Tail(todo[r])[1] # Write("log"))
    BY <2>1, <2>2, <2>3, <2>4, NamedTail
  <2>6. todo[r] \in Seq(Unlogged) => Tail(todo[r]) \in Seq(Unlogged)
    BY <2>1, SetsClosed, ClosedKept
  <2>7. QED
    BY <2>1, <2>5, <2>6 DEF Loggers, Calm, Loop
<1>4. \A r \in Ranks \ c : Named(todo'[r]) /\ Calm(r)'
  BY <1>2 DEF Loggers, Calm, Loop
<1>5. QED
  BY <1>3, <1>4 DEF Loggers

\* A rank that enters a call reads first.
LEMMA EnterLoggers ==
  ASSUME Typed, Loggers, NEW r \in Ranks, Enter(r)
  PROVE  Loggers' /\ todo[r] = << >> /\ todo'[r] # << >> /\ todo'[r][1] = Read
                  /\ \A s \in Ranks \ {r} : todo'[s] = todo[s] /\ taken'[s] = taken[s]
<1>1. PICK n \in (taken[r] + 1) .. Len(calls) :
        /\ r \in calls[n].comm
        /\ taken' = [taken EXCEPT ![r] = n]
        /\ todo' = [todo EXCEPT ![r] = IF calls[n].kind = "finalize" THEN Shutdown
                                       ELSE Operations(calls[n], r)]
  BY DEF Enter
<1>2. UNCHANGED calls /\ todo[r] = << >>
  BY DEF Enter, app
<1>3. calls \in Seq(ACall) /\ taken \in [Ranks -> 0 .. Len(calls)] /\ todo \in [Ranks -> Seq(AnyOp)]
  BY DEF Typed, TypeOK
<1>4. n \in 1 .. Len(calls)
  <2>1. taken[r] \in 0 .. Len(calls) /\ Len(calls) \in Nat
    BY <1>3, LenProperties
  <2>2. QED
    BY <2>1
<1>5. calls[n] \in ACall
  BY <1>3, <1>4, ElementOfSeq
<1>6. \A s \in Ranks \ {r} : taken'[s] = taken[s] /\ todo'[s] = todo[s]
  BY <1>1, <1>3
<1>7. /\ taken'[r] = n
      /\ todo'[r] = IF calls[n].kind = "finalize" THEN Shutdown ELSE Operations(calls[n], r)
  BY <1>1, <1>3
<1>8. CASE calls[n].kind = "finalize"
  <2>1. todo'[r] = Shutdown /\ ~Loop(r)'
    BY <1>2, <1>7, <1>8 DEF Loop
  <2>2. Shutdown \in Seq(Unlogged) /\ Shutdown \in Seq(Plain)
    BY EdgesPlain, SeqMonotonic
  <2>3. World \in known[r]
    BY DEF Typed
  <2>4. Shutdown # << >> /\ Shutdown[1] = Read
    BY <2>3, EdgesType
  <2>5. Named(todo'[r]) /\ Calm(r)'
    BY <2>1, <2>2, NamedPlain DEF Calm
  <2>6. \A s \in Ranks \ {r} : Named(todo'[s]) /\ Calm(s)'
    BY <1>2, <1>6 DEF Loggers, Calm, Loop
  <2>7. QED
    BY <1>2, <1>6, <2>1, <2>4, <2>5, <2>6 DEF Loggers
<1>9. CASE calls[n].kind # "finalize"
  <2>1. todo'[r] = Operations(calls[n], r) /\ Loop(r)'
    BY <1>2, <1>4, <1>7, <1>9 DEF Loop
  <2>2. calls[n] \in LoopCall /\ r \in calls[n].comm
    BY <1>1, <1>5, <1>9, CallFacts
  <2>3. todo'[r] \in Seq(Plain) /\ todo'[r] # << >> /\ todo'[r][1] = Read
    BY <2>1, <2>2, OperationsPlain
  <2>4. Named(todo'[r]) /\ Calm(r)'
    BY <2>1, <2>3, NamedPlain DEF Calm
  <2>5. \A s \in Ranks \ {r} : Named(todo'[s]) /\ Calm(s)'
    BY <1>2, <1>6 DEF Loggers, Calm, Loop
  <2>6. QED
    BY <1>2, <1>6, <2>3, <2>4, <2>5 DEF Loggers
<1>10. QED
  BY <1>8, <1>9

-----------------------------------------------------------------------------
(* The window.                                                             *)

\* Rank r has at most k syncs of the n-th call to come.
Reached(left, r, n, k) == taken[r] > n \/ (taken[r] = n /\ left[r][calls[n].comm] <= k)

\* It has passed the sync that begins the point of the n-th call; the one that ends it.
Started(left, r, n) == Reached(left, r, n, Inner(calls[n]))
Shut(left, r, n) == Reached(left, r, n, Outer(calls[n]))

\* The nodes of a kind that the n-th call has in stream d.
Written(d, n, node) == {i \in Numbered(d) : stream[d][i].call = n /\ stream[d][i].node = node}

\* Rank r is about to write a message of the n-th call; the started node of its point.
Logging(r, n) == taken[r] = n /\ r = Root(comm[r]) /\ todo[r] # << >> /\ todo[r][1] = Write("log")
Beginning(r, n) ==
  /\ taken[r] = n /\ comm[r] = calls[n].comm /\ todo[r] # << >> /\ todo[r][1] = Write("started")

\* Since its point has begun with the number base, nobody in a call has a smaller one,
\* who is about to write a message has a greater one, and the root writes the started
\* node with it.
Opens(left, base, n) ==
  /\ \A s \in calls[n].comm : Started(left, s, n) =>
       base[n] <= id[s] /\ (Logging(s, n) => base[n] < id[s])
  /\ LET root == Root(calls[n].comm)
     IN  Started(left, root, n) /\ Written(calls[n].comm, n, "started") = {} =>
           Beginning(root, n) /\ id[root] = base[n]

\* What is written has its place between these numbers.
LogIn(left, base, d, x) ==
  x.node = "log" =>
    /\ Looping(x.call) /\ Started(left, Root(d), x.call) /\ base[x.call] < x.jid
    /\ \A s \in calls[x.call].comm : Shut(left, s, x.call) => x.jid < id[s]
StartedIn(left, base, d, i) ==
  LET x == stream[d][i]
  IN  x.node = "started" /\ Looping(x.call) =>
        /\ Started(left, Root(d), x.call)
        /\ (\A h \in Written(d, x.call, "started") : i <= h) => x.jid = base[x.call]
EndedIn(left, d, x) ==
  x.node = "ended" /\ Looping(x.call) =>
    /\ Shut(left, Root(d), x.call)
    /\ \A e \in AllComms : \A h \in Written(e, x.call, "log") : stream[e][h].jid < x.jid

Window(left, base) ==
  /\ \A n : Looping(n) => Opens(left, base, n)
  /\ \A d \in AllComms : \A i \in Numbered(d) :
       LogIn(left, base, d, stream[d][i]) /\ StartedIn(left, base, d, i) /\ EndedIn(left, d, stream[d][i])

\* The syncs of a point are neither the first nor outside of its call.
LEMMA Bounds ==
  ASSUME Typed, NEW n, Looping(n)
  PROVE  LET total == Total(calls[n], calls[n].comm)
         IN  /\ Inner(calls[n]) \in Nat /\ Inner(calls[n]) < total
             /\ Outer(calls[n]) \in Nat /\ Outer(calls[n]) < total
<1> DEFINE call == calls[n]
           here == call.comm
<1>1. call \in LoopCall /\ here \in AllComms
  BY LoopingFacts
<1>2. Root(here) \in here
  BY <1>1, RootFacts
<1>3. Inner(call) \in Nat /\ Outer(call) \in Nat
  BY <1>1, <1>2, StartMilestone, EndMilestone
<1>4. call.parents \in Nat /\ call.logs \in Nat /\ call.kind # "finalize"
  BY <1>1 DEF LoopCall
<1>5. Total(call, here) = (Hooked + 2 + (call.parents * 2)) + (IF here = call.logComm THEN call.logs ELSE 0)
  BY <1>4 DEF Total
<1> HIDE DEF call, here
<1>6. Inner(call) < Total(call, here) /\ Outer(call) < Total(call, here)
  BY <1>3, <1>4, <1>5 DEF Inner, Outer, Hooked, here
<1>7. QED
  BY <1>3, <1>6 DEF call, here

\* When one of the ranks of a call has come so far, all of them have.
LEMMA TogetherReached ==
  ASSUME Typed, NEW left \in Lefts, Steady(left), NEW n, Looping(n), NEW k \in Nat,
         k < Total(calls[n], calls[n].comm),
         NEW q \in calls[n].comm, NEW p \in calls[n].comm, Reached(left, q, n, k)
  PROVE  Reached(left, p, n, k)
<1> DEFINE c == calls[n].comm
           total == Total(calls[n], c)
<1>1. c \in AllComms /\ p \in Ranks /\ q \in Ranks /\ n \in Nat /\ total \in Nat /\ total >= 2
  BY LoopingFacts
<1>2. taken[p] \in Nat /\ taken[q] \in Nat /\ left[p][c] \in Nat /\ left[q][c] \in Nat
  <2>1. \A s \in Ranks : taken[s] \in Nat
    BY LenProperties DEF Typed, TypeOK
  <2>2. \A s \in Ranks : left[s][c] \in Nat
    BY <1>1 DEF Lefts
  <2>3. QED
    BY <1>1, <2>1, <2>2
<1>3. Pace(left, p, q, c) /\ Pace(left, q, p, c)
  BY <1>1 DEF Steady
<1>4. taken[q] > n \/ (taken[q] = n /\ left[q][c] <= k)
  BY DEF Reached
<1>5. CASE taken[p] < taken[q]
  <2>1. /\ left[p][c] = 0 /\ left[q][c] = Total(calls[taken[q]], c)
        /\ \A j \in (taken[p] + 1) .. (taken[q] - 1) : Total(calls[j], c) = 0
    BY <1>3, <1>5 DEF Pace
  <2>2. taken[q] = n => left[q][c] = total
    BY <2>1
  <2>3. total \in Nat /\ k < total
    BY <1>1
  <2>4. taken[q] > n
    <3> HIDE DEF c, total
    <3>1. QED
      BY <1>2, <1>4, <2>2, <2>3
  <2>5. ~(taken[p] < n)
    <3>1. SUFFICES ASSUME taken[p] < n
                   PROVE  FALSE
      OBVIOUS
    <3>2. n \in (taken[p] + 1) .. (taken[q] - 1)
      BY <1>1, <1>2, <2>4, <3>1
    <3>3. total = 0
      BY <2>1, <3>2
    <3>4. QED
      BY <1>1, <3>3
  <2>6. 0 <= k
    OBVIOUS
  <2>7. taken[p] > n \/ taken[p] = n
    BY <1>1, <1>2, <2>5
  <2>8. QED
    BY <2>1, <2>6, <2>7 DEF Reached
<1>6. CASE taken[p] = taken[q]
  <2>1. left[p][c] = left[q][c]
    BY <1>3, <1>6 DEF Pace
  <2>2. QED
    BY <1>4, <1>6, <2>1 DEF Reached
<1>7. CASE taken[q] < taken[p]
  <2>1. taken[p] > n
    BY <1>1, <1>2, <1>4, <1>7
  <2>2. QED
    BY <2>1 DEF Reached
<1>8. QED
  BY <1>2, <1>5, <1>6, <1>7

\* What a call has written it keeps.
LEMMA WrittenKept ==
  ASSUME \A d \in AllComms : \A i \in Numbered(d) : i \in Numbered(d)' /\ stream'[d][i] = stream[d][i],
         NEW d \in AllComms, NEW n, NEW node
  PROVE  /\ Written(d, n, node) \subseteq Written(d, n, node)'
         /\ \A i \in Written(d, n, node)' : i \in Numbered(d) => i \in Written(d, n, node)
BY DEF Written

\* A call of a loop is one of those made.
LEMMA InTheCalls ==
  ASSUME Typed, NEW n, Looping(n)
  PROVE  n \in Nat /\ n <= Len(calls)
<1>1. Len(calls) \in Nat
  BY LenProperties DEF Typed
<1>2. n \in 1 .. Len(calls)
  BY DEF Looping
<1>3. QED
  BY <1>1, <1>2

\* Calls that have been made now have a root.
LEMMA NewRoot ==
  ASSUME Typed', NEW n, Looping(n)'
  PROVE  Root(calls'[n].comm) \in calls'[n].comm /\ calls'[n].comm \subseteq Ranks /\ calls'[n].comm \in AllComms
<1>1. calls' \in Seq(ACall) /\ n \in 1 .. Len(calls') /\ calls'[n].kind # "finalize"
  BY DEF Typed, Looping
<1>2. calls'[n] \in ACall
  BY <1>1, ElementOfSeq
<1>3. calls'[n].comm \in AllComms
  BY <1>1, <1>2, CallFacts
<1>4. QED
  BY <1>3, RootFacts, CommFacts

\* The window stays when no rank passes the syncs of a point, who is about to write a
\* message takes a number, and who is about to write the first started node goes on to
\* do so.
LEMMA WindowKept ==
  ASSUME Typed, Typed', OfCalls, InOwnStream, CallsKept, NEW left, NEW less,
         NEW base \in [Nat -> Nat], Window(left, base),
         \A r \in Ranks : id[r] <= id'[r],
         \A n : Looping(n)' => \A q \in calls'[n].comm : Started(less, q, n)' => n <= Len(calls),
         \A n : Looping(n) => \A q \in calls[n].comm : /\ Started(less, q, n)' <=> Started(left, q, n)
                                                       /\ Shut(less, q, n)' <=> Shut(left, q, n),
         \A n : \A r \in Ranks : Logging(r, n)' => Logging(r, n) \/ id[r] < id'[r],
         \A n, c : Looping(n) /\ c = calls[n].comm /\ Beginning(Root(c), n) /\ Written(c, n, "started")' = {}
           => Beginning(Root(c), n)' /\ id'[Root(c)] = id[Root(c)],
         \A d \in AllComms : \A i \in Numbered(d) : i \in Numbered(d)' /\ stream'[d][i] = stream[d][i],
         \A d \in AllComms : \A i \in Numbered(d)' : \A x : x = stream'[d][i] /\ i \notin Numbered(d) =>
           /\ LogIn(less, base, d, x)' /\ StartedIn(less, base, d, i)' /\ EndedIn(less, d, x)'
           /\ x.node = "log" => \A s \in calls[x.call].comm : ~Shut(left, s, x.call)
  PROVE  Window(less, base)'
<1>1. id \in [Ranks -> Nat] /\ id' \in [Ranks -> Nat]
  BY DEF Typed, TypeOK
<1>2. ASSUME NEW n, Looping(n)
      PROVE  /\ calls'[n] = calls[n] /\ calls[n].comm \subseteq Ranks /\ calls[n].comm \in AllComms
             /\ Root(calls[n].comm) \in calls[n].comm /\ base[n] \in Nat
  BY <1>2, LoopingKept, LoopingFacts, RootFacts
<1>3. ASSUME NEW n, Looping(n)'
      PROVE  Opens(less, base, n)'
  <2>1. CASE ~(n <= Len(calls))
    <3>1. \A q \in calls'[n].comm : ~Started(less, q, n)'
      BY <1>3, <2>1
    <3>2. Root(calls'[n].comm) \in calls'[n].comm
      BY <1>3, NewRoot
    <3>3. QED
      BY <3>1, <3>2 DEF Opens
  <2>2. CASE n <= Len(calls)
    <3>1. Looping(n)
      BY <1>3, <2>2, LoopingKept
    <3>2. PICK c : c = calls[n].comm
      OBVIOUS
    <3>3. c = calls'[n].comm /\ c \subseteq Ranks /\ c \in AllComms /\ Root(c) \in c /\ base[n] \in Nat
      BY <1>2, <3>1, <3>2
    <3>4. Opens(left, base, n)
      BY <3>1 DEF Window
    <3>5. ASSUME NEW s \in c, Started(less, s, n)'
          PROVE  base[n] <= id'[s] /\ (Logging(s, n)' => base[n] < id'[s])
      <4>1. Started(left, s, n) /\ s \in Ranks
        BY <3>1, <3>2, <3>3, <3>5
      <4>2. /\ base[n] <= id[s]
            /\ Logging(s, n) => base[n] < id[s]
        BY <3>2, <3>4, <4>1 DEF Opens
      <4>3. id[s] \in Nat /\ id'[s] \in Nat /\ base[n] \in Nat /\ id[s] <= id'[s]
        BY <1>1, <3>3, <4>1
      <4>4. base[n] <= id'[s]
        <5>1. base[n] <= id[s]
          BY <4>2
        <5>2. QED
          BY ONLY <4>3, <5>1
      <4>5. ASSUME Logging(s, n)'
            PROVE  base[n] < id'[s]
        <5>1. Logging(s, n) \/ id[s] < id'[s]
          BY <4>1, <4>5
        <5>2. base[n] < id[s] \/ id[s] < id'[s]
          BY <4>2, <5>1
        <5>3. base[n] <= id[s]
          BY <4>2
        <5>4. CASE base[n] < id[s]
          BY ONLY <4>3, <5>4
        <5>5. CASE id[s] < id'[s]
          BY ONLY <4>3, <5>3, <5>5
        <5>6. QED
          BY <5>2, <5>4, <5>5
      <4>6. QED
        BY <4>4, <4>5
    <3>6. ASSUME Started(less, Root(c), n)', Written(c, n, "started")' = {}
          PROVE  Beginning(Root(c), n)' /\ id'[Root(c)] = base[n]
      <4>1. Started(left, Root(c), n)
        BY <3>1, <3>2, <3>3, <3>6
      <4>2. Written(c, n, "started") = {}
        BY <3>3, <3>6, WrittenKept
      <4>3. Beginning(Root(c), n) /\ id[Root(c)] = base[n]
        BY <3>2, <3>4, <4>1, <4>2 DEF Opens
      <4>4. Beginning(Root(c), n)' /\ id'[Root(c)] = id[Root(c)]
        BY <3>1, <3>2, <3>6, <4>3
      <4>5. QED
        BY <4>3, <4>4
    <3>7. QED
      BY <3>3, <3>5, <3>6 DEF Opens
  <2>3. QED
    BY <2>1, <2>2
<1>4. ASSUME NEW d \in AllComms, NEW i \in Numbered(d), NEW x, x = stream[d][i]
      PROVE  LogIn(less, base, d, x)' /\ StartedIn(less, base, d, i)' /\ EndedIn(less, d, x)'
  <2>1. i \in Numbered(d)' /\ x = stream'[d][i]
    BY <1>4
  <2>2. LogIn(left, base, d, x) /\ StartedIn(left, base, d, i) /\ EndedIn(left, d, x)
    BY <1>4 DEF Window
  <2>3. Looping(x.call)' => Looping(x.call)
    <3>1. i \in 1 .. Len(stream[d])
      BY DEF Numbered
    <3>2. x.call \in 0 .. Len(calls)
      BY <1>4, <3>1 DEF OfCalls
    <3>3. x.call <= Len(calls)
      BY <3>2
    <3>4. QED
      BY <3>3, LoopingKept
  <2>4. SUFFICES ASSUME Looping(x.call)
                 PROVE  LogIn(less, base, d, x)' /\ StartedIn(less, base, d, i)' /\ EndedIn(less, d, x)'
    BY <2>1, <2>2, <2>3 DEF LogIn, StartedIn, EndedIn
  <2>5. PICK n : n = x.call
    OBVIOUS
  <2>6. /\ Looping(n) /\ Looping(n)' /\ calls'[n] = calls[n] /\ calls[n].comm \subseteq Ranks
        /\ Root(d) \in calls[n].comm /\ x.jid \in Int
    BY <1>2, <1>4, <2>4, <2>5, LoopingKept, NodeRoot, NumberedTypes
  <2>7. /\ Started(left, Root(d), n) => Started(less, Root(d), n)'
        /\ Shut(left, Root(d), n) => Shut(less, Root(d), n)'
    BY <2>6
  <2>8. LogIn(less, base, d, x)'
    <3>1. SUFFICES ASSUME x.node = "log"
                   PROVE  /\ Looping(n)' /\ Started(less, Root(d), n)' /\ base[n] < x.jid
                          /\ \A s \in calls'[n].comm : Shut(less, s, n)' => x.jid < id'[s]
      BY <2>5 DEF LogIn
    <3>2. /\ Started(left, Root(d), n) /\ base[n] < x.jid
          /\ \A s \in calls[n].comm : Shut(left, s, n) => x.jid < id[s]
      BY <2>2, <2>5, <3>1 DEF LogIn
    <3>3. ASSUME NEW s \in calls[n].comm, Shut(less, s, n)'
          PROVE  x.jid < id'[s]
      <4>1. Shut(left, s, n) /\ s \in Ranks
        BY <2>6, <3>3
      <4>2. id[s] \in Int /\ id'[s] \in Int /\ id[s] <= id'[s] /\ x.jid < id[s]
        BY <1>1, <3>2, <4>1
      <4>3. QED
        BY <2>6, <4>2
    <3>4. QED
      BY <2>6, <2>7, <3>2, <3>3
  <2>9. StartedIn(less, base, d, i)'
    <3>1. SUFFICES ASSUME x.node = "started"
                   PROVE  /\ Started(less, Root(d), n)'
                          /\ (\A h \in Written(d, n, "started")' : i <= h) => x.jid = base[n]
      BY <2>1, <2>5 DEF StartedIn
    <3>2. Started(left, Root(d), n) /\ ((\A h \in Written(d, n, "started") : i <= h) => x.jid = base[n])
      BY <1>4, <2>2, <2>5, <2>6, <3>1 DEF StartedIn
    <3>3. Written(d, n, "started") \subseteq Written(d, n, "started")'
      BY WrittenKept
    <3>4. QED
      BY <2>7, <3>2, <3>3
  <2>10. EndedIn(less, d, x)'
    <3>1. SUFFICES ASSUME x.node = "ended"
                   PROVE  /\ Shut(less, Root(d), n)'
                          /\ \A e \in AllComms : \A h \in Written(e, n, "log")' : stream'[e][h].jid < x.jid
      BY <2>5 DEF EndedIn
    <3>2. Shut(left, Root(d), n) /\ \A e \in AllComms : \A h \in Written(e, n, "log") : stream[e][h].jid < x.jid
      BY <2>2, <2>5, <2>6, <3>1 DEF EndedIn
    <3>3. ASSUME NEW e \in AllComms, NEW h \in Written(e, n, "log")'
          PROVE  stream'[e][h].jid < x.jid
      <4>1. h \in Numbered(e)' /\ stream'[e][h].call = n /\ stream'[e][h].node = "log"
        BY <3>3 DEF Written
      <4>2. h \in Numbered(e)
        BY <2>6, <3>2, <4>1
      <4>3. h \in Written(e, n, "log") /\ stream'[e][h] = stream[e][h]
        BY <4>2, WrittenKept
      <4>4. QED
        BY <3>2, <4>3
    <3>4. QED
      BY <2>7, <3>2, <3>3
  <2>11. QED
    BY <2>8, <2>9, <2>10
<1>5. ASSUME NEW d \in AllComms, NEW i \in Numbered(d)', NEW x, x = stream'[d][i]
      PROVE  LogIn(less, base, d, x)' /\ StartedIn(less, base, d, i)' /\ EndedIn(less, d, x)'
  <2>1. CASE i \in Numbered(d)
    <3>1. x = stream[d][i]
      BY <1>5, <2>1
    <3>2. QED
      BY <1>4, <2>1, <3>1
  <2>2. CASE i \notin Numbered(d)
    BY <1>5, <2>2
  <2>3. QED
    BY <2>1, <2>2
<1>6. QED
  BY <1>3, <1>5 DEF Window

\* What the operation of a rank writes: a node of its call in the stream of the
\* communicator it is on, behind all others.
LEMMA StepNew ==
  ASSUME Typed, NEW r \in Ranks, Step(r),
         NEW c \in AllComms, c = comm[r],
         NEW x, x = [jid |-> id[r], node |-> Head1(r).node, call |-> taken[r]]
  PROVE  /\ \A d \in AllComms : \A i \in Numbered(d) : i \in Numbered(d)' /\ stream'[d][i] = stream[d][i]
         /\ \A d \in AllComms : \A i \in Numbered(d)' : i \notin Numbered(d) =>
              /\ d = c /\ r = Root(c) /\ DoWrite(r) /\ stream'[d][i] = x
              /\ \A h \in Numbered(d) : h < i
         /\ DoWrite(r) /\ r = Root(c) /\ x.node \notin {"comminfo", "info", "stdout"} =>
              \E i \in Numbered(c)' : stream'[c][i] = x
<1> DEFINE unnumbered == {"comminfo", "info", "stdout"}
<1>1. stream' = stream \/ (DoWrite(r) /\ r = Root(c))
  BY StepNumbers
<1>2. \A d \in AllComms : Len(stream[d]) \in Nat
  BY LenProperties DEF Typed, TypeOK
<1>3. ASSUME DoWrite(r), r = Root(c)
      PROVE  /\ Len(stream'[c]) = Len(stream[c]) + 1 /\ stream'[c][Len(stream[c]) + 1] = x
             /\ \A d \in AllComms : \A i \in 1 .. Len(stream[d]) :
                  i \in 1 .. Len(stream'[d]) /\ stream'[d][i] = stream[d][i]
             /\ \A d \in AllComms : \A i \in 1 .. Len(stream'[d]) :
                  \/ i \in 1 .. Len(stream[d]) /\ stream'[d][i] = stream[d][i]
                  \/ d = c /\ i = Len(stream[c]) + 1 /\ stream'[d][i] = x
  <2>1. /\ stream \in [AllComms -> Seq(Node)] /\ x \in Node
        /\ stream' = [stream EXCEPT ![c] = Append(@, x)]
    BY <1>3, WriteFacts
  <2>2. QED
    BY <2>1, Appended
<1>4. ASSUME NEW d \in AllComms, NEW i \in Numbered(d)
      PROVE  i \in Numbered(d)' /\ stream'[d][i] = stream[d][i]
  <2>1. i \in 1 .. Len(stream[d])
    BY DEF Numbered
  <2>2. i \in 1 .. Len(stream'[d]) /\ stream'[d][i] = stream[d][i]
    BY <1>1, <1>3, <2>1
  <2>3. QED
    BY <2>2 DEF Numbered
<1>5. ASSUME NEW d \in AllComms, NEW i \in Numbered(d)', i \notin Numbered(d)
      PROVE  /\ d = c /\ r = Root(c) /\ DoWrite(r) /\ stream'[d][i] = x
             /\ \A h \in Numbered(d) : h < i
  <2>1. i \in 1 .. Len(stream'[d]) /\ stream'[d][i].node \notin unnumbered
    BY <1>5 DEF Numbered
  <2>2. ~(i \in 1 .. Len(stream[d]) /\ stream'[d][i] = stream[d][i])
    BY <1>5, <2>1 DEF Numbered
  <2>3. DoWrite(r) /\ r = Root(c)
    BY <1>1, <2>1, <2>2
  <2>4. d = c /\ i = Len(stream[c]) + 1 /\ stream'[d][i] = x
    BY <1>3, <2>1, <2>2, <2>3
  <2>5. \A h \in Numbered(d) : h < i
    BY <1>2, <2>4 DEF Numbered
  <2>6. QED
    BY <2>3, <2>4, <2>5
<1>6. ASSUME DoWrite(r), r = Root(c), x.node \notin unnumbered
      PROVE  \E i \in Numbered(c)' : stream'[c][i] = x
  <2>1. /\ Len(stream'[c]) = Len(stream[c]) + 1 /\ stream'[c][Len(stream[c]) + 1] = x
        /\ Len(stream[c]) \in Nat
    BY <1>2, <1>3, <1>6
  <2>2. Len(stream[c]) + 1 \in 1 .. Len(stream'[c])
    BY <2>1
  <2>3. Len(stream[c]) + 1 \in Numbered(c)'
    BY <1>6, <2>1, <2>2 DEF Numbered
  <2>4. QED
    BY <2>1, <2>3
<1>7. QED
  BY <1>4, <1>5, <1>6

\* A message is written within the point of its call.
LEMMA LogPlace ==
  ASSUME Typed, NEW left \in Lefts, Steady(left), Phases(left), Loggers,
         NEW base \in [Nat -> Nat], Window(left, base),
         NEW r \in Ranks, Doing(r, "write"), Head1(r).node = "log", r = Root(comm[r])
  PROVE  /\ Looping(taken[r]) /\ r \in calls[taken[r]].comm
         /\ Started(left, r, taken[r]) /\ base[taken[r]] < id[r]
         /\ \A s \in calls[taken[r]].comm : ~Shut(left, s, taken[r])
<1>1. todo[r] # << >> /\ todo[r][1] = Write("log")
  BY WriteHead
<1>2. Write("log") \notin Unlogged
  BY MessagingNames DEF Unlogged
<1>3. todo[r] \notin Seq(Unlogged)
  <2>1. todo[r] \in Seq(Unlogged) => todo[r][1] \in Unlogged
    BY <1>1, HeadTail
  <2>2. QED
    BY <1>1, <1>2, <2>1
<1>4. Loop(r)
  BY <1>3 DEF Loggers, Calm
<1>5. PICK n : n = taken[r]
  OBVIOUS
<1>6. Looping(n) /\ r \in calls[n].comm /\ n \in Nat /\ calls[n].comm \in AllComms
  <2>1. n \in 1 .. Len(calls) /\ r \in calls[n].comm
    BY <1>4, <1>5, LoopFacts
  <2>2. Looping(n)
    BY <1>4, <1>5, <2>1 DEF Loop, Looping
  <2>3. QED
    BY <2>1, <2>2, LoopingFacts
<1>7. /\ left[r][calls[n].comm] <= Inner(calls[n])
      /\ ~(left[r][calls[n].comm] <= Outer(calls[n]))
  BY <1>3, <1>4, <1>5, PhaseFacts DEF Phases
<1>8. Started(left, r, n)
  BY <1>5, <1>7 DEF Started, Reached
<1>9. ~Shut(left, r, n)
  <2>1. taken[r] = n /\ n \in Nat /\ ~(taken[r] > n)
    BY <1>5, <1>6
  <2>2. QED
    BY <1>7, <2>1 DEF Shut, Reached
<1>10. \A s \in calls[n].comm : ~Shut(left, s, n)
  BY <1>6, <1>9, Bounds, TogetherReached DEF Shut
<1>11. Opens(left, base, n) /\ Logging(r, n)
  BY <1>1, <1>5, <1>6 DEF Window, Logging
<1>12. base[n] < id[r]
  BY <1>6, <1>8, <1>11 DEF Opens
<1>13. QED
  BY <1>5, <1>6, <1>8, <1>10, <1>12

\* The operation of a rank keeps the window.
LEMMA StepWindow ==
  ASSUME Typed, Typed', OfCalls, InOwnStream, InOwnStream', NEW left \in Lefts, Steady(left),
         Phases(left), Loggers, NEW base \in [Nat -> Nat], Window(left, base), NEW r \in Ranks, Step(r)
  PROVE  Window(left, base)'
<1>1. UNCHANGED <<calls, taken>>
  BY StepKeeps
<1>2. CallsKept
  <2>1. Len(calls) \in Nat
    BY LenProperties DEF Typed
  <2>2. QED
    BY <1>1, <2>1 DEF CallsKept
<1>3. \A n : Looping(n)' <=> Looping(n)
  BY <1>1 DEF Looping
<1>4. \A n, q : (Started(left, q, n)' <=> Started(left, q, n)) /\ (Shut(left, q, n)' <=> Shut(left, q, n))
  BY <1>1 DEF Started, Shut, Reached
<1>5. /\ \A s \in Ranks : id[s] <= id'[s]
      /\ \A s \in Ranks \ {r} : id'[s] = id[s] /\ todo'[s] = todo[s] /\ comm'[s] = comm[s]
  BY StepNumbers, StepTodo
<1>6. PICK c \in AllComms : c = comm[r]
  BY DEF Typed, TypeOK
<1>7. PICK x : x = [jid |-> id[r], node |-> Head1(r).node, call |-> taken[r]]
  OBVIOUS
<1>8. x.jid = id[r] /\ x.node = Head1(r).node /\ x.call = taken[r]
  BY <1>7
<1>9. /\ \A d \in AllComms : \A i \in Numbered(d) : i \in Numbered(d)' /\ stream'[d][i] = stream[d][i]
      /\ \A d \in AllComms : \A i \in Numbered(d)' : i \notin Numbered(d) =>
           /\ d = c /\ r = Root(c) /\ DoWrite(r) /\ stream'[d][i] = x
           /\ \A h \in Numbered(d) : h < i
      /\ DoWrite(r) /\ r = Root(c) /\ x.node \notin {"comminfo", "info", "stdout"} =>
           \E i \in Numbered(c)' : stream'[c][i] = x
  BY <1>6, <1>7, StepNew
<1>10. ASSUME NEW n, NEW s \in Ranks, Logging(s, n)'
       PROVE  Logging(s, n) \/ id[s] < id'[s]
  <2>1. CASE s # r
    BY <1>1, <1>5, <1>10, <2>1 DEF Logging
  <2>2. CASE s = r
    <3>1. DoName(r)
      BY <1>10, <2>2, StepLoggers DEF Logging
    <3>2. r = Root(comm[r])
      BY <1>10, <2>2, <3>1 DEF DoName, Logging
    <3>3. id'[r] = id[r] + 1 /\ id[r] \in Nat
      BY <3>1, <3>2 DEF DoName, Typed, TypeOK
    <3>4. QED
      BY <2>2, <3>3
  <2>3. QED
    BY <2>1, <2>2
<1>11. ASSUME NEW n, NEW b, Looping(n), b = calls[n].comm, Beginning(Root(b), n), Written(b, n, "started")' = {}
       PROVE  Beginning(Root(b), n)' /\ id'[Root(b)] = id[Root(b)]
  <2>1. b \in AllComms /\ Root(b) \in Ranks
    BY <1>11, LoopingFacts, RootFacts
  <2>2. CASE Root(b) # r
    BY <1>1, <1>5, <1>11, <2>1, <2>2 DEF Beginning
  <2>3. CASE Root(b) = r
    <3>1. Head1(r) = Write("started") /\ c = b /\ taken[r] = n
      BY <1>6, <1>11, <2>3 DEF Beginning, Head1
    <3>2. Head1(r).op = "write" /\ Head1(r).node = "started"
      BY <3>1, OpNames
    <3>3. DoWrite(r)
      BY <3>2 DEF Step, DoSetComm, DoLog, DoName, DoPrint, DoRead, Doing, Head1
    <3>4. PICK i \in Numbered(c)' : stream'[c][i] = x
      BY <1>8, <1>9, <2>3, <3>1, <3>2, <3>3
    <3>5. i \in Written(b, n, "started")'
      BY <1>8, <3>1, <3>2, <3>4 DEF Written
    <3>6. QED
      BY <1>11, <3>5
  <2>4. QED
    BY <2>2, <2>3
<1>12. ASSUME NEW d \in AllComms, NEW i \in Numbered(d)', i \notin Numbered(d)
       PROVE  /\ LogIn(left, base, d, x)' /\ StartedIn(left, base, d, i)' /\ EndedIn(left, d, x)'
              /\ x.node = "log" => \A s \in calls[x.call].comm : ~Shut(left, s, x.call)
  <2>1. /\ d = c /\ r = Root(d) /\ d = comm[r] /\ DoWrite(r) /\ stream'[d][i] = x
        /\ \A h \in Numbered(d) : h < i
    BY <1>6, <1>9, <1>12
  <2>2. Doing(r, "write")
    BY <2>1 DEF DoWrite
  <2>3. PICK n : n = taken[r]
    OBVIOUS
  <2>4. ASSUME x.node = "log"
        PROVE  LogIn(left, base, d, x)' /\ \A s \in calls[x.call].comm : ~Shut(left, s, x.call)
    <3>1. /\ Looping(n) /\ Started(left, r, n) /\ base[n] < id[r]
          /\ \A s \in calls[n].comm : ~Shut(left, s, n)
      BY <1>6, <1>8, <2>1, <2>2, <2>3, <2>4, LogPlace
    <3>2. LogIn(left, base, d, x)'
      BY <1>1, <1>3, <1>4, <1>8, <2>1, <2>3, <3>1 DEF LogIn
    <3>3. QED
      BY <1>8, <2>3, <3>1, <3>2
  <2>5. ASSUME Looping(n)
        PROVE  /\ Loop(r) /\ r \in calls[n].comm
               /\ x.node = "started" => Started(left, r, n)
               /\ x.node = "ended" => Shut(left, r, n)
    <3>1. Loop(r) /\ r \in calls[n].comm
      <4>1. taken[r] # 0 /\ Loop(r)
        BY <2>3, <2>5 DEF Looping, Loop
      <4>2. QED
        BY <2>3, <4>1, LoopFacts
    <3>2. Phase(left, r)
      BY DEF Phases
    <3>3. /\ x.node = "started" => left[r][calls[n].comm] <= Inner(calls[n])
          /\ x.node = "ended" => left[r][calls[n].comm] <= Outer(calls[n])
      BY <1>8, <2>2, <2>3, <3>1, <3>2, PhaseFacts
    <3>4. QED
      BY <2>3, <3>1, <3>3 DEF Started, Shut, Reached
  <2>6. StartedIn(left, base, d, i)'
    <3>1. SUFFICES ASSUME x.node = "started", Looping(n), \A h \in Written(d, n, "started")' : i <= h
                   PROVE  x.jid = base[n]
      <4>1. x.node = "started" /\ Looping(n) => Started(left, Root(d), n)'
        BY <1>4, <2>1, <2>5
      <4>2. QED
        BY <1>3, <1>8, <2>1, <2>3, <3>1, <4>1 DEF StartedIn
    <3>2. d = calls[n].comm
      <4>1. d = OwnComm(x.node, x.call)'
        BY <1>12, <2>1, <3>1 DEF InOwnStream, Numbered
      <4>2. n # 0
        BY <3>1 DEF Looping
      <4>3. QED
        BY <1>1, <1>8, <2>3, <3>1, <4>1, <4>2 DEF OwnComm
    <3>3. Written(d, n, "started") = {}
      <4>1. SUFFICES ASSUME NEW h \in Written(d, n, "started")
                     PROVE  FALSE
        OBVIOUS
      <4>2. h \in Numbered(d) /\ h \in Nat
        <5>1. h \in Numbered(d)
          BY <4>1 DEF Written
        <5>2. stream \in [AllComms -> Seq(Node)] /\ h \in 1 .. Len(stream[d])
          BY <5>1 DEF Typed, TypeOK, Numbered
        <5>3. Len(stream[d]) \in Nat
          BY <5>2, LenProperties
        <5>4. QED
          BY <5>1, <5>2, <5>3
      <4>3. h \in Written(d, n, "started")' /\ h < i
        BY <1>9, <2>1, <4>1, <4>2, WrittenKept
      <4>4. i <= h /\ i \in Nat
        BY <1>12, <3>1, <4>3 DEF Numbered
      <4>5. QED
        BY <4>2, <4>3, <4>4
    <3>4. Opens(left, base, n) /\ Started(left, r, n)
      BY <2>5, <3>1 DEF Window
    <3>5. id[r] = base[n]
      BY <2>1, <3>2, <3>3, <3>4 DEF Opens
    <3>6. QED
      BY <1>8, <3>5
  <2>7. EndedIn(left, d, x)'
    <3>1. SUFFICES ASSUME x.node = "ended", Looping(n)
                   PROVE  /\ Shut(left, Root(d), n)'
                          /\ \A e \in AllComms : \A h \in Written(e, n, "log")' : stream'[e][h].jid < x.jid
      BY <1>3, <1>8, <2>3 DEF EndedIn
    <3>2. Shut(left, r, n) /\ r \in calls[n].comm
      BY <2>5, <3>1
    <3>3. ASSUME NEW e \in AllComms, NEW h \in Written(e, n, "log")'
          PROVE  stream'[e][h].jid < x.jid
      <4>1. h \in Numbered(e)' /\ stream'[e][h].node = "log" /\ stream'[e][h].call = n
        BY <3>3 DEF Written
      <4>2. h \in Numbered(e)
        BY <1>9, <3>1, <4>1
      <4>3. stream'[e][h] = stream[e][h]
        BY <1>9, <4>2
      <4>4. LogIn(left, base, e, stream[e][h])
        BY <4>2 DEF Window
      <4>5. stream[e][h].jid < id[r]
        BY <3>2, <4>1, <4>3, <4>4 DEF LogIn
      <4>6. QED
        BY <1>8, <4>3, <4>5
    <3>4. QED
      BY <1>4, <2>1, <3>2, <3>3
  <2>8. QED
    BY <1>1, <1>3, <1>8, <2>3, <2>4, <2>6, <2>7 DEF LogIn
<1>13. \A n : Looping(n)' => \A q \in calls'[n].comm : Started(left, q, n)' => n <= Len(calls)
  BY <1>1, <1>3, LoopingFacts, LenProperties, SMTT(30) DEF Typed
<1>14. QED
  <2>1. PICK less : less = left
    OBVIOUS
  <2>2. ASSUME NEW d \in AllComms, NEW i \in Numbered(d)', NEW y, y = stream'[d][i], i \notin Numbered(d)
        PROVE  /\ LogIn(less, base, d, y)' /\ StartedIn(less, base, d, i)' /\ EndedIn(less, d, y)'
               /\ y.node = "log" => \A s \in calls[y.call].comm : ~Shut(left, s, y.call)
    <3>1. y = x
      BY <1>9, <2>2
    <3>2. QED
      BY <1>12, <2>1, <2>2, <3>1
  <2>3. \A n : Looping(n)' => \A q \in calls'[n].comm : Started(less, q, n)' => n <= Len(calls)
    BY <1>13, <2>1
  <2>4. \A n : Looping(n) => \A q \in calls[n].comm : /\ Started(less, q, n)' <=> Started(left, q, n)
                                                      /\ Shut(less, q, n)' <=> Shut(left, q, n)
    BY <1>4, <2>1
  <2>5. \A s \in Ranks : id[s] <= id'[s]
    BY <1>5
  <2>6. \A d \in AllComms : \A i \in Numbered(d) : i \in Numbered(d)' /\ stream'[d][i] = stream[d][i]
    BY <1>9
  <2>7. \A d \in AllComms : \A i \in Numbered(d)' : \A y : y = stream'[d][i] /\ i \notin Numbered(d) =>
          /\ LogIn(less, base, d, y)' /\ StartedIn(less, base, d, i)' /\ EndedIn(less, d, y)'
          /\ y.node = "log" => \A s \in calls[y.call].comm : ~Shut(left, s, y.call)
    BY <2>2
  <2>8. \A n : \A s \in Ranks : Logging(s, n)' => Logging(s, n) \/ id[s] < id'[s]
    BY <1>10
  <2>9. \A n, b : Looping(n) /\ b = calls[n].comm /\ Beginning(Root(b), n) /\ Written(b, n, "started")' = {}
          => Beginning(Root(b), n)' /\ id'[Root(b)] = id[Root(b)]
    BY <1>11
  <2>10. Typed /\ Typed' /\ OfCalls /\ InOwnStream /\ CallsKept /\ base \in [Nat -> Nat] /\ Window(left, base)
    BY <1>2
  <2>11. Window(less, base)'
    BY ONLY <2>3, <2>4, <2>5, <2>6, <2>7, <2>8, <2>9, <2>10, WindowKept, SMTT(30)
  <2>12. QED
    BY <2>1, <2>11

\* The window stays when nothing is numbered.
LEMMA QuietWindow ==
  ASSUME Typed, Typed', OfCalls, InOwnStream, CallsKept, NEW left, NEW less,
         NEW base \in [Nat -> Nat], Window(left, base), UNCHANGED id,
         \A n : Looping(n)' => \A q \in calls'[n].comm : Started(less, q, n)' => n <= Len(calls),
         \A n : Looping(n) => \A q \in calls[n].comm : /\ Started(less, q, n)' <=> Started(left, q, n)
                                                       /\ Shut(less, q, n)' <=> Shut(left, q, n),
         \A n : \A r \in Ranks : Logging(r, n)' => Logging(r, n),
         \A n : \A r \in Ranks : Looping(n) /\ Beginning(r, n) => Beginning(r, n)',
         \A d \in AllComms : \A i \in Numbered(d) : i \in Numbered(d)' /\ stream'[d][i] = stream[d][i],
         \A d \in AllComms : Numbered(d)' \subseteq Numbered(d)
  PROVE  Window(less, base)'
<1>1. \A r \in Ranks : id[r] <= id'[r] /\ id'[r] = id[r]
  BY DEF Typed, TypeOK
<1>2. \A r \in Ranks : id[r] <= id'[r]
  BY <1>1
<1>3. \A n : \A r \in Ranks : Logging(r, n)' => Logging(r, n) \/ id[r] < id'[r]
  OBVIOUS
<1>4. \A n, c : Looping(n) /\ c = calls[n].comm /\ Beginning(Root(c), n) /\ Written(c, n, "started")' = {}
        => Beginning(Root(c), n)' /\ id'[Root(c)] = id[Root(c)]
  <2>1. ASSUME NEW n, NEW c, Looping(n), c = calls[n].comm, Beginning(Root(c), n)
        PROVE  Beginning(Root(c), n)' /\ id'[Root(c)] = id[Root(c)]
    <3>1. Root(c) \in Ranks
      BY <2>1, LoopingFacts, RootFacts
    <3>2. QED
      BY <1>1, <2>1, <3>1
  <2>2. QED
    BY <2>1
<1>5. \A d \in AllComms : \A i \in Numbered(d)' : \A x : x = stream'[d][i] /\ i \notin Numbered(d) =>
        /\ LogIn(less, base, d, x)' /\ StartedIn(less, base, d, i)' /\ EndedIn(less, d, x)'
        /\ x.node = "log" => \A s \in calls[x.call].comm : ~Shut(left, s, x.call)
  OBVIOUS
<1>6. QED
  BY <1>2, <1>3, <1>4, <1>5, WindowKept

\* A rank that enters its next call has passed all syncs of the calls it was in before,
\* and none of the new one.
LEMMA EnterReached ==
  ASSUME Typed, NEW left \in Lefts, NEW r \in Ranks, Enter(r),
         NEW less \in Lefts, \A s \in Ranks \ {r} : less[s] = left[s],
         \A c \in AllComms : less[r][c] = Total(calls[taken'[r]], c),
         \A c \in Own(r) : left[r][c] = 0,
         NEW n, Looping(n), NEW q \in calls[n].comm, NEW j \in Nat, j < Total(calls[n], calls[n].comm)
  PROVE  Reached(less, q, n, j)' <=> Reached(left, q, n, j)
<1>1. PICK k \in (taken[r] + 1) .. Len(calls) :
        /\ r \in calls[k].comm
        /\ \A m \in (taken[r] + 1) .. (k - 1) : r \notin calls[m].comm
        /\ taken' = [taken EXCEPT ![r] = k]
  BY DEF Enter
<1>2. UNCHANGED calls
  BY DEF Enter, app
<1>3. taken \in [Ranks -> 0 .. Len(calls)] /\ Len(calls) \in Nat
  BY LenProperties DEF Typed, TypeOK
<1>4. /\ taken'[r] = k /\ \A s \in Ranks \ {r} : taken'[s] = taken[s]
      /\ \A s \in Ranks : taken[s] \in Nat
  BY <1>1, <1>3
<1>5. taken[r] < k /\ k \in Nat
  BY <1>1, <1>3, <1>4
<1> DEFINE c == calls[n].comm
           total == Total(calls[n], c)
<1>6. q \in Ranks /\ c \in AllComms /\ c \in Own(q) /\ n \in Nat /\ total \in Nat
  BY LoopingFacts
<1>7. CASE q # r
  <2>1. taken'[q] = taken[q] /\ less[q][c] = left[q][c]
    BY <1>4, <1>6, <1>7
  <2>2. QED
    BY <1>2, <2>1 DEF Reached
<1>8. CASE q = r
  <2>1. left[r][c] = 0
    BY <1>6, <1>8
  <2>2. n = k => less[r][c] = total
    BY <1>4, <1>6
  <2>3. n < k => n <= taken[r]
    <3>1. SUFFICES ASSUME n < k, ~(n <= taken[r])
                   PROVE  FALSE
      OBVIOUS
    <3>2. n \in (taken[r] + 1) .. (k - 1)
      BY <1>4, <1>5, <1>6, <3>1
    <3>3. QED
      BY <1>1, <1>8, <3>2
  <2>4. Reached(less, q, n, j)' <=> (k > n \/ (k = n /\ less[r][c] <= j))
    BY <1>2, <1>4, <1>8 DEF Reached
  <2>5. Reached(left, q, n, j) <=> (taken[r] > n \/ (taken[r] = n /\ left[r][c] <= j))
    BY <1>8 DEF Reached
  <2>6. j < total
    OBVIOUS
  <2> HIDE DEF c, total
  <2>7. taken[r] \in Nat
    BY <1>4
  <2>8. CASE n < k
    <3>1. n <= taken[r] /\ k > n
      BY <1>5, <1>6, <2>3, <2>8
    <3>2. taken[r] > n \/ taken[r] = n
      BY <1>6, <2>7, <3>1
    <3>3. left[r][c] <= j
      BY <2>1
    <3>4. QED
      BY <2>4, <2>5, <3>1, <3>2, <3>3
  <2>9. CASE n = k
    <3>1. ~(k > n) /\ ~(taken[r] > n) /\ taken[r] # n
      BY <1>5, <1>6, <2>7, <2>9
    <3>2. ~(less[r][c] <= j)
      BY <1>6, <2>2, <2>6, <2>9
    <3>3. QED
      BY <2>4, <2>5, <3>1, <3>2
  <2>10. CASE n > k
    <3>1. ~(k > n) /\ k # n /\ ~(taken[r] > n) /\ taken[r] # n
      BY <1>5, <1>6, <2>7, <2>10
    <3>2. QED
      BY <2>4, <2>5, <3>1
  <2>11. QED
    BY <1>5, <1>6, <2>8, <2>9, <2>10
<1>9. QED
  BY <1>7, <1>8

\* Entering a call keeps the window.
LEMMA EnterWindow ==
  ASSUME Typed, Typed', OfCalls, InOwnStream, NEW left \in Lefts, Loggers,
         NEW base \in [Nat -> Nat], Window(left, base), NEW r \in Ranks, Enter(r),
         NEW less \in Lefts, \A s \in Ranks \ {r} : less[s] = left[s],
         \A c \in AllComms : less[r][c] = Total(calls[taken'[r]], c),
         \A c \in Own(r) : left[r][c] = 0
  PROVE  Window(less, base)'
<1>1. UNCHANGED <<calls, id, stream, comm>>
  BY DEF Enter, app, engine
<1>2. CallsKept
  <2>1. Len(calls) \in Nat
    BY LenProperties DEF Typed
  <2>2. QED
    BY <1>1, <2>1 DEF CallsKept
<1>3. \A n : Looping(n)' <=> Looping(n)
  BY <1>1 DEF Looping
<1>4. ASSUME NEW n, Looping(n), NEW q \in calls[n].comm
      PROVE  /\ Started(less, q, n)' <=> Started(left, q, n)
             /\ Shut(less, q, n)' <=> Shut(left, q, n)
  <2>1. PICK j \in Nat, k \in Nat : /\ j = Inner(calls[n]) /\ k = Outer(calls[n])
                                    /\ j < Total(calls[n], calls[n].comm) /\ k < Total(calls[n], calls[n].comm)
    BY <1>4, Bounds
  <2>2. /\ Reached(less, q, n, j)' <=> Reached(left, q, n, j)
        /\ Reached(less, q, n, k)' <=> Reached(left, q, n, k)
    BY <1>4, <2>1, EnterReached
  <2>3. j = Inner(calls'[n]) /\ k = Outer(calls'[n])
    BY <1>1, <2>1
  <2>4. QED
    BY <2>1, <2>2, <2>3 DEF Started, Shut
<1>5. /\ todo[r] = << >> /\ todo'[r] # << >> /\ todo'[r][1] = Read
      /\ \A s \in Ranks \ {r} : todo'[s] = todo[s] /\ taken'[s] = taken[s]
  BY EnterLoggers
<1>6. Read # Write("log")
  <2>1. Read.op = "read" /\ Write("log").op = "write"
    BY OpNames
  <2>2. QED
    BY <2>1
<1>7. \A n : \A s \in Ranks : Logging(s, n)' => Logging(s, n)
  BY <1>1, <1>5, <1>6 DEF Logging
<1>8. \A n : \A s \in Ranks : Looping(n) /\ Beginning(s, n) => Beginning(s, n)'
  BY <1>1, <1>5 DEF Beginning
<1>9. /\ \A d \in AllComms : \A i \in Numbered(d) : i \in Numbered(d)' /\ stream'[d][i] = stream[d][i]
      /\ \A d \in AllComms : Numbered(d)' \subseteq Numbered(d)
  BY <1>1 DEF Numbered
<1>10. \A n : Looping(n)' => \A q \in calls'[n].comm : Started(less, q, n)' => n <= Len(calls)
  <2>1. \A n : Looping(n) => n <= Len(calls)
    BY InTheCalls
  <2>2. QED
    BY <1>3, <2>1
<1>11. QED
  BY <1>1, <1>2, <1>4, <1>7, <1>8, <1>9, <1>10, QuietWindow

\* The members of a communicator announce it.
LEMMA GatherWindow ==
  ASSUME Typed, Typed', OfCalls, InOwnStream, NEW left \in Lefts, Loggers,
         NEW base \in [Nat -> Nat], Window(left, base), NEW c \in AllComms, DoGather(c),
         NEW less \in Lefts, \A r \in Ranks, x \in AllComms : less[r][x] = left[r][x]
  PROVE  Window(less, base)'
<1> DEFINE x == [jid |-> -1, node |-> "comminfo", call |-> taken[Root(c)]]
<1>1. /\ UNCHANGED <<calls, taken, id, comm>> /\ GoOn(c) /\ Together(c, "gather")
      /\ stream' = [stream EXCEPT ![c] = Append(@, x)]
  BY DEF DoGather, app
<1>2. x \in Node /\ x.node = "comminfo"
  <2>1. taken[Root(c)] \in Nat
    BY RootFacts, LenProperties DEF Typed, TypeOK
  <2>2. QED
    BY <2>1 DEF Node, Nodes
<1> HIDE DEF x
<1>3. CallsKept
  <2>1. Len(calls) \in Nat
    BY LenProperties DEF Typed
  <2>2. QED
    BY <1>1, <2>1 DEF CallsKept
<1>4. \A n : Looping(n)' <=> Looping(n)
  BY <1>1 DEF Looping
<1>5. ASSUME NEW n, Looping(n), NEW q \in calls[n].comm
      PROVE  /\ Started(less, q, n)' <=> Started(left, q, n)
             /\ Shut(less, q, n)' <=> Shut(left, q, n)
  <2>1. q \in Ranks /\ calls[n].comm \in AllComms
    BY <1>5, LoopingFacts
  <2>2. less[q][calls[n].comm] = left[q][calls[n].comm]
    BY <2>1
  <2>3. PICK j, k : j = Inner(calls[n]) /\ k = Outer(calls[n])
    OBVIOUS
  <2>4. j = Inner(calls'[n]) /\ k = Outer(calls'[n])
    BY <1>1, <2>3
  <2>5. /\ Reached(less, q, n, j)' <=> Reached(left, q, n, j)
        /\ Reached(less, q, n, k)' <=> Reached(left, q, n, k)
    BY <1>1, <2>2 DEF Reached
  <2>6. QED
    BY <2>3, <2>4, <2>5 DEF Started, Shut
<1>6. /\ \A s \in c : s \in Ranks /\ Doing(s, "gather")
      /\ \A s \in Ranks \ c : todo'[s] = todo[s]
  <2>1. \A s \in c : s \in Ranks /\ Doing(s, "gather")
    BY <1>1, TogetherFacts
  <2>2. QED
    BY <1>1, <2>1, GoOnTyped DEF Doing
<1>7. \A n : \A s \in Ranks : Logging(s, n)' => Logging(s, n)
  <2>1. \A s \in c : todo'[s] # << >> => todo'[s][1] # Write("log")
    BY <1>1, CollectiveLoggers
  <2>2. QED
    BY <1>1, <1>6, <2>1 DEF Logging
<1>8. \A n : \A s \in Ranks : Looping(n) /\ Beginning(s, n) => Beginning(s, n)'
  <2>1. \A s \in c : todo[s][1].op = "gather"
    BY <1>6 DEF Doing
  <2>2. Write("started").op = "write"
    BY OpNames
  <2>3. ASSUME NEW n, NEW s \in Ranks, Beginning(s, n)
        PROVE  s \notin c
    BY <2>1, <2>2, <2>3 DEF Beginning
  <2>4. QED
    BY <1>1, <1>6, <2>3 DEF Beginning
<1>9. stream \in [AllComms -> Seq(Node)] /\ stream' \in [AllComms -> Seq(Node)]
  BY DEF Typed, TypeOK
<1>10. ASSUME NEW d \in AllComms, NEW i \in Numbered(d)'
       PROVE  i \in Numbered(d)
  <2>1. i \in 1 .. Len(stream'[d]) /\ stream'[d][i].node # "comminfo"
        /\ stream'[d][i].node \notin {"comminfo", "info", "stdout"}
    BY <1>10 DEF Numbered
  <2>2. i \in 1 .. Len(stream[d]) /\ stream'[d][i] = stream[d][i]
    <3>1. \/ i \in 1 .. Len(stream[d]) /\ stream'[d][i] = stream[d][i]
          \/ stream'[d][i] = x
      BY <1>1, <1>2, <1>9, <2>1, Appended, ZenonT(40)
    <3>2. QED
      BY <1>2, <2>1, <3>1
  <2>3. QED
    BY <2>1, <2>2 DEF Numbered
<1>11. ASSUME NEW d \in AllComms, NEW i \in Numbered(d)
       PROVE  i \in Numbered(d)' /\ stream'[d][i] = stream[d][i]
  <2>1. i \in 1 .. Len(stream[d])
    BY <1>11 DEF Numbered
  <2>2. i \in 1 .. Len(stream'[d]) /\ stream'[d][i] = stream[d][i]
    BY <1>1, <1>2, <1>9, <2>1, Appended
  <2>3. QED
    BY <1>11, <2>2 DEF Numbered
<1>12. \A n : Looping(n)' => \A q \in calls'[n].comm : Started(less, q, n)' => n <= Len(calls)
  <2>1. \A n : Looping(n) => n <= Len(calls)
    BY InTheCalls
  <2>2. QED
    BY <1>4, <2>1
<1>13. \A d \in AllComms : Numbered(d)' \subseteq Numbered(d)
  BY <1>10
<1>14. QED
  BY <1>1, <1>3, <1>5, <1>7, <1>8, <1>11, <1>12, <1>13, QuietWindow

\* The application makes another call.
LEMMA ApplicationWindow ==
  ASSUME Typed, Typed', OfCalls, InOwnStream, NEW left \in Lefts,
         NEW base \in [Nat -> Nat], Window(left, base), Application
  PROVE  Window(left, base)'
<1>1. /\ Len(calls) \in Nat /\ Len(calls') = Len(calls) + 1
      /\ \A k \in 1 .. Len(calls) : calls'[k] = calls[k] /\ calls[k].kind # "finalize"
      /\ UNCHANGED <<taken, todo, comm, id, known, stream, output>>
  BY CallsGrow
<1>2. CallsKept
  <2>1. Len(calls) <= Len(calls')
    BY <1>1
  <2>2. QED
    BY <1>1, <2>1 DEF CallsKept
<1>3. \A r \in Ranks : taken[r] \in Nat /\ taken[r] <= Len(calls)
  BY <1>1 DEF Typed, TypeOK
<1>4. ASSUME NEW n, Looping(n), NEW q \in calls[n].comm
      PROVE  /\ Started(left, q, n)' <=> Started(left, q, n)
             /\ Shut(left, q, n)' <=> Shut(left, q, n)
  <2>1. n \in 1 .. Len(calls)
    BY <1>4 DEF Looping
  <2>2. calls'[n] = calls[n]
    BY <1>1, <2>1
  <2>3. PICK j, k : j = Inner(calls[n]) /\ k = Outer(calls[n])
    OBVIOUS
  <2>4. j = Inner(calls'[n]) /\ k = Outer(calls'[n])
    BY <2>2, <2>3
  <2>5. /\ Reached(left, q, n, j)' <=> Reached(left, q, n, j)
        /\ Reached(left, q, n, k)' <=> Reached(left, q, n, k)
    BY <1>1, <2>2 DEF Reached
  <2>6. QED
    BY <2>3, <2>4, <2>5 DEF Started, Shut
<1>5. ASSUME NEW n, Looping(n)', NEW q \in calls'[n].comm, Started(left, q, n)'
      PROVE  n <= Len(calls)
  <2>1. n \in Nat /\ q \in Ranks
    <3>1. n \in 1 .. Len(calls')
      BY <1>5 DEF Looping
    <3>2. n \in Nat
      BY <1>1, <3>1
    <3>3. calls'[n].comm \subseteq Ranks
      BY <1>5, NewRoot
    <3>4. QED
      BY <1>5, <3>2, <3>3
  <2>2. taken[q] > n \/ taken[q] = n
    <3>1. taken'[q] = taken[q]
      BY <1>1
    <3>2. taken'[q] > n \/ taken'[q] = n
      BY <1>5 DEF Started, Reached
    <3>3. QED
      BY <3>1, <3>2
  <2>3. taken[q] \in Nat /\ taken[q] <= Len(calls) /\ Len(calls) \in Nat
    BY <1>1, <1>3, <2>1
  <2>4. PICK m, t : m = Len(calls) /\ t = taken[q]
    OBVIOUS
  <2>5. n \in Nat /\ m \in Nat /\ t \in Nat /\ t <= m /\ (t > n \/ t = n)
    BY <2>1, <2>2, <2>3, <2>4
  <2>6. n <= m
    BY ONLY <2>5
  <2>7. QED
    BY <2>4, <2>6
<1>6. \A n : \A s \in Ranks : Logging(s, n)' => Logging(s, n)
  BY <1>1 DEF Logging
<1>7. \A n : \A s \in Ranks : Looping(n) /\ Beginning(s, n) => Beginning(s, n)'
  <2>1. \A n : Looping(n) => calls'[n] = calls[n]
    BY <1>1 DEF Looping
  <2>2. QED
    BY <1>1, <2>1 DEF Beginning
<1>8. /\ \A d \in AllComms : \A i \in Numbered(d) : i \in Numbered(d)' /\ stream'[d][i] = stream[d][i]
      /\ \A d \in AllComms : Numbered(d)' \subseteq Numbered(d)
  BY <1>1 DEF Numbered
<1>9. QED
  <2>1. PICK less : less = left
    OBVIOUS
  <2>2. \A n : Looping(n)' => \A q \in calls'[n].comm : Started(less, q, n)' => n <= Len(calls)
    BY <1>5, <2>1
  <2>3. \A n : Looping(n) => \A q \in calls[n].comm : /\ Started(less, q, n)' <=> Started(left, q, n)
                                                      /\ Shut(less, q, n)' <=> Shut(left, q, n)
    BY <1>4, <2>1
  <2>4. Typed /\ Typed' /\ OfCalls /\ InOwnStream /\ CallsKept /\ base \in [Nat -> Nat] /\ Window(left, base)
    BY <1>2
  <2>5. UNCHANGED id
    BY <1>1
  <2>6. Window(less, base)'
    BY ONLY <1>6, <1>7, <1>8, <2>2, <2>3, <2>4, <2>5, QuietWindow
  <2>7. QED
    BY <2>1, <2>6

\* What a sync of c in the t-th call does to the counts.
Nearer(left, less, c, t) ==
  /\ \A r \in c : left[r][c] # 0 /\ taken[r] = t
  /\ \A r \in Ranks, x \in AllComms : less[r][x] = IF r \in c /\ x = c THEN left[r][x] - 1 ELSE left[r][x]

\* A sync of c brings its members nearer to what their call has on c, and nobody else.
LEMMA SyncReached ==
  ASSUME Typed, NEW left \in Lefts, NEW c \in AllComms, NEW less \in Lefts, NEW t, Nearer(left, less, c, t),
         UNCHANGED <<calls, taken>>,
         NEW n, Looping(n), NEW q \in calls[n].comm, NEW k \in Nat
  PROVE  /\ Reached(left, q, n, k) => Reached(less, q, n, k)'
         /\ Reached(less, q, n, k)' =>
              Reached(left, q, n, k) \/ (q \in c /\ n = t /\ calls[n].comm = c /\ left[q][c] = k + 1)
<1> DEFINE d == calls[n].comm
<1>1. q \in Ranks /\ d \in AllComms
  BY LoopingFacts
<1>2. left[q][d] \in Nat /\ less[q][d] = IF q \in c /\ d = c THEN left[q][d] - 1 ELSE left[q][d]
  BY <1>1 DEF Lefts, Nearer
<1>3. /\ Reached(left, q, n, k) <=> (taken[q] > n \/ (taken[q] = n /\ left[q][d] <= k))
      /\ Reached(less, q, n, k)' <=> (taken[q] > n \/ (taken[q] = n /\ less[q][d] <= k))
  BY DEF Reached
<1>4. q \in c => taken[q] = t
  BY DEF Nearer
<1> HIDE DEF d
<1>5. CASE q \in c /\ d = c
  <2>1. less[q][d] = left[q][d] - 1 /\ taken[q] = t /\ d = c
    BY <1>2, <1>4, <1>5
  <2>2. left[q][d] <= k => less[q][d] <= k
    BY <1>2, <2>1
  <2>3. less[q][d] <= k => left[q][d] <= k \/ left[q][d] = k + 1
    BY <1>2, <2>1
  <2>4. QED
    BY <1>3, <1>5, <2>1, <2>2, <2>3 DEF d
<1>6. CASE ~(q \in c /\ d = c)
  BY <1>2, <1>3, <1>6
<1>7. QED
  BY <1>5, <1>6

LEMMA SyncPasses ==
  ASSUME Typed, NEW left \in Lefts, NEW c \in AllComms, NEW less \in Lefts, NEW t, Nearer(left, less, c, t),
         UNCHANGED <<calls, taken>>,
         NEW n, Looping(n), NEW q \in calls[n].comm
  PROVE  /\ Started(left, q, n) => Started(less, q, n)'
         /\ Shut(left, q, n) => Shut(less, q, n)'
         /\ Started(less, q, n)' => Started(left, q, n)
              \/ (q \in c /\ n = t /\ calls[n].comm = c /\ left[q][c] = Inner(calls[n]) + 1)
         /\ Shut(less, q, n)' => Shut(left, q, n) \/ (q \in c /\ n = t /\ calls[n].comm = c)
<1>1. PICK j \in Nat, k \in Nat : j = Inner(calls[n]) /\ k = Outer(calls[n])
  BY Bounds
<1>2. j = Inner(calls'[n]) /\ k = Outer(calls'[n])
  BY <1>1
<1>3. ASSUME NEW i \in Nat
      PROVE  /\ Reached(left, q, n, i) => Reached(less, q, n, i)'
             /\ Reached(less, q, n, i)' =>
                  Reached(left, q, n, i) \/ (q \in c /\ n = t /\ calls[n].comm = c /\ left[q][c] = i + 1)
  BY SyncReached
<1>4. /\ Started(left, q, n) <=> Reached(left, q, n, j)
      /\ Shut(left, q, n) <=> Reached(left, q, n, k)
      /\ Started(less, q, n)' <=> Reached(less, q, n, j)'
      /\ Shut(less, q, n)' <=> Reached(less, q, n, k)'
  BY <1>1, <1>2 DEF Started, Shut
<1>5. QED
  BY <1>1, <1>3, <1>4

\* A point that has begun goes on with its started node.
LEMMA StartingHead ==
  ASSUME NEW call \in LoopCall, NEW r \in call.comm
  PROVE  Starting(call, r) # << >> /\ Starting(call, r)[1] = Write("started")
<1> DEFINE tests == Tests(call, r)
           ending == Ending(call)
           u == Write("started")
<1>1. tests \in Seq(SomeOp) /\ ending \in Seq(SomeOp)
  BY OperationsRow
<1>2. u \in SomeOp /\ Sync \in SomeOp
  BY SomeOpFacts DEF Nodes
<1>3. Starting(call, r) = <<u>> \o (tests \o (<<Sync>> \o ending))
  BY DEF Starting
<1> HIDE DEF tests, ending, u
<1>4. <<Sync>> \o ending \in Seq(SomeOp)
  BY <1>1, <1>2, ConsFacts
<1>5. tests \o (<<Sync>> \o ending) \in Seq(SomeOp)
  BY <1>1, <1>4, ConcatProperties
<1>6. QED
  BY <1>2, <1>3, <1>5, ConsFacts DEF u

\* The members of a communicator that begin their point agree on its number; what has
\* been logged until they end it has smaller ones than they agree on then.
LEMMA SyncWindow ==
  ASSUME Typed, Typed', InOwnStream, NEW left \in Lefts, Steady(left), Phases(left), Counted(left), Loggers,
         NEW base \in [Nat -> Nat], Window(left, base),
         NEW c \in AllComms, DoSync(c), \A r \in c : left[r][c] # 0, NEW less \in Lefts,
         \A r \in Ranks, x \in AllComms : less[r][x] = IF r \in c /\ x = c THEN left[r][x] - 1 ELSE left[r][x]
  PROVE  \E since \in [Nat -> Nat] : Window(less, since)'
<1>1. UNCHANGED <<calls, taken, stream, comm>> /\ Together(c, "sync") /\ GoOn(c)
      /\ id' = [r \in Ranks |-> IF r \in c THEN Agreed(c) ELSE id[r]]
  BY DEF DoSync, app
<1>2. id \in [Ranks -> Nat]
  BY DEF Typed, TypeOK
<1>3. PICK a \in Nat : a = Agreed(c) /\ \A r \in c : id[r] <= a
  BY <1>2, AgreedFacts
<1>4. \A r \in c : r \in Ranks /\ Doing(r, "sync") /\ comm[r] = c
  BY <1>1, TogetherFacts
<1>5. /\ \A r \in c : id'[r] = a
      /\ \A r \in Ranks \ c : id'[r] = id[r]
      /\ \A r \in Ranks : id[r] \in Int /\ id'[r] \in Int /\ id[r] <= id'[r]
  <2>1. \A r \in Ranks : id'[r] = IF r \in c THEN a ELSE id[r]
    BY <1>1, <1>3
  <2>2. QED
    BY <1>2, <1>3, <1>4, <2>1
<1>6. \A r \in Ranks \ c : todo'[r] = todo[r]
  BY <1>1, <1>4, GoOnTyped DEF Doing
<1>7. PICK t : t \in Nat /\ \A r \in c : taken[r] = t
  <2>1. \A r \in Ranks : taken[r] \in Nat
    BY LenProperties DEF Typed, TypeOK
  <2>2. ASSUME NEW r \in c, NEW s \in c
        PROVE  ~(taken[r] < taken[s])
    <3>1. Pace(left, r, s, c)
      BY DEF Steady
    <3>2. QED
      BY <3>1 DEF Pace
  <2>3. Root(c) \in c /\ Root(c) \in Ranks
    BY RootFacts
  <2>4. \A r \in c : taken[r] = taken[Root(c)]
    BY <1>4, <2>1, <2>2, <2>3
  <2>5. QED
    BY <2>1, <2>3, <2>4
<1>8. ASSUME NEW n, Looping(n), NEW q \in calls[n].comm
      PROVE  /\ Started(left, q, n) => Started(less, q, n)'
             /\ Shut(left, q, n) => Shut(less, q, n)'
             /\ Started(less, q, n)' => Started(left, q, n)
                  \/ (q \in c /\ n = t /\ calls[n].comm = c /\ left[q][c] = Inner(calls[n]) + 1)
             /\ Shut(less, q, n)' => Shut(left, q, n) \/ (q \in c /\ n = t /\ calls[n].comm = c)
  <2>1. Nearer(left, less, c, t)
    BY <1>7 DEF Nearer
  <2>2. UNCHANGED <<calls, taken>> /\ Typed
    BY <1>1
  <2>3. left \in Lefts /\ less \in Lefts /\ c \in AllComms /\ Looping(n) /\ q \in calls[n].comm
    BY <1>8
  <2>4. QED
    BY ONLY <2>1, <2>2, <2>3, SyncPasses
<1>9. \A n : Looping(n)' <=> Looping(n)
  BY <1>1 DEF Looping
<1>10. PICK begins \in BOOLEAN :
         begins <=> Looping(t) /\ calls[t].comm = c /\ \E q \in c : left[q][c] = Inner(calls[t]) + 1
  OBVIOUS
<1>11. PICK since \in [Nat -> Nat] : since = IF begins THEN [base EXCEPT ![t] = a] ELSE base
  BY <1>7
<1>12. ASSUME NEW n, Looping(n), NEW q \in calls[n].comm, Started(left, q, n)
       PROVE  since[n] = base[n]
  <2>1. SUFFICES ASSUME n = t, begins
                 PROVE  FALSE
    <3>1. n \in Nat
      BY <1>12, LoopingFacts
    <3>2. QED
      BY <1>7, <1>11, <2>1, <3>1
  <2>2. PICK p \in c : left[p][c] = Inner(calls[t]) + 1 /\ calls[t].comm = c
    BY <1>10, <2>1
  <2>3. Started(left, p, n)
    BY <1>12, <2>1, <2>2, Bounds, TogetherReached DEF Started
  <2>4. taken[p] = t /\ p \in Ranks
    BY <1>4, <1>7, <2>2
  <2>5. left[p][c] <= Inner(calls[t])
    BY <1>7, <2>1, <2>2, <2>3, <2>4 DEF Started, Reached
  <2>6. Inner(calls[t]) \in Nat
    BY <1>12, <2>1, Bounds
  <2>7. QED
    BY <2>2, <2>5, <2>6
<1>13. /\ \A n : \A s \in Ranks : Logging(s, n)' => s \notin c /\ Logging(s, n)
       /\ \A n : \A s \in Ranks : Beginning(s, n) => s \notin c
  <2>1. \A s \in c : todo'[s] # << >> => todo'[s][1] # Write("log")
    BY <1>1, CollectiveLoggers
  <2>2. \A s \in c : todo[s][1].op = "sync"
    BY <1>4 DEF Doing
  <2>3. Write("started").op = "write"
    BY OpNames
  <2>4. \A n : \A s \in Ranks : Logging(s, n)' => s \notin c /\ Logging(s, n)
    BY <1>1, <1>6, <2>1 DEF Logging
  <2>5. \A n : \A s \in Ranks : Beginning(s, n) => s \notin c
    BY <2>2, <2>3 DEF Beginning
  <2>6. QED
    BY <2>4, <2>5
<1>14. ASSUME NEW n, Looping(n)
       PROVE  Opens(less, since, n)'
  <2>1. PICK d : d = calls[n].comm
    OBVIOUS
  <2>2. d = calls'[n].comm /\ d \in AllComms /\ d \subseteq Ranks /\ Root(d) \in d /\ n \in Nat
    BY <1>1, <1>14, <2>1, LoopingFacts, RootFacts
  <2>3. Opens(left, base, n)
    BY <1>14 DEF Window
  <2>4. since[n] \in Nat /\ base[n] \in Nat
    BY <1>11, <2>2
  <2>5. ASSUME NEW s \in d, Started(less, s, n)', ~Started(left, s, n)
        PROVE  s \in c /\ n = t /\ d = c /\ left[s][c] = Inner(calls[n]) + 1 /\ since[n] = a
    <3>1. s \in c /\ n = t /\ d = c /\ left[s][c] = Inner(calls[n]) + 1
      BY <1>8, <1>14, <2>1, <2>5
    <3>2. begins
      BY <1>10, <1>14, <2>1, <3>1
    <3>3. since[n] = a
      BY <1>11, <2>2, <3>1, <3>2
    <3>4. QED
      BY <3>1, <3>3
  <2>6. ASSUME NEW s \in d, Started(less, s, n)'
        PROVE  since[n] <= id'[s] /\ (Logging(s, n)' => since[n] < id'[s])
    <3>1. s \in Ranks
      BY <2>2
    <3>2. CASE Started(left, s, n)
      <4>1. since[n] = base[n]
        BY <1>12, <1>14, <2>1, <3>2
      <4>2. base[n] <= id[s] /\ (Logging(s, n) => base[n] < id[s])
        BY <2>1, <2>3, <3>2 DEF Opens
      <4>3. Logging(s, n)' => Logging(s, n)
        BY <1>13, <3>1
      <4>4. PICK b, v, w : b = base[n] /\ v = id[s] /\ w = id'[s]
        OBVIOUS
      <4>5. b \in Int /\ v \in Int /\ w \in Int /\ v <= w /\ b <= v /\ (Logging(s, n)' => b < v)
        BY <1>5, <2>4, <3>1, <4>2, <4>3, <4>4
      <4>6. b <= w /\ (b < v => b < w)
        BY ONLY <4>5
      <4>7. QED
        BY <4>1, <4>4, <4>5, <4>6
    <3>3. CASE ~Started(left, s, n)
      <4>1. s \in c /\ since[n] = a
        BY <2>5, <2>6, <3>3
      <4>2. id'[s] = a
        BY <1>5, <4>1
      <4>3. ~Logging(s, n)'
        BY <1>13, <3>1, <4>1
      <4>4. QED
        BY <1>3, <4>1, <4>2, <4>3
    <3>4. QED
      BY <3>2, <3>3
  <2>7. ASSUME Started(less, Root(d), n)', Written(d, n, "started")' = {}
        PROVE  Beginning(Root(d), n)' /\ id'[Root(d)] = since[n]
    <3>1. PICK r \in Ranks : r = Root(d) /\ r \in d
      BY <2>2
    <3>2. CASE Started(left, r, n)
      <4>1. Written(d, n, "started") = {}
        BY <1>1, <2>7 DEF Written, Numbered
      <4>2. Beginning(r, n) /\ id[r] = base[n]
        BY <2>1, <2>3, <3>1, <3>2, <4>1 DEF Opens
      <4>3. r \notin c
        BY <1>13, <4>2
      <4>4. id'[r] = id[r] /\ todo'[r] = todo[r]
        BY <1>5, <1>6, <4>3
      <4>5. Beginning(r, n)'
        BY <1>1, <4>2, <4>4 DEF Beginning
      <4>6. since[n] = base[n]
        BY <1>12, <1>14, <2>1, <3>1, <3>2
      <4>7. QED
        BY <3>1, <4>2, <4>4, <4>5, <4>6
    <3>3. CASE ~Started(left, r, n)
      <4>1. r \in c /\ n = t /\ d = c /\ left[r][c] = Inner(calls[n]) + 1 /\ since[n] = a
        BY <2>5, <2>7, <3>1, <3>3
      <4>2. taken[r] = n /\ comm[r] = d /\ id'[r] = a
        BY <1>4, <1>5, <1>7, <4>1
      <4>3. Loop(r)
        BY <1>14, <4>2 DEF Loop, Looping
      <4>4. todo'[r] = Starting(calls[n], r)
        <5>1. \A q \in Ranks, x \in AllComms :
                less[q][x] = IF "sync" = "sync" /\ q \in c /\ x = c THEN left[q][x] - 1 ELSE left[q][x]
          OBVIOUS
        <5>2. \A q \in c : "sync" = "sync" /\ Loop(q) /\ calls[taken[q]].comm = c
                             /\ left[q][c] = Inner(calls[taken[q]]) + 1
                => todo'[q] = Starting(calls[taken[q]], q)
          BY <1>1, <5>1, CollectivePhases
        <5>3. QED
          BY <2>1, <4>1, <4>2, <4>3, <5>2
      <4>5. todo'[r] # << >> /\ todo'[r][1] = Write("started")
        <5>1. calls[n] \in LoopCall /\ r \in calls[n].comm
          BY <1>14, <2>1, <3>1, LoopingFacts
        <5>2. Starting(calls[n], r) # << >> /\ Starting(calls[n], r)[1] = Write("started")
          BY <5>1, StartingHead
        <5>3. QED
          BY <4>4, <5>2
      <4>6. Beginning(r, n)'
        BY <1>1, <2>2, <4>2, <4>5 DEF Beginning
      <4>7. QED
        BY <3>1, <4>1, <4>2, <4>6
    <3>4. QED
      BY <3>2, <3>3
  <2>8. QED
    BY <2>2, <2>6, <2>7 DEF Opens
<1>15. ASSUME NEW d \in AllComms, NEW i \in Numbered(d), NEW x, x = stream[d][i]
       PROVE  LogIn(less, since, d, x)' /\ StartedIn(less, since, d, i)' /\ EndedIn(less, d, x)'
  <2>1. PICK n : n = x.call
    OBVIOUS
  <2>2. LogIn(left, base, d, x) /\ StartedIn(left, base, d, i) /\ EndedIn(left, d, x)
    BY <1>15 DEF Window
  <2>3. Looping(n) => Root(d) \in calls[n].comm /\ Root(d) \in Ranks /\ x.jid \in Int /\ x.jid < id[Root(d)]
    <3>1. Looping(n) => Root(d) \in calls[n].comm /\ Root(d) \in Ranks /\ x.jid \in Int
      BY <1>15, <2>1, NodeRoot, NumberedTypes
    <3>2. Looping(n) => x.jid < id[Root(d)]
      BY <1>15, <2>1 DEF Counted, Passed
    <3>3. QED
      BY <3>1, <3>2
  <2>4. \A e, k, node : Written(e, k, node)' = Written(e, k, node)
    BY <1>1 DEF Written, Numbered
  <2>5. ASSUME x.node = "log"
        PROVE  LogIn(less, since, d, x)'
    <3>1. /\ Looping(n) /\ Started(left, Root(d), n) /\ base[n] < x.jid
          /\ \A s \in calls[n].comm : Shut(left, s, n) => x.jid < id[s]
      BY <2>1, <2>2, <2>5 DEF LogIn
    <3>2. Started(less, Root(d), n)' /\ since[n] = base[n]
      BY <1>8, <1>12, <2>3, <3>1
    <3>3. ASSUME NEW s \in calls[n].comm, Shut(less, s, n)'
          PROVE  x.jid < id'[s]
      <4>1. s \in Ranks
        BY <3>1, LoopingFacts
      <4>2. CASE Shut(left, s, n)
        <5>1. x.jid < id[s] /\ id[s] <= id'[s] /\ id[s] \in Int /\ id'[s] \in Int /\ x.jid \in Int
          BY <1>5, <2>3, <3>1, <4>1, <4>2
        <5>2. QED
          BY ONLY <5>1
      <4>3. CASE ~Shut(left, s, n)
        <5>1. s \in c /\ calls[n].comm = c
          BY <1>8, <3>1, <3>3, <4>3
        <5>2. x.jid < id[Root(d)] /\ Root(d) \in c
          BY <2>3, <3>1, <5>1
        <5>3. id[Root(d)] <= a /\ id'[s] = a
          BY <1>3, <1>5, <5>1, <5>2
        <5>4. id[Root(d)] \in Int /\ a \in Int /\ x.jid \in Int
          BY <1>5, <2>3, <3>1
        <5>5. x.jid < a
          BY ONLY <5>2, <5>3, <5>4
        <5>6. QED
          BY <5>3, <5>5
      <4>4. QED
        BY <4>2, <4>3
    <3>4. QED
      BY <1>1, <1>9, <2>1, <3>1, <3>2, <3>3 DEF LogIn
  <2>6. StartedIn(less, since, d, i)'
    <3>1. SUFFICES ASSUME x.node = "started", Looping(n)
                   PROVE  /\ Started(less, Root(d), n)'
                          /\ (\A h \in Written(d, n, "started") : i <= h) => x.jid = since[n]
      BY <1>1, <1>9, <1>15, <2>1, <2>4 DEF StartedIn
    <3>2. /\ Started(left, Root(d), n)
          /\ (\A h \in Written(d, n, "started") : i <= h) => x.jid = base[n]
      BY <1>15, <2>1, <2>2, <3>1 DEF StartedIn
    <3>3. Started(less, Root(d), n)' /\ since[n] = base[n]
      BY <1>8, <1>12, <2>3, <3>1, <3>2
    <3>4. QED
      BY <3>2, <3>3
  <2>7. EndedIn(less, d, x)'
    <3>1. SUFFICES ASSUME x.node = "ended", Looping(n)
                   PROVE  /\ Shut(less, Root(d), n)'
                          /\ \A e \in AllComms : \A h \in Written(e, n, "log") : stream[e][h].jid < x.jid
      BY <1>1, <1>9, <2>1, <2>4 DEF EndedIn
    <3>2. /\ Shut(left, Root(d), n)
          /\ \A e \in AllComms : \A h \in Written(e, n, "log") : stream[e][h].jid < x.jid
      BY <2>1, <2>2, <3>1 DEF EndedIn
    <3>3. QED
      BY <1>8, <2>3, <3>1, <3>2
  <2>8. LogIn(less, since, d, x)'
    BY <2>5 DEF LogIn
  <2>9. QED
    BY <2>6, <2>7, <2>8
<1>16. Window(less, since)'
  <2>1. ASSUME NEW d \in AllComms, NEW i \in Numbered(d)'
        PROVE  LogIn(less, since, d, stream[d][i])' /\ StartedIn(less, since, d, i)' /\ EndedIn(less, d, stream[d][i])'
    <3>1. PICK x : x = stream[d][i]
      OBVIOUS
    <3>2. i \in Numbered(d) /\ x = stream'[d][i]
      BY <1>1, <2>1, <3>1 DEF Numbered
    <3>3. LogIn(less, since, d, x)' /\ StartedIn(less, since, d, i)' /\ EndedIn(less, d, x)'
      BY <1>15, <3>1, <3>2
    <3>4. QED
      BY <3>2, <3>3
  <2>2. QED
    BY <1>9, <1>14, <2>1 DEF Window
<1>17. QED
  BY <1>16

-----------------------------------------------------------------------------
(* The invariant.                                                          *)

WInv ==
  /\ Typed /\ OfCalls /\ InOwnStream /\ FinalLast /\ Loggers
  /\ \E left \in Lefts, base \in [Nat -> Nat] : Ordered(left) /\ Phases(left) /\ Window(left, base)

\* At the start nobody logs, and no call has begun.
LEMMA InitWindow == Init => WInv
<1> SUFFICES ASSUME Init
             PROVE  WInv
  OBVIOUS
<1>1. Typed /\ OfCalls /\ InOwnStream /\ FinalLast
  BY InitOrdered DEF OInv
<1>2. PICK left \in Lefts : Ordered(left)
  BY InitOrdered DEF OInv
<1>3. Len(calls) = 0 /\ \A r \in Ranks : taken[r] = 0 /\ todo[r] = Startup
  BY DEF Init
<1>4. \A n : ~Looping(n)
  BY <1>3 DEF Looping
<1>5. \A r \in Ranks : ~Loop(r)
  BY <1>3 DEF Loop
<1>6. Loggers
  <2>1. Startup \in Seq(Unlogged) /\ Startup \in Seq(Plain)
    BY EdgesPlain, SeqMonotonic
  <2>2. Named(Startup)
    BY <2>1, NamedPlain
  <2>3. QED
    BY <1>3, <2>1, <2>2 DEF Loggers, Calm
<1>7. Phases(left)
  BY <1>5 DEF Phases, Phase
<1>8. PICK base \in [Nat -> Nat] : TRUE
  <2>1. [n \in Nat |-> 0] \in [Nat -> Nat]
    OBVIOUS
  <2>2. QED
    BY <2>1
<1>9. Window(left, base)
  <2>1. \A d \in AllComms : \A i \in Numbered(d) : stream[d][i].node # "log"
    <3>1. ASSUME NEW d \in AllComms, NEW i \in Numbered(d)
          PROVE  FALSE
      <4>1. i \in 1 .. Len(stream[d]) /\ stream[d][i].node \notin {"comminfo", "info", "stdout"}
        BY <3>1 DEF Numbered
      <4>2. stream[d] = IF d = World
                        THEN <<[jid |-> -1, node |-> "comminfo", call |-> 0], [jid |-> 0, node |-> "info", call |-> 0]>>
                        ELSE << >>
        BY <3>1 DEF Init
      <4>3. CASE d = World
        <5>1. PICK x, y : /\ x = [jid |-> -1, node |-> "comminfo", call |-> 0]
                          /\ y = [jid |-> 0, node |-> "info", call |-> 0]
          OBVIOUS
        <5>2. x.node = "comminfo" /\ y.node = "info"
          BY <5>1
        <5>3. stream[d] = <<x, y>>
          BY <4>2, <4>3, <5>1
        <5>4. Len(<<x, y>>) = 2 /\ <<x, y>>[1] = x /\ <<x, y>>[2] = y
          OBVIOUS
        <5>5. i \in 1 .. 2
          BY <4>1, <5>3, <5>4
        <5>6. i = 1 \/ i = 2
          BY <5>5
        <5>7. stream[d][i] = x \/ stream[d][i] = y
          BY <5>3, <5>4, <5>6
        <5>8. QED
          BY <4>1, <5>2, <5>7
      <4>4. CASE d # World
        <5>1. stream[d] = << >> /\ Len(<< >>) = 0
          BY <4>2, <4>4
        <5>2. i \in 1 .. 0
          BY <4>1, <5>1
        <5>3. QED
          BY <5>2
      <4>5. QED
        BY <4>3, <4>4
    <3>2. QED
      BY <3>1
  <2>2. QED
    BY <1>4, <2>1 DEF Window, LogIn, StartedIn, EndedIn
<1>10. QED
  BY <1>1, <1>2, <1>6, <1>7, <1>9 DEF WInv

\* Doing nothing keeps all of this.
LEMMA StutterWindow ==
  ASSUME Typed, Typed', OfCalls, InOwnStream, NEW left \in Lefts, Phases(left), Loggers,
         NEW base \in [Nat -> Nat], Window(left, base), UNCHANGED vars
  PROVE  Loggers' /\ Phases(left)' /\ Window(left, base)'
<1>1. UNCHANGED <<calls, open, taken, todo, comm, id, known, stream, output>>
  BY DEF vars
<1>2. Loggers' /\ Phases(left)'
  BY <1>1 DEF Loggers, Calm, Loop, Phases, Phase
<1>3. CallsKept
  <2>1. Len(calls) \in Nat
    BY LenProperties DEF Typed
  <2>2. QED
    BY <1>1, <2>1 DEF CallsKept
<1>4. PICK less : less = left
  OBVIOUS
<1>5. \A n : Looping(n)' => \A q \in calls'[n].comm : Started(less, q, n)' => n <= Len(calls)
  <2>1. \A n : Looping(n)' <=> Looping(n)
    BY <1>1 DEF Looping
  <2>2. \A n : Looping(n) => n <= Len(calls)
    BY InTheCalls
  <2>3. QED
    BY <2>1, <2>2
<1>6. \A n : Looping(n) => \A q \in calls[n].comm : /\ Started(less, q, n)' <=> Started(left, q, n)
                                                    /\ Shut(less, q, n)' <=> Shut(left, q, n)
  BY <1>1, <1>4 DEF Started, Shut, Reached, Inner, Outer, Total
<1>7. /\ \A n : \A s \in Ranks : Logging(s, n)' => Logging(s, n)
      /\ \A n : \A s \in Ranks : Looping(n) /\ Beginning(s, n) => Beginning(s, n)'
  BY <1>1 DEF Logging, Beginning
<1>8. /\ \A d \in AllComms : \A i \in Numbered(d) : i \in Numbered(d)' /\ stream'[d][i] = stream[d][i]
      /\ \A d \in AllComms : Numbered(d)' \subseteq Numbered(d)
  BY <1>1 DEF Numbered
<1>9. Typed /\ Typed' /\ OfCalls /\ InOwnStream /\ CallsKept /\ base \in [Nat -> Nat] /\ Window(left, base)
  BY <1>3
<1>10. UNCHANGED id
  BY <1>1
<1>11. Window(less, base)'
  BY ONLY <1>5, <1>6, <1>7, <1>8, <1>9, <1>10, QuietWindow
<1>12. QED
  BY <1>2, <1>4, <1>11

\* A call of the application changes nothing about those before.
LEMMA ApplicationPhases ==
  ASSUME Typed, NEW left, Phases(left), Loggers, Application
  PROVE  Loggers' /\ Phases(left)'
<1>1. /\ \A k \in 1 .. Len(calls) : calls'[k] = calls[k]
      /\ UNCHANGED <<taken, todo, comm>> /\ Len(calls) \in Nat
  BY CallsGrow
<1>2. \A r \in Ranks : taken[r] # 0 => calls'[taken[r]] = calls[taken[r]]
  <2>1. \A r \in Ranks : taken[r] \in 0 .. Len(calls)
    BY DEF Typed, TypeOK
  <2>2. QED
    BY <1>1, <2>1
<1>3. \A r \in Ranks : Loop(r)' <=> Loop(r)
  BY <1>1, <1>2 DEF Loop
<1>4. Loggers'
  BY <1>1, <1>3 DEF Loggers, Calm
<1>5. Phases(left)'
  BY <1>1, <1>2, <1>3 DEF Phases, Phase, Loop
<1>6. QED
  BY <1>4, <1>5

\* Every step keeps the window.
LEMMA NextWindow ==
  ASSUME WInv, ~LogsToStdout, [Next]_vars
  PROVE  WInv'
<1>1. PICK left \in Lefts, base \in [Nat -> Nat] : Ordered(left) /\ Phases(left) /\ Window(left, base)
  BY DEF WInv
<1>2. Typed /\ OfCalls /\ InOwnStream /\ FinalLast /\ Loggers /\ Steady(left) /\ Counted(left)
  BY <1>1 DEF WInv, Ordered
<1>3. IInv
  BY <1>2 DEF IInv
<1>4. Typed' /\ OfCalls' /\ InOwnStream'
  BY <1>3, NextSteady DEF IInv
<1> DEFINE Goal == /\ FinalLast' /\ Loggers'
                   /\ \E less \in Lefts, since \in [Nat -> Nat] :
                        Ordered(less)' /\ Phases(less)' /\ Window(less, since)'
<1>5. CASE UNCHANGED vars
  <2>1. FinalLast' /\ Ordered(left)'
    BY <1>1, <1>2, <1>4, <1>5, StutterOrdered
  <2>2. Loggers' /\ Phases(left)' /\ Window(left, base)'
    BY <1>1, <1>2, <1>4, <1>5, StutterWindow
  <2>3. Goal
    BY <2>1, <2>2
  <2>4. QED
    BY <1>4, <2>3 DEF WInv
<1>6. CASE Application
  <2>1. FinalLast' /\ Ordered(left)'
    BY <1>1, <1>2, <1>4, <1>6, ApplicationOrdered
  <2>2. Loggers' /\ Phases(left)'
    BY <1>1, <1>2, <1>6, ApplicationPhases
  <2>3. Window(left, base)'
    BY <1>1, <1>2, <1>4, <1>6, ApplicationWindow
  <2>4. Goal
    BY <2>1, <2>2, <2>3
  <2>5. QED
    BY <1>4, <2>4 DEF WInv
<1>7. ASSUME NEW r \in Ranks, Enter(r)
      PROVE  WInv'
  <2>1. FinalLast' /\ Loggers'
    BY <1>1, <1>2, <1>4, <1>7, EnterOrdered, EnterLoggers
  <2>2. PICK less \in Lefts :
          /\ Ordered(less)'
          /\ \A s \in Ranks \ {r} : less[s] = left[s]
          /\ \A c \in AllComms : less[r][c] = Total(calls[taken'[r]], c)
          /\ \A c \in Own(r) : left[r][c] = 0
    BY <1>1, <1>2, <1>4, <1>7, EnterOrdered
  <2>3. Phases(less)'
    BY <1>1, <1>2, <1>7, <2>2, EnterPhases
  <2>4. Window(less, base)'
    BY <1>1, <1>2, <1>4, <1>7, <2>2, EnterWindow
  <2>5. Goal
    BY <2>1, <2>2, <2>3, <2>4
  <2>6. QED
    BY <1>4, <2>5 DEF WInv
<1>8. ASSUME NEW r \in Ranks, Step(r)
      PROVE  WInv'
  <2>1. FinalLast' /\ Ordered(left)'
    BY <1>1, <1>2, <1>4, <1>8, StepOrdered
  <2>2. Loggers' /\ Phases(left)'
    BY <1>1, <1>2, <1>8, StepLoggers, StepPhases
  <2>3. Window(left, base)'
    BY <1>1, <1>2, <1>4, <1>8, StepWindow
  <2>4. Goal
    BY <2>1, <2>2, <2>3
  <2>5. QED
    BY <1>4, <2>4 DEF WInv
<1>9. ASSUME NEW c \in AllComms, DoGather(c)
      PROVE  WInv'
  <2>1. Together(c, "gather") /\ GoOn(c) /\ UNCHANGED <<calls, taken, comm>>
    BY <1>9 DEF DoGather, app
  <2>2. PICK less \in Lefts :
          /\ FinalLast' /\ Ordered(less)'
          /\ \A r \in Ranks, x \in AllComms : less[r][x] = left[r][x]
    BY <1>1, <1>2, <1>4, <1>9, GatherOrdered
  <2>3. \A r \in Ranks, x \in AllComms :
          less[r][x] = IF "gather" = "sync" /\ r \in c /\ x = c THEN left[r][x] - 1 ELSE left[r][x]
    BY <2>2
  <2>4. Phases(less)' /\ Loggers'
    BY <1>1, <1>2, <2>1, <2>3, CollectivePhases, CollectiveLoggers
  <2>5. Window(less, base)'
    BY <1>1, <1>2, <1>4, <1>9, <2>2, GatherWindow
  <2>6. Goal
    BY <2>2, <2>4, <2>5
  <2>7. QED
    BY <1>4, <2>6 DEF WInv
<1>10. ASSUME NEW c \in AllComms, DoSync(c)
       PROVE  WInv'
  <2>1. Together(c, "sync") /\ GoOn(c) /\ UNCHANGED <<calls, taken, comm>>
    BY <1>10 DEF DoSync, app
  <2>2. FinalLast' /\ \A r \in c : left[r][c] # 0
    BY <1>1, <1>2, <1>4, <1>10, SyncOrdered
  <2>3. PICK less \in Lefts :
          /\ Ordered(less)'
          /\ \A r \in Ranks, x \in AllComms :
               less[r][x] = IF r \in c /\ x = c THEN left[r][x] - 1 ELSE left[r][x]
    BY <1>1, <1>2, <1>4, <1>10, SyncOrdered
  <2>4. \A r \in Ranks, x \in AllComms :
          less[r][x] = IF "sync" = "sync" /\ r \in c /\ x = c THEN left[r][x] - 1 ELSE left[r][x]
    BY <2>3
  <2>5. Phases(less)' /\ Loggers'
    BY <1>1, <1>2, <2>1, <2>4, CollectivePhases, CollectiveLoggers
  <2>6. \E since \in [Nat -> Nat] : Window(less, since)'
    BY <1>1, <1>2, <1>4, <1>10, <2>2, <2>3, SyncWindow
  <2>7. Goal
    BY <2>2, <2>3, <2>5, <2>6
  <2>8. QED
    BY <1>4, <2>7 DEF WInv
<1>11. QED
  BY <1>5, <1>6, <1>7, <1>8, <1>9, <1>10 DEF Next, Collective

\* What is between the numbers of the started and the ended nodes is in the window.
LEMMA Windowed ==
  ASSUME WInv
  PROVE  CallWindow
<1>1. PICK left \in Lefts, base \in [Nat -> Nat] : Window(left, base)
  BY DEF WInv
<1>2. stream \in [AllComms -> Seq(Node)]
  BY DEF WInv, Typed, TypeOK
<1>3. ASSUME NEW c \in AllComms, NEW d \in AllComms, NEW i \in Numbered(c), NEW k \in Numbered(d), NEW n,
             stream[c][i].call = n, stream[d][k].call = n, stream[c][i].node = "log"
      PROVE  /\ stream[d][k].node = "started"
                  /\ (\A h \in Numbered(d) : h < k /\ stream[d][h].call = n => stream[d][h].node # "started")
                => stream[d][k].jid < stream[c][i].jid
             /\ stream[d][k].node = "ended" => stream[c][i].jid < stream[d][k].jid
  <2>1. /\ LogIn(left, base, c, stream[c][i])
        /\ StartedIn(left, base, d, k) /\ EndedIn(left, d, stream[d][k])
    BY <1>1 DEF Window
  <2>2. Looping(n) /\ base[n] < stream[c][i].jid
    BY <1>3, <2>1 DEF LogIn
  <2>3. ASSUME stream[d][k].node = "started",
               \A h \in Numbered(d) : h < k /\ stream[d][h].call = n => stream[d][h].node # "started"
        PROVE  stream[d][k].jid < stream[c][i].jid
    <3>1. \A h \in Numbered(d) : h \in Int
      <4>1. Len(stream[d]) \in Nat
        BY <1>2, LenProperties
      <4>2. QED
        BY <4>1 DEF Numbered
    <3>2. \A h \in Written(d, n, "started") : k <= h
      BY <2>3, <3>1 DEF Written
    <3>3. stream[d][k].jid = base[n]
      BY <1>3, <2>1, <2>2, <2>3, <3>2 DEF StartedIn
    <3>4. QED
      BY <2>2, <3>3
  <2>4. ASSUME stream[d][k].node = "ended"
        PROVE  stream[c][i].jid < stream[d][k].jid
    <3>1. i \in Written(c, n, "log")
      BY <1>3 DEF Written
    <3>2. QED
      BY <1>3, <2>1, <2>2, <2>4, <3>1 DEF EndedIn
  <2>5. QED
    BY <2>3, <2>4
<1>4. QED
  BY <1>3 DEF CallWindow

-----------------------------------------------------------------------------
(* The window of a message.                                                *)

\* When the logger does not print on the captured standard output, every rank is in its
\* phase of a call and the numbers of the streams lie in their windows, in every state.
THEOREM WindowInvariance ==
  ASSUME ~LogsToStdout
  PROVE  Spec => []WInv
<1>1. Init => WInv
  BY InitWindow
<1>2. WInv /\ [Next]_vars => WInv'
  BY NextWindow
<1>3. QED
  BY <1>1, <1>2, PTL DEF Spec

\* A message that is logged in a point, on whatever communicator and by whatever root, is
\* numbered after the started node of that point and before every ended node of its call:
\* a reader that goes by the numbers shows the message inside the point it was logged in.
THEOREM CallWindowTheorem ==
  ASSUME ~LogsToStdout
  PROVE  Spec => []CallWindow
<1>1. WInv => CallWindow
  BY Windowed
<1>2. QED
  BY <1>1, WindowInvariance, PTL
===============================================================================
