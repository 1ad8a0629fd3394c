--------------------------- MODULE UnitTestsProofs ---------------------------
(***************************************************************************)
(* What TLAPS proves of UnitTests, for every size of the communicator and  *)
(* every list of tests.                                                    *)
(*                                                                         *)
(* The ranks pack the same list without a message, each at its own pace.   *)
(* The inductive invariant therefore says that there is one history of     *)
(* plans, the turns of the loop as one rank would take them for everybody, *)
(* and that every rank stands at a plan of its own in it.  What is true of *)
(* all plans of a history is part of the invariant and is extended with    *)
(* the history, when the foremost rank takes a turn nobody has taken       *)
(* before: that does the work of an induction on the number of turns.      *)
(***************************************************************************)
EXTENDS UnitTests, FunctionTheorems, FiniteSetTheorems, SequenceTheorems, TLAPS

\* What a batch holds: the part every rank has been given.
Places == [Ranks -> Part \cup {NoTest}]

Plan == [left : Seq(Tests), it : Nat, buffer : 0 .. Size, place : Places, closed : Places]

NoPlaces == [r \in Ranks |-> NoTest]

FirstPlan(s) == [left |-> s, it |-> 1, buffer |-> 0, place |-> NoPlaces, closed |-> NoPlaces]

\* EndTurn for all ranks at once; `closed` is the batch this turn has filled.
Batch(left, i, buffer, place) ==
  IF buffer + SmallestLeft(left) > Size
  THEN [left |-> left, it |-> i, buffer |-> 0, place |-> NoPlaces, closed |-> place]
  ELSE [left |-> left, it |-> i, buffer |-> buffer, place |-> place, closed |-> NoPlaces]

Position(p) == IF p.it = Len(p.left) + 1 THEN 1 ELSE p.it

PartOf(p, t) == [test |-> t, start |-> p.buffer, end |-> p.buffer + Cores[t]]

Given(p, t) ==
  [r \in Ranks |-> IF r \in p.buffer .. ((p.buffer + Cores[t]) - 1) THEN PartOf(p, t) ELSE p.place[r]]

\* Ignore, Take or PassOver.
Turn(p) ==
  LET i == Position(p)
      t == p.left[i]
  IN  IF Cores[t] > Size THEN Batch(Without(p.left, i), i, p.buffer, p.place)
      ELSE IF p.buffer + Cores[t] <= Size
      THEN Batch(Without(p.left, i), i, p.buffer + Cores[t], Given(p, t))
      ELSE Batch(p.left, i + 1, p.buffer, p.place)

\* The tests of a list.
Remaining(s) == {s[i] : i \in 1 .. Len(s)}

Distinct(s) == \A i, j \in 1 .. Len(s) : s[i] = s[j] => i = j

\* The ranks given to a test are all of its ranks, and as many as it asks for.
Layout(q) ==
  \A r \in Ranks : q[r] # NoTest =>
    /\ r \in Members(q[r])
    /\ q[r].end - q[r].start = Cores[q[r].test]
    /\ \A s \in Members(q[r]) : q[s] = q[r]
    /\ \A s \in Ranks : q[s].test = q[r].test => q[s] = q[r]

\* The ranks of a batch are given out from the first on, and a test that has been
\* given ranks is not left.
PlanOK(p) ==
  /\ p.it \in 1 .. (Len(p.left) + 1)
  /\ Distinct(p.left)
  /\ p.left = << >> => p.buffer = 0
  /\ Layout(p.place) /\ Layout(p.closed)
  /\ \A r \in Ranks : p.place[r] # NoTest =>
       p.place[r].end <= p.buffer /\ p.place[r].test \notin Remaining(p.left)
  /\ \A r \in Ranks : p.closed[r] # NoTest =>
       p.place = NoPlaces /\ p.closed[r].test \notin Remaining(p.left)

\* Test t is not given ranks after plan p.
Over(t, p) == t \notin Remaining(p.left) /\ \A r \in Ranks : p.place[r].test # t

\* Test t is somewhere at the k-th plan.
Accounted(h, k, t) ==
  \/ t \in Remaining(h[k].left)
  \/ Cores[t] \notin 1 .. Size
  \/ \E r \in Ranks : h[k].place[r].test = t
  \/ \E j \in 1 .. k : \E r \in Ranks : h[j].closed[r].test = t

History(h) ==
  /\ Len(h) > 0
  /\ \A k \in 1 .. Len(h) : PlanOK(h[k])
  /\ \A k \in 2 .. Len(h) : h[k - 1].left # << >> /\ h[k] = Turn(h[k - 1])
  /\ \A k \in 1 .. Len(h), t \in Tests : Accounted(h, k, t)
  /\ \A j, k \in 1 .. Len(h) : \A r \in Ranks :
       j <= k /\ h[j].closed[r] # NoTest =>
         /\ Over(h[j].closed[r].test, h[k])
         /\ j < k => \A s \in Ranks : h[k].closed[s].test # h[j].closed[r].test

\* Rank r is where plan p says.
StandsAt(r, p) ==
  /\ tests[r] = p.left /\ it[r] = p.it /\ currentBuffer[r] = p.buffer
  /\ pc[r] \in {"creating", "testing", "threw"} => mine[r] = p.closed[r] /\ mine[r] # NoTest
  /\ pc[r] \in {"packing", "barrier", "done"} => mine[r] = p.place[r]
  /\ pc[r] \in {"barrier", "done"} => p.left = << >>

\* Rank r has left the creation of its group at the m-th plan, if it has one there.
Past(r, n, m) == n[r] > m \/ (n[r] = m /\ pc[r] # "creating")

\* The members of a group leave its creation together.
Together(h, n) ==
  \A m \in 1 .. Len(h) : \A r \in Ranks : h[m].closed[r] # NoTest =>
    \A s \in Members(h[m].closed[r]) : Past(r, n, m) <=> Past(s, n, m)

Started(h, n) ==
  {t \in Tests : \E m \in 1 .. Len(h) : \E r \in Ranks : h[m].closed[r].test = t /\ Past(r, n, m)}

Follows(h, n) ==
  /\ \A r \in Ranks : StandsAt(r, h[n[r]])
  /\ Together(h, n)
  /\ begun = Started(h, n)

Typed ==
  /\ tests \in [Ranks -> Seq(Tests)]
  /\ it \in [Ranks -> Nat]
  /\ currentBuffer \in [Ranks -> 0 .. Size]
  /\ mine \in Places
  /\ pc \in [Ranks -> {"packing", "creating", "testing", "threw", "barrier", "done"}]

IInv ==
  /\ Typed
  /\ \E h \in Seq(Plan) : History(h) /\ \E n \in [Ranks -> 1 .. Len(h)] : Follows(h, n)


-----------------------------------------------------------------------------
(* Plans.                                                                  *)

\* Taking one element out of a sequence moves up the ones after it.
LEMMA WithoutElements ==
  ASSUME NEW S, NEW s \in Seq(S), NEW i \in 1 .. Len(s)
  PROVE  /\ Without(s, i) \in Seq(S)
         /\ Len(Without(s, i)) = Len(s) - 1
         /\ \A j \in 1 .. (Len(s) - 1) : Without(s, i)[j] = IF j < i THEN s[j] ELSE s[j + 1]
<1> DEFINE a == SubSeq(s, 1, i - 1)
           b == SubSeq(s, i + 1, Len(s))
<1>1. Len(s) \in Nat /\ i \in Int /\ 1 <= i /\ i <= Len(s)
  BY LenProperties
<1>2. /\ a \in Seq(S)
      /\ Len(a) = i - 1
      /\ \A j \in 1 .. (i - 1) : a[j] = s[j]
  <2>1. \A j \in 1 .. (i - 1) : s[j] \in S
    BY <1>1, ElementOfSeq
  <2>2. /\ SubSeq(s, 1, i - 1) \in Seq(S)
        /\ Len(SubSeq(s, 1, i - 1)) = IF 1 <= i - 1 THEN i - 1 - 1 + 1 ELSE 0
        /\ \A j \in 1 .. (i - 1 - 1 + 1) : SubSeq(s, 1, i - 1)[j] = s[1 + j - 1]
    BY <1>1, <2>1, SubSeqProperties, 1 \in Int, i - 1 \in Int
  <2>3. QED
    BY <1>1, <2>2
<1>3. /\ b \in Seq(S)
      /\ Len(b) = Len(s) - i
      /\ \A j \in 1 .. (Len(s) - i) : b[j] = s[i + j]
  <2>1. \A j \in (i + 1) .. Len(s) : s[j] \in S
    BY <1>1, ElementOfSeq
  <2>2. /\ SubSeq(s, i + 1, Len(s)) \in Seq(S)
        /\ Len(SubSeq(s, i + 1, Len(s))) = IF i + 1 <= Len(s) THEN Len(s) - (i + 1) + 1 ELSE 0
        /\ \A j \in 1 .. (Len(s) - (i + 1) + 1) : SubSeq(s, i + 1, Len(s))[j] = s[i + 1 + j - 1]
    BY <1>1, <2>1, SubSeqProperties, i + 1 \in Int, Len(s) \in Int
  <2>3. QED
    BY <1>1, <2>2
<1> HIDE DEF a, b
<1>4. /\ a \o b \in Seq(S)
      /\ Len(a \o b) = Len(a) + Len(b)
      /\ \A j \in 1 .. (Len(a) + Len(b)) :
           (a \o b)[j] = IF j <= Len(a) THEN a[j] ELSE b[j - Len(a)]
  BY <1>2, <1>3, ConcatProperties
<1>5. Without(s, i) = a \o b
  BY DEF Without, a, b
<1>6. ASSUME NEW j \in 1 .. (Len(s) - 1)
      PROVE  (a \o b)[j] = IF j < i THEN s[j] ELSE s[j + 1]
  <2>1. CASE j < i
    BY <1>1, <1>2, <1>3, <1>4, <2>1
  <2>2. CASE ~(j < i)
    <3>1. j - (i - 1) \in 1 .. (Len(s) - i) /\ i + (j - (i - 1)) = j + 1
      BY <1>1, <2>2
    <3>2. (a \o b)[j] = b[j - (i - 1)]
      BY <1>1, <1>2, <1>3, <1>4, <2>2
    <3>3. b[j - (i - 1)] = s[i + (j - (i - 1))]
      BY <1>3, <3>1
    <3>4. QED
      BY <2>2, <3>1, <3>2, <3>3
  <2>3. QED
    BY <2>1, <2>2
<1>7. Len(a \o b) = Len(s) - 1
  BY <1>1, <1>2, <1>3, <1>4
<1>8. QED
  BY <1>4, <1>5, <1>6, <1>7

\* In a list without repetitions exactly that element is gone.
LEMMA WithoutRemaining ==
  ASSUME NEW S, NEW s \in Seq(S), NEW i \in 1 .. Len(s), Distinct(s)
  PROVE  /\ Distinct(Without(s, i))
         /\ Remaining(Without(s, i)) = Remaining(s) \ {s[i]}
<1> DEFINE w == Without(s, i)
           n == Len(s)
<1>1. n \in Nat /\ Len(w) = n - 1 /\ \A j \in 1 .. (n - 1) : w[j] = IF j < i THEN s[j] ELSE s[j + 1]
  BY WithoutElements, LenProperties
<1>2. \A j, k \in 1 .. n : s[j] = s[k] => j = k
  BY DEF Distinct
<1> HIDE DEF w, n
<1>3. i \in 1 .. n
  BY DEF n
<1>4. ASSUME NEW j \in 1 .. (n - 1), NEW k \in 1 .. (n - 1), w[j] = w[k]
      PROVE  j = k
  BY <1>1, <1>2, <1>3, <1>4
<1>5. ASSUME NEW j \in 1 .. (n - 1)
      PROVE  \E k \in 1 .. n : w[j] = s[k] /\ k # i
  <2>1. CASE j < i
    BY <1>1, <1>3, <2>1
  <2>2. CASE ~(j < i)
    <3>1. j + 1 \in 1 .. n /\ j + 1 # i /\ w[j] = s[j + 1]
      BY <1>1, <1>3, <2>2
    <3>2. QED
      BY <3>1
  <2>3. QED
    BY <2>1, <2>2
<1>6. ASSUME NEW k \in 1 .. n, k # i
      PROVE  \E j \in 1 .. (n - 1) : w[j] = s[k]
  <2>1. CASE k < i
    <3>1. k \in 1 .. (n - 1) /\ w[k] = s[k]
      BY <1>1, <1>3, <2>1
    <3>2. QED
      BY <3>1
  <2>2. CASE ~(k < i)
    <3>1. k - 1 \in 1 .. (n - 1) /\ ~(k - 1 < i) /\ k - 1 + 1 = k
      BY <1>1, <1>3, <1>6, <2>2
    <3>2. w[k - 1] = s[k]
      BY <1>1, <3>1
    <3>3. QED
      BY <3>1, <3>2
  <2>3. QED
    BY <2>1, <2>2
<1>7. Distinct(w)
  BY <1>1, <1>4 DEF Distinct
<1>8. Remaining(w) = Remaining(s) \ {s[i]}
  <2>1. Remaining(w) = {w[j] : j \in 1 .. (n - 1)}
    BY <1>1 DEF Remaining
  <2>2. Remaining(s) = {s[k] : k \in 1 .. n}
    BY DEF Remaining, n
  <2>3. QED
    BY <1>2, <1>3, <1>5, <1>6, <2>1, <2>2
<1>9. QED
  BY <1>7, <1>8 DEF w

\* An empty list fills the batch.
LEMMA SmallestLeftType ==
  ASSUME NEW left \in Seq(Tests)
  PROVE  SmallestLeft(left) \in Nat /\ (left = << >> => SmallestLeft(left) = Size)
<1>1. CASE left = << >>
  BY <1>1, SizeAssumption DEF SmallestLeft
<1>2. CASE left # << >>
  <2>1. Len(left) \in 1 .. Len(left)
    BY <1>2, EmptySeq, LenProperties
  <2>2. left[Len(left)] \in Tests
    BY <2>1, ElementOfSeq
  <2>3. QED
    BY <1>2, <2>2, TestsAssumption DEF SmallestLeft
<1>3. QED
  BY <1>1, <1>2

\* The markers of no test are not tests.
LEMMA NoTestIsNoPart == NoTest \notin Part /\ None \notin Tests
BY TestsAssumption, SizeAssumption DEF NoTest, Part, Ranks

\* An empty batch is a layout.
LEMMA NoPlacesLayout == NoPlaces \in Places /\ Layout(NoPlaces)
BY DEF NoPlaces, Places, Layout

\* The end of a turn leaves a plan that is well formed.
LEMMA BatchOK ==
  ASSUME NEW left \in Seq(Tests), NEW i \in 1 .. (Len(left) + 1),
         NEW buffer \in 0 .. Size, NEW place \in Places,
         Distinct(left), Layout(place),
         \A r \in Ranks : place[r] # NoTest =>
           place[r].end <= buffer /\ place[r].test \notin Remaining(left)
  PROVE  Batch(left, i, buffer, place) \in Plan /\ PlanOK(Batch(left, i, buffer, place))
<1> DEFINE b == Batch(left, i, buffer, place)
<1>1. SmallestLeft(left) \in Nat /\ (left = << >> => SmallestLeft(left) = Size)
  BY SmallestLeftType
<1>2. i \in Nat /\ 0 \in 0 .. Size
  BY SizeAssumption, LenProperties
<1>3. CASE buffer + SmallestLeft(left) > Size
  <2>1. b = [left |-> left, it |-> i, buffer |-> 0, place |-> NoPlaces, closed |-> place]
    BY <1>3 DEF Batch
  <2>2. b \in Plan
    BY <1>2, <2>1, NoPlacesLayout DEF Plan
  <2>3. PlanOK(b)
    BY <2>1, NoPlacesLayout DEF PlanOK, NoPlaces
  <2>4. QED
    BY <2>2, <2>3
<1>4. CASE ~(buffer + SmallestLeft(left) > Size)
  <2>1. b = [left |-> left, it |-> i, buffer |-> buffer, place |-> place, closed |-> NoPlaces]
    BY <1>4 DEF Batch
  <2>2. b \in Plan
    BY <1>2, <2>1, NoPlacesLayout DEF Plan
  <2>3. left = << >> => buffer = 0
    BY <1>1, <1>4, SizeAssumption
  <2>4. PlanOK(b)
    BY <2>1, <2>3, NoPlacesLayout DEF PlanOK, NoPlaces
  <2>5. QED
    BY <2>2, <2>4
<1>5. QED
  BY <1>3, <1>4

\* The next ranks that are free are given to test t.
LEMMA GivenOK ==
  ASSUME NEW p \in Plan, PlanOK(p), NEW t \in Remaining(p.left), p.buffer + Cores[t] <= Size
  PROVE  /\ Given(p, t) \in Places
         /\ Layout(Given(p, t))
         /\ \A r \in Ranks : p.place[r] # NoTest => Given(p, t)[r] = p.place[r]
         /\ \A r \in Ranks : Given(p, t)[r] = p.place[r] \/ Given(p, t)[r] = PartOf(p, t)
         /\ \A r \in Ranks : Given(p, t)[r] # NoTest =>
              /\ Given(p, t)[r].end <= p.buffer + Cores[t]
              /\ Given(p, t)[r].test \notin Remaining(p.left) \ {t}
         /\ Cores[t] # 0 => \E r \in Ranks : Given(p, t)[r].test = t
<1> DEFINE q == p.place
           g == Given(p, t)
           n == PartOf(p, t)
           new == p.buffer .. ((p.buffer + Cores[t]) - 1)
<1>1. /\ q \in Places /\ p.buffer \in 0 .. Size /\ Layout(q)
      /\ p.left \in Seq(Tests)
      /\ \A r \in Ranks : q[r] # NoTest => q[r].end <= p.buffer /\ q[r].test \notin Remaining(p.left)
  BY DEF Plan, PlanOK
<1>2. t \in Tests /\ Cores[t] \in Nat
  <2>1. PICK i \in 1 .. Len(p.left) : t = p.left[i]
    BY DEF Remaining
  <2>2. t \in Tests
    BY <1>1, <2>1, ElementOfSeq
  <2>3. QED
    BY <2>2, TestsAssumption
<1>3. /\ g \in [Ranks -> Part \cup {NoTest, n}]
      /\ \A r \in Ranks : g[r] = IF r \in new THEN n ELSE q[r]
  BY <1>1 DEF Given, Places
<1>4. n.test = t /\ n.start = p.buffer /\ n.end = p.buffer + Cores[t] /\ n # NoTest
  BY <1>2, NoTestIsNoPart DEF PartOf, NoTest
<1>5. Members(n) = new
  BY DEF Members, PartOf
<1>6. \A r \in new : r \in Ranks
  BY <1>1, <1>2, SizeAssumption DEF Ranks
<1>7. Cores[t] # 0 => n \in Part /\ p.buffer \in new
  BY <1>1, <1>2, SizeAssumption DEF PartOf, Part, Ranks
<1>8. \A r \in Ranks : r \in new => Cores[t] # 0
  BY <1>1, <1>2
<1>9. g \in Places
  BY <1>1, <1>3, <1>7, <1>8 DEF Places
<1>10. \A r \in Ranks : q[r] # NoTest => q[r] \in Part /\ \A s \in Members(q[r]) : s \in Ranks /\ s \notin new
  <2> SUFFICES ASSUME NEW r \in Ranks, q[r] # NoTest
               PROVE  q[r] \in Part /\ \A s \in Members(q[r]) : s \in Ranks /\ s \notin new
    OBVIOUS
  <2>1. q[r] \in Part
    BY <1>1 DEF Places
  <2>2. q[r].start \in Ranks /\ q[r].end \in 1 .. Size /\ q[r].end <= p.buffer
    BY <1>1, <2>1 DEF Part
  <2>3. QED
    BY <1>1, <1>2, <2>1, <2>2, SizeAssumption, SMTT(30) DEF Members, Ranks
<1>11. \A r \in Ranks : q[r] # NoTest => r \notin new
  BY <1>1, <1>10 DEF Layout
<1>12. \A r \in Ranks : q[r].test # t
  BY <1>1, <1>2, NoTestIsNoPart DEF NoTest
<1> HIDE DEF q, g, n, new
<1>13. Layout(g)
  <2> SUFFICES ASSUME NEW r \in Ranks, g[r] # NoTest
               PROVE  /\ r \in Members(g[r])
                      /\ g[r].end - g[r].start = Cores[g[r].test]
                      /\ \A s \in Members(g[r]) : g[s] = g[r]
                      /\ \A s \in Ranks : g[s].test = g[r].test => g[s] = g[r]
    BY DEF Layout
  <2>1. CASE r \in new
    <3>1. g[r] = n
      BY <1>3, <2>1
    <3>2. n.end - n.start = Cores[n.test]
      BY <1>1, <1>2, <1>4
    <3>3. \A s \in Members(n) : g[s] = n
      BY <1>3, <1>5, <1>6
    <3>4. \A s \in Ranks : g[s].test = n.test => g[s] = n
      BY <1>3, <1>4, <1>12
    <3>5. QED
      BY <1>5, <2>1, <3>1, <3>2, <3>3, <3>4
  <2>2. CASE r \notin new
    <3>1. g[r] = q[r] /\ q[r] # NoTest
      BY <1>3, <2>2
    <3>2. \A s \in Members(q[r]) : g[s] = q[s]
      BY <1>3, <1>10, <3>1
    <3>3. \A s \in Ranks : g[s].test = q[r].test => g[s] = q[s]
      BY <1>3, <1>4, <1>12
    <3>4. QED
      BY <1>1, <3>1, <3>2, <3>3 DEF Layout
  <2>3. QED
    BY <2>1, <2>2
<1>14. \A r \in Ranks : g[r] # NoTest =>
         g[r].end <= p.buffer + Cores[t] /\ g[r].test \notin Remaining(p.left) \ {t}
  <2> SUFFICES ASSUME NEW r \in Ranks, g[r] # NoTest
               PROVE  g[r].end <= p.buffer + Cores[t] /\ g[r].test \notin Remaining(p.left) \ {t}
    OBVIOUS
  <2>1. CASE r \in new
    BY <1>1, <1>2, <1>3, <1>4, <2>1
  <2>2. CASE r \notin new
    <3>1. q[r] # NoTest /\ g[r] = q[r]
      BY <1>3, <2>2
    <3>2. q[r].end \in 1 .. Size /\ q[r].end <= p.buffer
      BY <1>1, <1>10, <3>1 DEF Part
    <3>3. q[r].end <= p.buffer + Cores[t]
      BY <1>1, <1>2, <3>2
    <3>4. QED
      BY <1>1, <3>1, <3>3
  <2>3. QED
    BY <2>1, <2>2
<1>15. \A r \in Ranks : (q[r] # NoTest => g[r] = q[r]) /\ (g[r] = q[r] \/ g[r] = n)
  BY <1>3, <1>11
<1>16. Cores[t] # 0 => \E r \in Ranks : g[r].test = t
  BY <1>3, <1>4, <1>6, <1>7
<1>17. QED
  BY <1>9, <1>13, <1>14, <1>15, <1>16 DEF q, g, n

\* A turn: what is left, what the batch holds, and what became of the test it looked at.
LEMMA TurnParts ==
  ASSUME NEW p \in Plan, PlanOK(p), p.left # << >>
  PROVE  \E left \in Seq(Tests) : \E i \in 1 .. (Len(left) + 1), buffer \in 0 .. Size, place \in Places :
           /\ Turn(p) = Batch(left, i, buffer, place)
           /\ Distinct(left) /\ Remaining(left) \subseteq Remaining(p.left)
           /\ Layout(place)
           /\ \A r \in Ranks : place[r] # NoTest =>
                place[r].end <= buffer /\ place[r].test \notin Remaining(left)
           /\ \A r \in Ranks : p.place[r] # NoTest => place[r] = p.place[r]
           /\ \A r \in Ranks : place[r] = p.place[r] \/ place[r].test \in Remaining(p.left)
           /\ \A t \in Remaining(p.left) :
                \/ t \in Remaining(left)
                \/ Cores[t] \notin 1 .. Size
                \/ \E r \in Ranks : place[r].test = t
<1> DEFINE i == Position(p)
           t == p.left[i]
           w == Without(p.left, i)
<1>1. /\ p.left \in Seq(Tests) /\ p.it \in 1 .. (Len(p.left) + 1) /\ p.buffer \in 0 .. Size
      /\ p.place \in Places /\ Layout(p.place) /\ Distinct(p.left)
      /\ \A r \in Ranks : p.place[r] # NoTest =>
           p.place[r].end <= p.buffer /\ p.place[r].test \notin Remaining(p.left)
  BY DEF Plan, PlanOK
<1>2. Len(p.left) \in Nat /\ Len(p.left) > 0
  BY <1>1, LenProperties, EmptySeq
<1>3. i \in 1 .. Len(p.left)
  BY <1>1, <1>2 DEF Position
<1>4. t \in Remaining(p.left) /\ t \in Tests
  BY <1>1, <1>3, ElementOfSeq DEF Remaining
<1>5. Cores[t] \in Nat
  BY <1>4, TestsAssumption
<1>6. /\ w \in Seq(Tests) /\ Len(w) = Len(p.left) - 1
      /\ Distinct(w) /\ Remaining(w) = Remaining(p.left) \ {t}
  BY <1>1, <1>3, WithoutElements, WithoutRemaining
<1>7. i \in 1 .. (Len(w) + 1)
  BY <1>2, <1>3, <1>6
<1>8. Turn(p) = IF Cores[t] > Size THEN Batch(w, i, p.buffer, p.place)
                ELSE IF p.buffer + Cores[t] <= Size THEN Batch(w, i, p.buffer + Cores[t], Given(p, t))
                ELSE Batch(p.left, i + 1, p.buffer, p.place)
  BY DEF Turn
<1> HIDE DEF i, t, w
<1>9. CASE Cores[t] > Size
  <2>1. Turn(p) = Batch(w, i, p.buffer, p.place)
    BY <1>8, <1>9
  <2>2. Cores[t] \notin 1 .. Size
    BY <1>5, <1>9, SizeAssumption
  <2>3. QED
    BY <1>1, <1>6, <1>7, <2>1, <2>2
<1>10. CASE ~(Cores[t] > Size) /\ p.buffer + Cores[t] <= Size
  <2> DEFINE g == Given(p, t)
  <2>1. Turn(p) = Batch(w, i, p.buffer + Cores[t], g)
    BY <1>8, <1>10
  <2>2. p.buffer + Cores[t] \in 0 .. Size
    BY <1>1, <1>5, <1>10, SizeAssumption
  <2>3. /\ g \in Places /\ Layout(g)
        /\ \A r \in Ranks : p.place[r] # NoTest => g[r] = p.place[r]
        /\ \A r \in Ranks : g[r] = p.place[r] \/ g[r] = PartOf(p, t)
        /\ \A r \in Ranks : g[r] # NoTest =>
             g[r].end <= p.buffer + Cores[t] /\ g[r].test \notin Remaining(p.left) \ {t}
        /\ Cores[t] # 0 => \E r \in Ranks : g[r].test = t
    BY <1>4, <1>10, GivenOK
  <2>4. PartOf(p, t).test = t
    BY DEF PartOf
  <2>5. Cores[t] = 0 => Cores[t] \notin 1 .. Size
    BY SizeAssumption
  <2> HIDE DEF g
  <2>6. \A r \in Ranks : g[r] = p.place[r] \/ g[r].test \in Remaining(p.left)
    BY <1>4, <2>3, <2>4
  <2>7. \A u \in Remaining(p.left) :
          u \in Remaining(w) \/ Cores[u] \notin 1 .. Size \/ \E r \in Ranks : g[r].test = u
    BY <1>6, <2>3, <2>5
  <2>8. \A r \in Ranks : g[r] # NoTest =>
          g[r].end <= p.buffer + Cores[t] /\ g[r].test \notin Remaining(w)
    BY <1>6, <2>3
  <2>9. QED
    BY <1>6, <1>7, <2>1, <2>2, <2>3, <2>6, <2>7, <2>8
<1>11. CASE ~(Cores[t] > Size) /\ ~(p.buffer + Cores[t] <= Size)
  <2>1. Turn(p) = Batch(p.left, i + 1, p.buffer, p.place)
    BY <1>8, <1>11
  <2>2. i + 1 \in 1 .. (Len(p.left) + 1)
    BY <1>2, <1>3
  <2>3. QED
    BY <1>1, <2>1, <2>2
<1>12. QED
  BY <1>9, <1>10, <1>11

\* A turn leaves a well formed plan; a test it does not hold any more has been given
\* ranks in this turn's batch, or cannot be.
LEMMA TurnOK ==
  ASSUME NEW p \in Plan, PlanOK(p), p.left # << >>
  PROVE  LET q == Turn(p)
         IN  /\ q \in Plan /\ PlanOK(q)
             /\ \A t \in Tests : Over(t, p) =>
                  Over(t, q) /\ \A r \in Ranks : q.closed[r].test # t
             /\ \A t \in Tests :
                  t \in Remaining(p.left) \/ (\E r \in Ranks : p.place[r].test = t) =>
                    \/ t \in Remaining(q.left)
                    \/ Cores[t] \notin 1 .. Size
                    \/ \E r \in Ranks : q.place[r].test = t \/ q.closed[r].test = t
<1> DEFINE q == Turn(p)
<1>1. PICK left \in Seq(Tests) : \E i \in 1 .. (Len(left) + 1), buffer \in 0 .. Size, place \in Places :
           /\ q = Batch(left, i, buffer, place)
           /\ Distinct(left) /\ Remaining(left) \subseteq Remaining(p.left)
           /\ Layout(place)
           /\ \A r \in Ranks : place[r] # NoTest =>
                place[r].end <= buffer /\ place[r].test \notin Remaining(left)
           /\ \A r \in Ranks : p.place[r] # NoTest => place[r] = p.place[r]
           /\ \A r \in Ranks : place[r] = p.place[r] \/ place[r].test \in Remaining(p.left)
           /\ \A t \in Remaining(p.left) :
                \/ t \in Remaining(left)
                \/ Cores[t] \notin 1 .. Size
                \/ \E r \in Ranks : place[r].test = t
  BY TurnParts
<1>2. PICK i \in 1 .. (Len(left) + 1), buffer \in 0 .. Size, place \in Places :
           /\ q = Batch(left, i, buffer, place)
           /\ Distinct(left) /\ Remaining(left) \subseteq Remaining(p.left)
           /\ Layout(place)
           /\ \A r \in Ranks : place[r] # NoTest =>
                place[r].end <= buffer /\ place[r].test \notin Remaining(left)
           /\ \A r \in Ranks : p.place[r] # NoTest => place[r] = p.place[r]
           /\ \A r \in Ranks : place[r] = p.place[r] \/ place[r].test \in Remaining(p.left)
           /\ \A t \in Remaining(p.left) :
                \/ t \in Remaining(left)
                \/ Cores[t] \notin 1 .. Size
                \/ \E r \in Ranks : place[r].test = t
  BY <1>1
<1> HIDE DEF q
<1>3. q \in Plan /\ PlanOK(q)
  BY <1>2, BatchOK
<1>4. /\ q.left = left
      /\ \/ q.place = place /\ q.closed = NoPlaces
         \/ q.place = NoPlaces /\ q.closed = place
  BY <1>2 DEF Batch
<1>5. \A r \in Ranks : NoPlaces[r] = NoTest /\ NoTest.test = None
  BY DEF NoPlaces, NoTest
<1>6. ASSUME NEW t \in Tests, Over(t, p)
      PROVE  Over(t, q) /\ \A r \in Ranks : q.closed[r].test # t
  <2>1. \A r \in Ranks : place[r].test # t
    BY <1>2, <1>6 DEF Over
  <2>2. t # None
    BY TestsAssumption
  <2>3. t \notin Remaining(left)
    BY <1>2, <1>6 DEF Over
  <2>4. QED
    BY <1>4, <1>5, <2>1, <2>2, <2>3 DEF Over
<1>7. ASSUME NEW t \in Tests,
             t \in Remaining(p.left) \/ (\E r \in Ranks : p.place[r].test = t)
      PROVE  \/ t \in Remaining(q.left)
             \/ Cores[t] \notin 1 .. Size
             \/ \E r \in Ranks : q.place[r].test = t \/ q.closed[r].test = t
  <2>1. (\E r \in Ranks : p.place[r].test = t) => \E r \in Ranks : place[r].test = t
    BY <1>2, <1>5, TestsAssumption
  <2>2. \/ t \in Remaining(left)
        \/ Cores[t] \notin 1 .. Size
        \/ \E r \in Ranks : place[r].test = t
    BY <1>2, <1>7, <2>1
  <2>3. QED
    BY <1>4, <2>2
<1>8. QED
  BY <1>3, <1>6, <1>7 DEF q

-----------------------------------------------------------------------------
(* Histories.                                                              *)

\* The elements of a history are plans.
LEMMA PlanOfHistory ==
  ASSUME NEW h \in Seq(Plan), NEW k \in 1 .. Len(h)
  PROVE  h[k] \in Plan
BY ElementOfSeq

\* The history can go on after its last plan as long as there are tests left.
LEMMA LongerHistory ==
  ASSUME NEW h \in Seq(Plan), History(h), h[Len(h)].left # << >>
  PROVE  Append(h, Turn(h[Len(h)])) \in Seq(Plan) /\ History(Append(h, Turn(h[Len(h)])))
<1> DEFINE l == Len(h)
           p == h[l]
           q == Turn(p)
           g == Append(h, q)
<1>1. l \in Nat /\ l > 0
  BY LenProperties DEF History
<1>2. p \in Plan /\ PlanOK(p) /\ p.left # << >>
  BY <1>1, PlanOfHistory DEF History
<1>3. /\ q \in Plan /\ PlanOK(q)
      /\ \A t \in Tests : Over(t, p) => Over(t, q) /\ \A r \in Ranks : q.closed[r].test # t
      /\ \A t \in Tests :
           t \in Remaining(p.left) \/ (\E r \in Ranks : p.place[r].test = t) =>
             \/ t \in Remaining(q.left)
             \/ Cores[t] \notin 1 .. Size
             \/ \E r \in Ranks : q.place[r].test = t \/ q.closed[r].test = t
  BY <1>2, TurnOK
<1> HIDE DEF q
<1>4. /\ g \in Seq(Plan) /\ Len(g) = l + 1 /\ g[l + 1] = q
      /\ \A k \in 1 .. l : g[k] = h[k]
  BY <1>3, AppendProperties
<1> HIDE DEF g
<1>5. \A k \in 1 .. (l + 1) : k \in 1 .. l \/ k = l + 1
  BY <1>1
<1>6. \A k \in 1 .. Len(g) : PlanOK(g[k])
  BY <1>3, <1>4, <1>5 DEF History
<1>7. ASSUME NEW k \in 2 .. Len(g)
      PROVE  g[k - 1].left # << >> /\ g[k] = Turn(g[k - 1])
  <2>1. CASE k \in 2 .. l
    <3>1. k - 1 \in 1 .. l /\ k \in 1 .. l
      BY <1>1, <2>1
    <3>2. QED
      BY <1>4, <2>1, <3>1 DEF History
  <2>2. CASE k = l + 1
    <3>1. k - 1 = l /\ l \in 1 .. l
      BY <1>1, <2>2
    <3>2. QED
      BY <1>2, <1>4, <2>2, <3>1 DEF q
  <2>3. QED
    BY <1>1, <1>4, <2>1, <2>2
<1>8. ASSUME NEW k \in 1 .. l, NEW t \in Tests
      PROVE  Accounted(g, k, t)
  <2>1. Accounted(h, k, t)
    BY DEF History
  <2>2. g[k] = h[k] /\ \A j \in 1 .. k : g[j] = h[j]
    BY <1>1, <1>4
  <2>3. QED
    BY <2>1, <2>2 DEF Accounted
<1>9. ASSUME NEW t \in Tests
      PROVE  Accounted(g, l + 1, t)
  <2>1. Accounted(h, l, t) /\ l \in 1 .. l
    BY <1>1 DEF History
  <2>2. CASE t \in Remaining(p.left) \/ (\E r \in Ranks : p.place[r].test = t)
    <3>1. \/ t \in Remaining(q.left)
          \/ Cores[t] \notin 1 .. Size
          \/ \E r \in Ranks : q.place[r].test = t \/ q.closed[r].test = t
      BY <1>3, <2>2
    <3>2. l + 1 \in 1 .. (l + 1)
      BY <1>1
    <3>3. QED
      BY <1>4, <3>1, <3>2 DEF Accounted
  <2>3. CASE Cores[t] \notin 1 .. Size
    BY <2>3 DEF Accounted
  <2>4. CASE \E j \in 1 .. l : \E r \in Ranks : h[j].closed[r].test = t
    <3>1. \A j \in 1 .. l : j \in 1 .. (l + 1) /\ g[j] = h[j]
      BY <1>1, <1>4
    <3>2. QED
      BY <2>4, <3>1 DEF Accounted
  <2>5. QED
    BY <2>1, <2>2, <2>3, <2>4 DEF Accounted
<1>10. ASSUME NEW j \in 1 .. Len(g), NEW k \in 1 .. Len(g), NEW r \in Ranks,
              j <= k, g[j].closed[r] # NoTest
       PROVE  /\ Over(g[j].closed[r].test, g[k])
              /\ j < k => \A s \in Ranks : g[k].closed[s].test # g[j].closed[r].test
  <2>1. CASE k \in 1 .. l
    <3>1. j \in 1 .. l
      BY <1>1, <1>4, <1>10, <2>1
    <3>2. QED
      BY <1>4, <1>10, <2>1, <3>1 DEF History
  <2>2. CASE k = l + 1 /\ j \in 1 .. l
    <3> DEFINE t == h[j].closed[r].test
    <3>1. h[j].closed[r] # NoTest /\ h[j].closed[r] \in Part \cup {NoTest}
      BY <1>4, <1>10, <2>2, PlanOfHistory DEF Plan, Places
    <3>2. t \in Tests
      BY <3>1 DEF Part
    <3>3. Over(t, p)
      <4>1. l \in 1 .. l /\ j <= l
        BY <1>1, <2>2
      <4>2. QED
        BY <2>2, <3>1, <4>1 DEF History
    <3>4. Over(t, q) /\ \A s \in Ranks : q.closed[s].test # t
      BY <1>3, <3>2, <3>3
    <3>5. QED
      BY <1>4, <2>2, <3>4
  <2>3. CASE k = l + 1 /\ j = l + 1
    <3>1. q.closed[r] # NoTest /\ q.closed[r] \in Part \cup {NoTest}
      BY <1>3, <1>4, <1>10, <2>3 DEF Plan, Places
    <3>2. q.place = NoPlaces /\ q.closed[r].test \notin Remaining(q.left)
      BY <1>3, <3>1 DEF PlanOK
    <3>3. \A s \in Ranks : NoPlaces[s].test = None
      BY DEF NoPlaces, NoTest
    <3>4. q.closed[r].test # None
      BY <3>1, NoTestIsNoPart DEF Part
    <3>5. Over(q.closed[r].test, q)
      BY <3>2, <3>3, <3>4 DEF Over
    <3>6. ~(j < k)
      BY <1>1, <2>3
    <3>7. QED
      BY <1>4, <2>3, <3>5, <3>6
  <2>4. QED
    BY <1>4, <1>5, <2>1, <2>2, <2>3
<1>11. History(g)
  <2>1. Len(g) > 0
    BY <1>1, <1>4
  <2>2. \A k \in 1 .. Len(g), t \in Tests : Accounted(g, k, t)
    BY <1>4, <1>5, <1>8, <1>9
  <2>3. QED
    BY <1>6, <1>7, <1>10, <2>1, <2>2 DEF History
<1>12. QED
  BY <1>4, <1>11 DEF g, q, p, l

-----------------------------------------------------------------------------
(* A turn of one rank.                                                     *)

\* What a turn to plan q does on rank r.
Turned(r, q) ==
  /\ tests' = [tests EXCEPT ![r] = q.left]
  /\ it' = [it EXCEPT ![r] = q.it]
  /\ currentBuffer' = [currentBuffer EXCEPT ![r] = q.buffer]
  /\ mine' = [mine EXCEPT ![r] = IF q.closed[r] # NoTest THEN q.closed[r] ELSE q.place[r]]
  /\ pc' = IF q.closed[r] # NoTest THEN [pc EXCEPT ![r] = "creating"] ELSE pc
  /\ begun' = begun

\* EndTurn on rank r is what Batch does, as seen by rank r.
LEMMA EndTurnIsBatch ==
  ASSUME NEW r \in Ranks, NEW left, NEW i, NEW buffer, NEW place \in Places,
         EndTurn(r, left, buffer, place[r]), it' = [it EXCEPT ![r] = i], begun' = begun
  PROVE  Turned(r, Batch(left, i, buffer, place))
<1> DEFINE q == Batch(left, i, buffer, place)
<1>1. NoPlaces[r] = NoTest
  BY DEF NoPlaces
<1>2. CASE buffer + SmallestLeft(left) > Size
  <2>1. /\ q.left = left /\ q.it = i /\ q.buffer = 0
        /\ q.place = NoPlaces /\ q.closed = place
    BY <1>2 DEF Batch
  <2>2. /\ tests' = [tests EXCEPT ![r] = left]
        /\ mine' = [mine EXCEPT ![r] = place[r]]
        /\ currentBuffer' = [currentBuffer EXCEPT ![r] = 0]
        /\ pc' = IF place[r] # NoTest THEN [pc EXCEPT ![r] = "creating"] ELSE pc
    BY <1>2 DEF EndTurn
  <2> HIDE DEF q
  <2>3. Turned(r, q)
    BY <1>1, <2>1, <2>2 DEF Turned
  <2>4. QED
    BY <2>3 DEF q
<1>3. CASE ~(buffer + SmallestLeft(left) > Size)
  <2>1. /\ q.left = left /\ q.it = i /\ q.buffer = buffer
        /\ q.place = place /\ q.closed = NoPlaces
    BY <1>3 DEF Batch
  <2>2. /\ tests' = [tests EXCEPT ![r] = left]
        /\ mine' = [mine EXCEPT ![r] = place[r]]
        /\ currentBuffer' = [currentBuffer EXCEPT ![r] = buffer]
        /\ pc' = pc
    BY <1>3 DEF EndTurn
  <2> HIDE DEF q
  <2>3. Turned(r, q)
    BY <1>1, <2>1, <2>2 DEF Turned
  <2>4. QED
    BY <2>3 DEF q
<1>4. QED
  BY <1>2, <1>3

\* The three turns of the loop are the one turn of the plan.
LEMMA TurnOfRank ==
  ASSUME NEW p \in Plan, NEW r \in Ranks, StandsAt(r, p), Ignore(r) \/ Take(r) \/ PassOver(r)
  PROVE  p.left # << >> /\ pc[r] = "packing" /\ Turned(r, Turn(p))
<1> DEFINE i == Position(p)
           t == p.left[i]
<1>1. /\ p.left # << >> /\ pc[r] = "packing" /\ At(r) = i /\ tests[r] = p.left
      /\ currentBuffer[r] = p.buffer /\ mine[r] = p.place[r]
      /\ \A u \in Tests : Looking(r, u) => u = t
  BY DEF Ignore, Take, PassOver, Looking, StandsAt, At, Position
<1>2. t \in Tests /\ Cores[t] \in Nat
  BY <1>1, TestsAssumption DEF Ignore, Take, PassOver
<1>3. p.place \in Places /\ p.buffer \in 0 .. Size
  BY DEF Plan
<1>4. Turn(p) = IF Cores[t] > Size THEN Batch(Without(p.left, i), i, p.buffer, p.place)
                ELSE IF p.buffer + Cores[t] <= Size
                THEN Batch(Without(p.left, i), i, p.buffer + Cores[t], Given(p, t))
                ELSE Batch(p.left, i + 1, p.buffer, p.place)
  BY DEF Turn
<1> HIDE DEF i, t
<1>5. CASE Ignore(r)
  <2>1. /\ Cores[t] > Size /\ it' = [it EXCEPT ![r] = i] /\ begun' = begun
        /\ EndTurn(r, Without(p.left, i), p.buffer, p.place[r])
    BY <1>1, <1>5 DEF Ignore
  <2>2. QED
    BY <1>1, <1>3, <1>4, <2>1, EndTurnIsBatch
<1>6. CASE Take(r)
  <2> DEFINE g == Given(p, t)
  <2>1. /\ p.buffer + Cores[t] <= Size /\ it' = [it EXCEPT ![r] = i] /\ begun' = begun
        /\ EndTurn(r, Without(p.left, i), p.buffer + Cores[t],
                   IF r \in p.buffer .. ((p.buffer + Cores[t]) - 1) THEN PartOf(p, t) ELSE p.place[r])
    <3>1. PICK u \in Tests :
            /\ Looking(r, u) /\ currentBuffer[r] + Cores[u] <= Size
            /\ it' = [it EXCEPT ![r] = At(r)] /\ begun' = begun
            /\ EndTurn(r, Without(tests[r], At(r)), currentBuffer[r] + Cores[u],
                       IF r \in currentBuffer[r] .. ((currentBuffer[r] + Cores[u]) - 1)
                       THEN [test |-> u, start |-> currentBuffer[r], end |-> currentBuffer[r] + Cores[u]]
                       ELSE mine[r])
      BY <1>6 DEF Take
    <3>2. u = t
      BY <1>1, <3>1
    <3>3. QED
      BY <1>1, <3>1, <3>2 DEF PartOf
  <2>2. g[r] = IF r \in p.buffer .. ((p.buffer + Cores[t]) - 1) THEN PartOf(p, t) ELSE p.place[r]
    BY DEF Given
  <2>3. ~(Cores[t] > Size)
    BY <1>2, <1>3, <2>1, SizeAssumption
  <2>4. g \in Places
    <3>1. CASE Cores[t] = 0
      <4>1. \A s \in Ranks : s \notin p.buffer .. ((p.buffer + Cores[t]) - 1)
        BY <1>3, <3>1
      <4>2. QED
        BY <1>3, <4>1 DEF Given, Places
    <3>2. CASE Cores[t] # 0
      <4>1. PartOf(p, t) \in Part
        BY <1>2, <1>3, <2>1, <3>2, SizeAssumption DEF PartOf, Part, Ranks
      <4>2. QED
        BY <1>3, <4>1 DEF Given, Places
    <3>3. QED
      BY <3>1, <3>2
  <2>5. Turn(p) = Batch(Without(p.left, i), i, p.buffer + Cores[t], g)
    BY <1>4, <2>1, <2>3
  <2> HIDE DEF g
  <2>6. EndTurn(r, Without(p.left, i), p.buffer + Cores[t], g[r])
    BY <2>1, <2>2
  <2>7. QED
    BY <1>1, <2>1, <2>4, <2>5, <2>6, EndTurnIsBatch
<1>7. CASE PassOver(r)
  <2>1. /\ Cores[t] <= Size /\ p.buffer + Cores[t] > Size
        /\ it' = [it EXCEPT ![r] = i + 1] /\ begun' = begun
        /\ EndTurn(r, p.left, p.buffer, p.place[r])
    BY <1>1, <1>7 DEF PassOver
  <2>2. ~(Cores[t] > Size) /\ ~(p.buffer + Cores[t] <= Size)
    BY <1>2, <1>3, <2>1, SizeAssumption
  <2>3. QED
    BY <1>1, <1>3, <1>4, <2>1, <2>2, EndTurnIsBatch
<1>8. QED
  BY <1>5, <1>6, <1>7

\* The members of a group are ranks, and have the same part.
LEMMA GroupOfPlan ==
  ASSUME NEW h \in Seq(Plan), History(h), NEW k \in 1 .. Len(h), NEW r \in Ranks,
         h[k].closed[r] # NoTest
  PROVE  /\ h[k].closed[r] \in Part
         /\ r \in Members(h[k].closed[r])
         /\ h[k].closed[r].end - h[k].closed[r].start = Cores[h[k].closed[r].test]
         /\ \A s \in Members(h[k].closed[r]) : s \in Ranks /\ h[k].closed[s] = h[k].closed[r]
         /\ \A s \in Ranks : h[k].closed[s].test = h[k].closed[r].test => h[k].closed[s] = h[k].closed[r]
<1>1. h[k] \in Plan /\ PlanOK(h[k])
  BY PlanOfHistory DEF History
<1>2. h[k].closed \in Places /\ Layout(h[k].closed)
  BY <1>1 DEF Plan, PlanOK
<1>3. h[k].closed[r] \in Part
  BY <1>2 DEF Places
<1>4. \A s \in Members(h[k].closed[r]) : s \in Ranks
  <2>1. h[k].closed[r].start \in Ranks /\ h[k].closed[r].end \in 1 .. Size
    BY <1>3 DEF Part
  <2>2. QED
    BY <2>1, SizeAssumption, SMTT(30) DEF Members, Ranks
<1>5. QED
  BY <1>2, <1>3, <1>4 DEF Layout

\* A rank that has a turn to take can take it in the history, or in a longer one.
LEMMA RoomForTurn ==
  ASSUME NEW h \in Seq(Plan), History(h), NEW n \in [Ranks -> 1 .. Len(h)], Follows(h, n),
         NEW r \in Ranks, h[n[r]].left # << >>
  PROVE  \E g \in Seq(Plan) :
           /\ History(g) /\ n \in [Ranks -> 1 .. Len(g)] /\ Follows(g, n)
           /\ n[r] + 1 \in 1 .. Len(g) /\ g[n[r]] = h[n[r]]
<1> DEFINE l == Len(h)
           g == Append(h, Turn(h[l]))
<1>1. l \in Nat /\ n[r] \in 1 .. l
  BY LenProperties
<1>2. CASE n[r] < l
  BY <1>1, <1>2
<1>3. CASE n[r] = l
  <2>1. g \in Seq(Plan) /\ History(g)
    BY <1>3, LongerHistory
  <2>2. Turn(h[l]) \in Plan
    <3>1. l \in 1 .. l
      BY <1>1, <1>3
    <3>2. h[l] \in Plan /\ PlanOK(h[l]) /\ h[l].left # << >>
      BY <1>3, <3>1, PlanOfHistory DEF History
    <3>3. QED
      BY <3>2, TurnOK
  <2>3. Len(g) = l + 1 /\ \A k \in 1 .. l : g[k] = h[k]
    BY <2>2, AppendProperties
  <2> HIDE DEF g, l
  <2>4. \A s \in Ranks : n[s] \in 1 .. l /\ n[s] \in 1 .. Len(g) /\ g[n[s]] = h[n[s]] /\ ~Past(s, n, l + 1)
    BY <1>1, <2>3 DEF Past, l
  <2>5. n \in [Ranks -> 1 .. Len(g)]
    BY <2>4
  <2>6. \A s \in Ranks : StandsAt(s, g[n[s]])
    BY <2>4 DEF Follows
  <2>7. \A k \in 1 .. Len(g) : k \in 1 .. l \/ k = l + 1
    BY <1>1, <2>3
  <2>8. Together(g, n)
    <3> SUFFICES ASSUME NEW m \in 1 .. Len(g), NEW u \in Ranks, g[m].closed[u] # NoTest,
                        NEW s \in Members(g[m].closed[u])
                 PROVE  Past(u, n, m) <=> Past(s, n, m)
      BY DEF Together
    <3>1. CASE m \in 1 .. l
      BY <2>3, <3>1 DEF Follows, Together, l
    <3>2. CASE m = l + 1
      <4>1. s \in Ranks
        BY <2>1, GroupOfPlan
      <4>2. QED
        BY <2>4, <3>2, <4>1
    <3>3. QED
      BY <2>7, <3>1, <3>2
  <2>9. begun = Started(g, n)
    <3>1. Started(g, n) = Started(h, n)
      <4>1. \A m \in 1 .. l : m \in 1 .. Len(g)
        BY <1>1, <2>3
      <4>2. QED
        BY <2>3, <2>4, <2>7, <4>1 DEF Started, l
    <3>2. QED
      BY <3>1 DEF Follows
  <2>10. n[r] + 1 \in 1 .. Len(g)
    BY <1>1, <1>3, <2>3
  <2>11. QED
    BY <2>1, <2>4, <2>5, <2>6, <2>8, <2>9, <2>10 DEF Follows
<1>4. QED
  BY <1>1, <1>2, <1>3

-----------------------------------------------------------------------------
(* The inductive invariant.                                                *)

\* A step in which no rank passes the creation of a group of its own.
LEMMA SamePast ==
  ASSUME NEW h \in Seq(Plan), History(h),
         NEW n \in [Ranks -> 1 .. Len(h)], NEW m \in [Ranks -> 1 .. Len(h)],
         Together(h, n), begun = Started(h, n), begun' = begun,
         \A k \in 1 .. Len(h), u \in Ranks :
           h[k].closed[u] # NoTest => (Past(u, m, k)' <=> Past(u, n, k))
  PROVE  Together(h, m)' /\ begun' = Started(h, m)'
<1>1. Together(h, m)'
  <2> SUFFICES ASSUME NEW k \in 1 .. Len(h), NEW u \in Ranks, h[k].closed[u] # NoTest,
                      NEW s \in Members(h[k].closed[u])
               PROVE  Past(u, m, k)' <=> Past(s, m, k)'
    BY DEF Together
  <2>1. s \in Ranks /\ h[k].closed[s] # NoTest
    BY GroupOfPlan
  <2>2. Past(u, n, k) <=> Past(s, n, k)
    BY DEF Together
  <2>3. QED
    BY <2>1, <2>2
<1>2. \A k \in 1 .. Len(h), u \in Ranks, t \in Tests : h[k].closed[u].test = t => h[k].closed[u] # NoTest
  BY NoTestIsNoPart DEF NoTest
<1>3. Started(h, m)' = Started(h, n)
  BY <1>2 DEF Started
<1>4. QED
  BY <1>1, <1>3

\* A rank takes a turn; whether or not it is the first one to take it.
LEMMA TurnStep ==
  ASSUME IInv, NEW r \in Ranks, Ignore(r) \/ Take(r) \/ PassOver(r)
  PROVE  IInv'
<1>1. PICK h0 \in Seq(Plan) : History(h0) /\ \E n \in [Ranks -> 1 .. Len(h0)] : Follows(h0, n)
  BY DEF IInv
<1>2. PICK n \in [Ranks -> 1 .. Len(h0)] : Follows(h0, n)
  BY <1>1
<1>3. h0[n[r]] \in Plan /\ StandsAt(r, h0[n[r]])
  BY <1>2, PlanOfHistory DEF Follows
<1>4. h0[n[r]].left # << >> /\ pc[r] = "packing" /\ Turned(r, Turn(h0[n[r]]))
  BY <1>3, TurnOfRank
<1>5. PICK h \in Seq(Plan) :
        /\ History(h) /\ n \in [Ranks -> 1 .. Len(h)] /\ Follows(h, n)
        /\ n[r] + 1 \in 1 .. Len(h) /\ h[n[r]] = h0[n[r]]
  BY <1>1, <1>2, <1>4, RoomForTurn
<1> DEFINE k == n[r] + 1
           q == h[k]
           m == [n EXCEPT ![r] = k]
<1>6. Len(h) \in Nat /\ n[r] \in 1 .. Len(h)
  BY <1>5, LenProperties
<1>7. q = Turn(h[n[r]])
  <2>1. k \in 2 .. Len(h) /\ k - 1 = n[r]
    BY <1>5, <1>6
  <2>2. QED
    BY <1>5, <2>1 DEF History
<1>8. Turned(r, q) /\ q \in Plan /\ PlanOK(q)
  BY <1>4, <1>5, <1>7, PlanOfHistory DEF History
<1>9. m \in [Ranks -> 1 .. Len(h)] /\ m[r] = k /\ \A s \in Ranks \ {r} : m[s] = n[s]
  BY <1>5
<1> HIDE DEF q, m
<1>10. /\ q.left \in Seq(Tests) /\ q.it \in Nat /\ q.buffer \in 0 .. Size
       /\ q.place \in Places /\ q.closed \in Places
       /\ q.closed[r] # NoTest => q.place[r] = NoTest
  BY <1>8 DEF Plan, PlanOK, NoPlaces
<1>11. Typed'
  <2>1. q.closed[r] \in Part \cup {NoTest} /\ q.place[r] \in Part \cup {NoTest}
    BY <1>10 DEF Places
  <2>2. Typed
    BY DEF IInv
  <2>3. QED
    BY <1>8, <1>10, <2>1, <2>2 DEF Typed, Turned, Places
<1>12. pc' \in [Ranks -> {"packing", "creating", "testing", "threw", "barrier", "done"}]
       /\ Typed
  BY <1>11 DEF Typed, IInv
<1>13. ASSUME NEW s \in Ranks
       PROVE  StandsAt(s, h[m[s]])'
  <2>1. CASE s = r
    <3>1. /\ tests'[r] = q.left /\ it'[r] = q.it /\ currentBuffer'[r] = q.buffer
          /\ mine'[r] = IF q.closed[r] # NoTest THEN q.closed[r] ELSE q.place[r]
          /\ pc'[r] = IF q.closed[r] # NoTest THEN "creating" ELSE "packing"
      BY <1>4, <1>8, <1>12 DEF Turned, Typed, Places
    <3>2. h[m[r]] = q
      BY <1>9 DEF q
    <3>3. StandsAt(r, q)'
      BY <3>1 DEF StandsAt
    <3>4. QED
      BY <2>1, <3>2, <3>3
  <2>2. CASE s # r
    <3>1. /\ tests'[s] = tests[s] /\ it'[s] = it[s] /\ currentBuffer'[s] = currentBuffer[s]
          /\ mine'[s] = mine[s] /\ pc'[s] = pc[s]
      BY <1>8, <1>12, <2>2 DEF Turned, Typed, Places
    <3>2. StandsAt(s, h[n[s]]) /\ m[s] = n[s]
      BY <1>5, <1>9, <2>2 DEF Follows
    <3>3. QED
      BY <3>1, <3>2 DEF StandsAt
  <2>3. QED
    BY <2>1, <2>2
<1>14. ASSUME NEW j \in 1 .. Len(h), NEW u \in Ranks, h[j].closed[u] # NoTest
       PROVE  Past(u, m, j)' <=> Past(u, n, j)
  <2>1. CASE u # r
    <3>1. pc'[u] = pc[u] /\ m[u] = n[u]
      BY <1>8, <1>9, <1>12, <2>1 DEF Turned, Typed
    <3>2. QED
      BY <3>1 DEF Past
  <2>2. CASE u = r
    <3>1. Past(u, n, j) <=> n[r] >= j
      BY <1>4, <1>6, <2>2 DEF Past
    <3>2. Past(u, m, j)' <=> k > j \/ (k = j /\ pc'[r] # "creating")
      BY <1>9, <2>2 DEF Past
    <3>3. k = j => pc'[r] = "creating"
      BY <1>8, <1>12, <1>14, <2>2 DEF Turned, Typed, q
    <3>4. k > j <=> n[r] >= j
      BY <1>6
    <3>5. QED
      BY <3>1, <3>2, <3>3, <3>4
  <2>3. QED
    BY <2>1, <2>2
<1>15. Together(h, n) /\ begun = Started(h, n) /\ begun' = begun
  BY <1>5, <1>8 DEF Follows, Turned
<1>16. Together(h, m)' /\ begun' = Started(h, m)'
  BY <1>5, <1>9, <1>14, <1>15, SamePast
<1>17. Follows(h, m)'
  BY <1>13, <1>16 DEF Follows
<1>18. QED
  BY <1>5, <1>9, <1>11, <1>17 DEF IInv

\* A rank that returns from its test, or throws, or has come to the end of the list,
\* stays at its plan; and so do all ranks when they leave the last barrier.
LEMMA LocalStep ==
  ASSUME IInv, Barrier \/ \E r \in Ranks : Finish(r) \/ Throw(r) \/ Arrive(r)
  PROVE  IInv'
<1>1. PICK h \in Seq(Plan) : History(h) /\ \E n \in [Ranks -> 1 .. Len(h)] : Follows(h, n)
  BY DEF IInv
<1>2. PICK n \in [Ranks -> 1 .. Len(h)] : Follows(h, n)
  BY <1>1
<1>3. Typed
  BY DEF IInv
<1>4. UNCHANGED <<tests, it, currentBuffer, begun>>
  BY DEF Barrier, Finish, Throw, Arrive
<1>5. ASSUME NEW s \in Ranks
      PROVE  h[n[s]] \in Plan /\ PlanOK(h[n[s]]) /\ StandsAt(s, h[n[s]])
  BY <1>1, <1>2, PlanOfHistory DEF Follows, History
<1>6. Typed' /\ \A s \in Ranks : (pc'[s] = "creating" <=> pc[s] = "creating") /\ StandsAt(s, h[n[s]])'
  <2>1. CASE Barrier
    <3>1. Typed'
      BY <1>3, <1>4, <2>1 DEF Barrier, Typed
    <3>2. ASSUME NEW s \in Ranks
          PROVE  (pc'[s] = "creating" <=> pc[s] = "creating") /\ StandsAt(s, h[n[s]])'
      <4>1. pc'[s] = "done" /\ pc[s] = "barrier" /\ mine' = mine
        BY <2>1 DEF Barrier
      <4>2. QED
        BY <1>4, <1>5, <4>1 DEF StandsAt
    <3>3. QED
      BY <3>1, <3>2
  <2>2. ASSUME NEW r \in Ranks, Finish(r)
        PROVE  Typed' /\ \A s \in Ranks : (pc'[s] = "creating" <=> pc[s] = "creating") /\ StandsAt(s, h[n[s]])'
    <3>1. Typed'
      BY <1>3, <1>4, <2>2 DEF Finish, Typed, Places
    <3>2. ASSUME NEW s \in Ranks, s # r
          PROVE  (pc'[s] = "creating" <=> pc[s] = "creating") /\ StandsAt(s, h[n[s]])'
      <4>1. pc'[s] = pc[s] /\ mine'[s] = mine[s]
        BY <1>3, <2>2, <3>2 DEF Finish, Typed, Places
      <4>2. QED
        BY <1>4, <1>5, <4>1 DEF StandsAt
    <3>3. /\ pc[r] = "testing" /\ pc'[r] = "packing" /\ mine'[r] = NoTest
      BY <1>3, <2>2 DEF Finish, Typed, Places
    <3>4. h[n[r]].place[r] = NoTest
      <4>1. h[n[r]].closed[r] # NoTest
        BY <1>5, <3>3 DEF StandsAt
      <4>2. QED
        BY <1>5, <4>1 DEF PlanOK, NoPlaces
    <3>5. StandsAt(r, h[n[r]])'
      BY <1>4, <1>5, <3>3, <3>4 DEF StandsAt
    <3>6. QED
      BY <3>1, <3>2, <3>3, <3>5
  <2>3. ASSUME NEW r \in Ranks, Throw(r)
        PROVE  Typed' /\ \A s \in Ranks : (pc'[s] = "creating" <=> pc[s] = "creating") /\ StandsAt(s, h[n[s]])'
    <3>1. Typed'
      BY <1>3, <1>4, <2>3 DEF Throw, Typed
    <3>2. ASSUME NEW s \in Ranks
          PROVE  (pc'[s] = "creating" <=> pc[s] = "creating") /\ StandsAt(s, h[n[s]])'
      <4>1. mine' = mine /\ (pc'[s] = pc[s] \/ (pc[s] = "testing" /\ pc'[s] = "threw"))
        BY <1>3, <2>3 DEF Throw, Typed
      <4>2. QED
        BY <1>4, <1>5, <4>1 DEF StandsAt
    <3>3. QED
      BY <3>1, <3>2
  <2>4. ASSUME NEW r \in Ranks, Arrive(r)
        PROVE  Typed' /\ \A s \in Ranks : (pc'[s] = "creating" <=> pc[s] = "creating") /\ StandsAt(s, h[n[s]])'
    <3>1. Typed'
      BY <1>3, <1>4, <2>4 DEF Arrive, Typed
    <3>2. ASSUME NEW s \in Ranks
          PROVE  (pc'[s] = "creating" <=> pc[s] = "creating") /\ StandsAt(s, h[n[s]])'
      <4>1. mine' = mine /\ (pc'[s] = pc[s] \/ (pc[s] = "packing" /\ pc'[s] = "barrier" /\ tests[s] = << >>))
        BY <1>3, <2>4 DEF Arrive, Typed
      <4>2. QED
        BY <1>4, <1>5, <4>1 DEF StandsAt
    <3>3. QED
      BY <3>1, <3>2
  <2>5. QED
    BY <2>1, <2>2, <2>3, <2>4
<1>7. \A k \in 1 .. Len(h), u \in Ranks : Past(u, n, k)' <=> Past(u, n, k)
  BY <1>6 DEF Past
<1>8. Together(h, n)' /\ begun' = Started(h, n)'
  <2>1. Together(h, n) /\ begun = Started(h, n) /\ begun' = begun
    BY <1>2, <1>4 DEF Follows
  <2>2. QED
    BY <1>1, <1>7, <2>1, SamePast
<1>9. Follows(h, n)'
  BY <1>6, <1>8 DEF Follows
<1>10. QED
  BY <1>1, <1>6, <1>9 DEF IInv

\* The ranks that create a communicator together stand at the same plan, and the test
\* this plan has placed on them has not been started before.
LEMMA OneGroup ==
  ASSUME Typed, NEW h \in Seq(Plan), History(h), NEW n \in [Ranks -> 1 .. Len(h)], Follows(h, n),
         NEW start \in Ranks, NEW end \in 1 .. Size, start < end, Create(start, end)
  PROVE  LET k == n[start]
             p == h[k].closed[start]
         IN  /\ p \in Part /\ p.start = start /\ p.end = end
             /\ p.end - p.start = Cores[p.test]
             /\ \A r \in start .. (end - 1) :
                  /\ r \in Ranks /\ pc[r] = "creating" /\ n[r] = k
                  /\ h[k].closed[r] = p /\ mine[r] = p
             /\ \A u \in Ranks : h[k].closed[u].test = p.test => u \in start .. (end - 1)
             /\ p.test \notin begun
<1> DEFINE k == n[start]
           p == h[k].closed[start]
           group == start .. (end - 1)
<1>1. start \in Int /\ end \in Int /\ start \in group /\ \A r \in group : r \in Ranks
  BY SizeAssumption DEF Ranks
<1>2. \A r \in group : pc[r] = "creating" /\ mine[r].start = start /\ mine[r].end = end
  BY DEF Create
<1>3. ASSUME NEW r \in group
      PROVE  /\ mine[r] = h[n[r]].closed[r] /\ mine[r] # NoTest
             /\ Members(mine[r]) = group /\ ~Past(r, n, n[r])
             /\ n[r] \in 1 .. Len(h) /\ n[r] \in Nat
  <2>1. r \in Ranks /\ pc[r] = "creating" /\ mine[r].start = start /\ mine[r].end = end
    BY <1>1, <1>2
  <2>2. StandsAt(r, h[n[r]]) /\ n[r] \in 1 .. Len(h)
    BY <2>1 DEF Follows
  <2>3. n[r] \in Nat
    BY <2>2, LenProperties
  <2>4. QED
    BY <2>1, <2>2, <2>3 DEF StandsAt, Members, Past
<1>4. /\ k \in 1 .. Len(h) /\ p # NoTest /\ mine[start] = p /\ Members(p) = group
      /\ p.start = start /\ p.end = end
  BY <1>1, <1>2, <1>3
<1>5. /\ p \in Part /\ p.end - p.start = Cores[p.test]
      /\ \A s \in group : h[k].closed[s] = p
      /\ \A s \in Ranks : h[k].closed[s].test = p.test => h[k].closed[s] = p
  <2>1. k \in 1 .. Len(h) /\ h[k].closed[start] # NoTest
    BY <1>4
  <2> HIDE DEF k
  <2>2. /\ h[k].closed[start] \in Part
        /\ h[k].closed[start].end - h[k].closed[start].start = Cores[h[k].closed[start].test]
        /\ \A s \in Members(h[k].closed[start]) : h[k].closed[s] = h[k].closed[start]
        /\ \A s \in Ranks : h[k].closed[s].test = h[k].closed[start].test
                             => h[k].closed[s] = h[k].closed[start]
    BY <2>1, GroupOfPlan
  <2>3. QED
    BY <1>4, <2>2
<1>6. ASSUME NEW r \in group
      PROVE  n[r] = k
  <2>1. ~Past(r, n, k)
    <3>1. Past(start, n, k) <=> Past(r, n, k)
      BY <1>1, <1>4 DEF Follows, Together
    <3>2. QED
      BY <1>1, <1>3, <3>1
  <2>2. ~Past(start, n, n[r])
    <3>1. r \in Ranks /\ h[n[r]].closed[r] # NoTest /\ start \in Members(h[n[r]].closed[r])
      BY <1>1, <1>3
    <3>2. Past(r, n, n[r]) <=> Past(start, n, n[r])
      BY <1>3, <3>1 DEF Follows, Together
    <3>3. QED
      BY <1>3, <3>2
  <2>3. ~(n[r] > k) /\ ~(k > n[r])
    BY <2>1, <2>2 DEF Past
  <2>4. n[r] \in Nat /\ k \in Nat
    BY <1>1, <1>3
  <2>5. QED
    BY <2>3, <2>4
<1>7. \A r \in group : mine[r] = p
  BY <1>3, <1>5, <1>6
<1>8. \A u \in Ranks : h[k].closed[u].test = p.test => u \in group
  <2> SUFFICES ASSUME NEW u \in Ranks, h[k].closed[u].test = p.test
               PROVE  u \in group
    OBVIOUS
  <2>1. h[k].closed[u] = p
    BY <1>5
  <2>2. u \in Members(h[k].closed[u])
    BY <1>4, <2>1, GroupOfPlan
  <2>3. QED
    BY <1>4, <2>1, <2>2
<1>9. p.test \notin begun
  <2> SUFFICES ASSUME NEW m \in 1 .. Len(h), NEW u \in Ranks,
                      h[m].closed[u].test = p.test, Past(u, n, m)
               PROVE  FALSE
    BY DEF Follows, Started
  <2>1. h[m].closed[u] # NoTest
    BY <1>5, NoTestIsNoPart DEF NoTest, Part
  <2>2. m \in Nat /\ k \in Nat
    BY <1>1, <1>3, LenProperties
  <2>3. CASE m = k
    <3>1. u \in group
      BY <1>8, <2>3
    <3>2. QED
      BY <1>3, <1>6, <2>3, <3>1
  <2>4. CASE m < k
    BY <1>4, <2>1, <2>2, <2>4 DEF History
  <2>5. CASE k < m
    BY <1>4, <2>1, <2>2, <2>5 DEF History
  <2>6. QED
    BY <2>2, <2>3, <2>4, <2>5
<1>10. QED
  BY <1>1, <1>2, <1>4, <1>5, <1>6, <1>7, <1>8, <1>9

\* A group creates its communicator: all of its ranks pass the creation in one step.
LEMMA CreateStep ==
  ASSUME IInv, NEW start \in Ranks, NEW end \in 1 .. Size, start < end, Create(start, end)
  PROVE  IInv'
<1>1. PICK h \in Seq(Plan) : History(h) /\ \E n \in [Ranks -> 1 .. Len(h)] : Follows(h, n)
  BY DEF IInv
<1>2. PICK n \in [Ranks -> 1 .. Len(h)] : Follows(h, n)
  BY <1>1
<1>3. Typed
  BY DEF IInv
<1> DEFINE k == n[start]
           p == h[k].closed[start]
           group == start .. (end - 1)
<1>4. /\ p \in Part /\ p.start = start /\ p.end = end
      /\ \A r \in group :
           /\ r \in Ranks /\ pc[r] = "creating" /\ n[r] = k
           /\ h[k].closed[r] = p /\ mine[r] = p
      /\ \A u \in Ranks : h[k].closed[u].test = p.test => u \in group
  BY <1>1, <1>2, <1>3, OneGroup
<1>5. start \in group /\ start \in Int /\ p.test \in Tests
  BY <1>4, SizeAssumption DEF Ranks, Part
<1>6. /\ pc' = [r \in Ranks |-> IF r \in group THEN "testing" ELSE pc[r]]
      /\ begun' = begun \cup {mine[r].test : r \in group}
      /\ UNCHANGED <<tests, it, currentBuffer, mine>>
  BY DEF Create
<1>7. Members(p) = group /\ k \in 1 .. Len(h) /\ k \in Nat
  BY <1>4, LenProperties DEF Members
<1> HIDE DEF group, p, k
<1>8. begun' = begun \cup {p.test}
  BY <1>4, <1>5, <1>6
<1>9. Typed'
  BY <1>3, <1>6 DEF Typed
<1>10. ASSUME NEW s \in Ranks
       PROVE  StandsAt(s, h[n[s]])'
  <2>1. StandsAt(s, h[n[s]])
    BY <1>2 DEF Follows
  <2>2. CASE s \in group
    BY <1>4, <1>6, <2>1, <2>2 DEF StandsAt
  <2>3. CASE s \notin group
    BY <1>6, <2>1, <2>3 DEF StandsAt
  <2>4. QED
    BY <2>2, <2>3
<1>11. ASSUME NEW j \in 1 .. Len(h), NEW u \in Ranks
       PROVE  Past(u, n, j)' <=> Past(u, n, j) \/ (j = k /\ u \in group)
  <2>1. CASE u \in group
    <3>1. n[u] = k /\ pc[u] = "creating" /\ pc'[u] = "testing"
      BY <1>4, <1>6, <2>1
    <3>2. QED
      BY <2>1, <3>1 DEF Past
  <2>2. CASE u \notin group
    BY <1>6, <2>2 DEF Past
  <2>3. QED
    BY <2>1, <2>2
<1>12. Together(h, n)'
  <2> SUFFICES ASSUME NEW j \in 1 .. Len(h), NEW u \in Ranks, h[j].closed[u] # NoTest,
                      NEW s \in Members(h[j].closed[u])
               PROVE  Past(u, n, j)' <=> Past(s, n, j)'
    BY DEF Together
  <2>1. /\ s \in Ranks /\ h[j].closed[s] = h[j].closed[u] /\ u \in Members(h[j].closed[u])
    BY <1>1, GroupOfPlan, SMTT(30)
  <2>2. Past(u, n, j) <=> Past(s, n, j)
    BY <1>2 DEF Follows, Together
  <2>3. j = k => (u \in group <=> s \in group)
    BY <1>4, <1>7, <2>1
  <2>4. QED
    BY <1>11, <2>1, <2>2, <2>3
<1>13. begun' = Started(h, n)'
  <2>1. begun = Started(h, n)
    BY <1>2 DEF Follows
  <2>2. ASSUME NEW t \in Tests
        PROVE  t \in Started(h, n)' <=> t \in Started(h, n) \/ t = p.test
    <3>1. CASE t = p.test
      <4>1. h[k].closed[start].test = t /\ Past(start, n, k)'
        BY <1>4, <1>5, <1>7, <1>11, <3>1
      <4>2. QED
        BY <1>7, <3>1, <4>1 DEF Started
    <3>2. CASE t # p.test
      <4>1. \A j \in 1 .. Len(h), u \in Ranks :
              h[j].closed[u].test = t => (Past(u, n, j)' <=> Past(u, n, j))
        BY <1>4, <1>11, <3>2
      <4>2. QED
        BY <3>2, <4>1 DEF Started
    <3>3. QED
      BY <3>1, <3>2
  <2>3. Started(h, n)' \subseteq Tests /\ Started(h, n) \subseteq Tests
    BY DEF Started
  <2>4. QED
    BY <1>5, <1>8, <2>1, <2>2, <2>3
<1>14. Follows(h, n)'
  BY <1>10, <1>12, <1>13 DEF Follows
<1>15. QED
  BY <1>1, <1>9, <1>14 DEF IInv

\* A list that is one of the orders has every test once.
LEMMA OrderIsList ==
  ASSUME NEW s \in Orders
  PROVE  s \in Seq(Tests) /\ Distinct(s) /\ \A t \in Tests : t \in Remaining(s)
<1> DEFINE c == Cardinality(Tests)
<1>1. c \in Nat /\ IsFiniteSet(Tests)
  BY TestsAssumption, FS_CardinalityType
<1>2. s \in [1 .. c -> Tests] /\ \A t \in Tests : \E i \in 1 .. c : s[i] = t
  BY DEF Orders
<1> HIDE DEF c
<1>3. s \in Seq(Tests) /\ Len(s) = c
  BY <1>1, <1>2
<1>4. s \in Surjection(1 .. c, Tests)
  BY <1>2, Fun_IsSurj
<1>5. s \in Injection(1 .. c, Tests)
  <2>1. IsFiniteSet(1 .. c) /\ Cardinality(1 .. c) = c
    <3>1. Cardinality(1 .. c) = IF 1 > c THEN 0 ELSE c - 1 + 1
      BY <1>1, FS_Interval
    <3>2. QED
      BY <1>1, <3>1, FS_Interval
  <2>2. Cardinality(1 .. c) = Cardinality(Tests)
    BY <2>1 DEF c
  <2>3. QED
    BY <1>1, <1>4, <2>1, <2>2, FS_SurjSameCardinalityImpliesInj
<1>6. Distinct(s)
  BY <1>3, <1>5, Fun_IsInj DEF Distinct, Injection, IsInjective
<1>7. \A t \in Tests : t \in Remaining(s)
  BY <1>2, <1>3 DEF Remaining
<1>8. QED
  BY <1>3, <1>6, <1>7

\* In the beginning all ranks stand at the first plan of a history that has no other.
LEMMA InitIInv == Init => IInv
<1> SUFFICES ASSUME Init PROVE IInv
  OBVIOUS
<1>1. PICK s \in Orders : tests = [r \in Ranks |-> s]
  BY DEF Init
<1>2. s \in Seq(Tests) /\ Distinct(s) /\ \A t \in Tests : t \in Remaining(s)
  BY OrderIsList
<1> DEFINE p == FirstPlan(s)
           h == <<p>>
           n == [r \in Ranks |-> 1]
<1>3. /\ p.left = s /\ p.it = 1 /\ p.buffer = 0 /\ p.place = NoPlaces /\ p.closed = NoPlaces
  BY DEF FirstPlan
<1>4. p \in Plan /\ Len(s) \in Nat
  BY <1>2, NoPlacesLayout, SizeAssumption, LenProperties DEF FirstPlan, Plan
<1>5. \A r \in Ranks : NoPlaces[r] = NoTest
  BY DEF NoPlaces
<1> HIDE DEF p
<1>6. h \in Seq(Plan) /\ Len(h) = 1 /\ h[1] = p /\ \A k \in 1 .. Len(h) : k = 1
  BY <1>4
<1> HIDE DEF h
<1>7. PlanOK(p)
  <2>1. p.it \in 1 .. (Len(p.left) + 1)
    BY <1>3, <1>4
  <2>2. QED
    BY <1>2, <1>3, <1>5, <2>1, NoPlacesLayout DEF PlanOK
<1>8. History(h)
  <2>1. \A t \in Tests : Accounted(h, 1, t)
    BY <1>2, <1>3, <1>6 DEF Accounted
  <2>2. \A k \in 2 .. Len(h) : FALSE
    BY <1>6
  <2>3. \A k \in 1 .. Len(h), r \in Ranks : h[k].closed[r] = NoTest
    BY <1>3, <1>5, <1>6
  <2>4. QED
    BY <1>6, <1>7, <2>1, <2>2, <2>3 DEF History
<1>9. n \in [Ranks -> 1 .. Len(h)] /\ \A r \in Ranks : n[r] = 1
  BY <1>6
<1> HIDE DEF n
<1>10. Follows(h, n)
  <2>1. \A r \in Ranks : StandsAt(r, p)
    BY <1>1, <1>3, <1>5 DEF Init, StandsAt
  <2>2. \A k \in 1 .. Len(h), r \in Ranks : h[k].closed[r] = NoTest
    BY <1>3, <1>5, <1>6
  <2>3. Together(h, n)
    BY <2>2 DEF Together
  <2>4. Started(h, n) = {}
    BY <2>2, NoTestIsNoPart DEF Started, NoTest
  <2>5. QED
    BY <1>6, <1>9, <2>1, <2>3, <2>4 DEF Follows, Init
<1>11. Typed
  BY <1>1, <1>2, NoPlacesLayout, SizeAssumption DEF Init, Typed, NoPlaces
<1>12. QED
  BY <1>6, <1>8, <1>9, <1>10, <1>11 DEF IInv

\* Every step keeps the ranks in one history.
LEMMA NextIInv == IInv /\ [Next]_vars => IInv'
<1> SUFFICES ASSUME IInv, [Next]_vars PROVE IInv'
  OBVIOUS
<1>1. ASSUME NEW r \in Ranks, Step(r) PROVE IInv'
  BY <1>1, TurnStep, LocalStep DEF Step
<1>2. ASSUME NEW start \in Ranks, NEW end \in 1 .. Size, start < end, Create(start, end) PROVE IInv'
  BY <1>2, CreateStep
<1>3. CASE Barrier
  BY <1>3, LocalStep
<1>4. CASE UNCHANGED vars
  <2>1. UNCHANGED <<tests, it, currentBuffer, mine, pc, begun>>
    BY <1>4 DEF vars
  <2>2. PICK h \in Seq(Plan) : History(h) /\ \E n \in [Ranks -> 1 .. Len(h)] : Follows(h, n)
    BY DEF IInv
  <2>3. PICK n \in [Ranks -> 1 .. Len(h)] : Follows(h, n)
    BY <2>2
  <2>4. \A k \in 1 .. Len(h), u \in Ranks : Past(u, n, k)' <=> Past(u, n, k)
    BY <2>1 DEF Past
  <2>5. Together(h, n)' /\ begun' = Started(h, n)'
    BY <2>1, <2>2, <2>3, <2>4, SamePast DEF Follows
  <2>6. \A r \in Ranks : StandsAt(r, h[n[r]])'
    BY <2>1, <2>3 DEF Follows, StandsAt
  <2>7. Typed'
    BY <2>1 DEF IInv, Typed
  <2>8. QED
    BY <2>2, <2>5, <2>6, <2>7 DEF IInv, Follows
<1>5. QED
  BY <1>1, <1>2, <1>3, <1>4 DEF Next

\* The ranks always follow one history of plans, each at its own pace.
THEOREM Invariance == Spec => []IInv
BY InitIInv, NextIInv, PTL DEF Spec

-----------------------------------------------------------------------------
(* What it is good for.                                                    *)

\* Ranks that pack on their own agree on the batches: no rank waits for its group
\* to form with a rank that is through with all of its tests (runAll).
THEOREM NobodyIsGoneTheorem == Spec => []NobodyIsGone
<1>1. IInv => NobodyIsGone
  <2> SUFFICES ASSUME IInv, NEW r \in Ranks, pc[r] = "creating", NEW s \in Members(mine[r]),
                      pc[s] \in {"barrier", "done"}
               PROVE  FALSE
    BY DEF NobodyIsGone
  <2>1. PICK h \in Seq(Plan) : History(h) /\ \E n \in [Ranks -> 1 .. Len(h)] : Follows(h, n)
    BY DEF IInv
  <2>2. PICK n \in [Ranks -> 1 .. Len(h)] : Follows(h, n)
    BY <2>1
  <2> DEFINE k == n[r]
  <2>3. k \in 1 .. Len(h) /\ k \in Nat /\ mine[r] = h[k].closed[r] /\ h[k].closed[r] # NoTest
    BY <2>2, LenProperties DEF Follows, StandsAt
  <2>4. s \in Ranks /\ h[k].closed[s] = h[k].closed[r]
    BY <2>1, <2>3, GroupOfPlan
  <2>5. ~Past(r, n, k)
    BY <2>3 DEF Past
  <2>6. ~Past(s, n, k)
    BY <2>2, <2>3, <2>5 DEF Follows, Together
  <2>7. n[s] \in 1 .. Len(h) /\ n[s] \in Nat /\ h[n[s]].left = << >>
    BY <2>2, <2>4, LenProperties DEF Follows, StandsAt
  <2>8. n[s] < k
    BY <2>3, <2>6, <2>7 DEF Past
  <2>9. n[s] + 1 \in 2 .. Len(h) /\ (n[s] + 1) - 1 = n[s]
    BY <2>3, <2>7, <2>8
  <2>10. h[n[s]].left # << >>
    BY <2>1, <2>9 DEF History
  <2>11. QED
    BY <2>7, <2>10
<1>2. QED
  BY <1>1, Invariance, PTL

\* When the ranks have left the last barrier of runAll, exactly the tests that ask for
\* at least one rank, and for no more than there are, have been run.
THEOREM AllRunTheorem == Spec => []AllRun
<1>1. IInv => AllRun
  <2> SUFFICES ASSUME IInv, \A r \in Ranks : pc[r] = "done"
               PROVE  begun = {t \in Tests : Cores[t] \in 1 .. Size}
    BY DEF AllRun
  <2>1. PICK h \in Seq(Plan) : History(h) /\ \E n \in [Ranks -> 1 .. Len(h)] : Follows(h, n)
    BY DEF IInv
  <2>2. PICK n \in [Ranks -> 1 .. Len(h)] : Follows(h, n)
    BY <2>1
  <2>3. \A r \in Ranks : n[r] \in 1 .. Len(h) /\ n[r] \in Nat /\ h[n[r]].left = << >>
    BY <2>2, LenProperties DEF Follows, StandsAt
  <2>4. ASSUME NEW r \in Ranks
        PROVE  n[r] = Len(h)
    <3>1. Len(h) \in Nat
      BY LenProperties
    <3>2. CASE n[r] < Len(h)
      <4>1. n[r] + 1 \in 2 .. Len(h) /\ (n[r] + 1) - 1 = n[r]
        BY <2>3, <3>1, <3>2
      <4>2. QED
        BY <2>1, <2>3, <4>1 DEF History
    <3>3. QED
      BY <2>3, <3>1, <3>2
  <2>5. ASSUME NEW t \in begun
        PROVE  t \in Tests /\ Cores[t] \in 1 .. Size
    <3>1. PICK m \in 1 .. Len(h) : \E r \in Ranks : h[m].closed[r].test = t /\ Past(r, n, m)
      BY <2>2 DEF Follows, Started
    <3>2. PICK r \in Ranks : h[m].closed[r].test = t
      BY <3>1
    <3>3. t \in Tests
      BY <2>2 DEF Follows, Started
    <3>4. h[m].closed[r] # NoTest
      BY <3>2, <3>3, NoTestIsNoPart DEF NoTest
    <3> DEFINE p == h[m].closed[r]
    <3>5. p \in Part /\ r \in Members(p) /\ p.end - p.start = Cores[t]
      BY <2>1, <3>2, <3>4, GroupOfPlan
    <3> HIDE DEF p
    <3>6. p.start \in Ranks /\ p.end \in 1 .. Size /\ Cores[t] \in Nat
      BY <3>3, <3>5, TestsAssumption DEF Part
    <3>7. Cores[t] \in 1 .. Size
      <4>1. p.start \in Int /\ 0 <= p.start /\ p.end \in Int /\ p.end <= Size
        BY <3>6, SizeAssumption DEF Ranks
      <4>2. r \in Int /\ p.start <= r /\ r <= p.end - 1
        BY <3>5, <4>1, SizeAssumption DEF Members, Ranks
      <4>3. 1 <= p.end - p.start /\ p.end - p.start <= Size
        BY <4>1, <4>2, SizeAssumption
      <4>4. QED
        BY <3>5, <3>6, <4>3, SizeAssumption
    <3>8. QED
      BY <3>3, <3>7
  <2>6. ASSUME NEW t \in Tests, Cores[t] \in 1 .. Size
        PROVE  t \in begun
    <3>1. 0 \in Ranks
      BY SizeAssumption DEF Ranks
    <3> DEFINE l == Len(h)
    <3>2. l \in 1 .. l /\ l \in Nat /\ h[l].left = << >> /\ h[l] \in Plan /\ PlanOK(h[l])
      BY <2>1, <2>3, <2>4, <3>1, PlanOfHistory DEF History
    <3>3. t \notin Remaining(h[l].left)
      BY <3>2 DEF Remaining
    <3>4. \A r \in Ranks : h[l].place[r] = NoTest
      <4> SUFFICES ASSUME NEW r \in Ranks, h[l].place[r] # NoTest
                   PROVE  FALSE
        OBVIOUS
      <4>1. h[l].buffer = 0 /\ h[l].place[r].end <= h[l].buffer
        BY <3>2 DEF PlanOK
      <4>2. h[l].place[r] \in Part
        BY <3>2 DEF Plan, Places
      <4>3. h[l].place[r].end \in 1 .. Size
        BY <4>2 DEF Part
      <4>4. QED
        BY <4>1, <4>3, SizeAssumption
    <3>5. \A r \in Ranks : h[l].place[r].test # t
      BY <3>4, NoTestIsNoPart DEF NoTest
    <3>6. PICK m \in 1 .. l : \E r \in Ranks : h[m].closed[r].test = t
      <4>1. \A k \in 1 .. l, u \in Tests : Accounted(h, k, u)
        BY <2>1 DEF History
      <4>2. Accounted(h, l, t)
        BY <2>6, <3>2, <4>1
      <4>3. QED
        BY <2>6, <3>3, <3>5, <4>2 DEF Accounted
    <3>7. PICK r \in Ranks : h[m].closed[r].test = t
      BY <3>6
    <3>8. Past(r, n, m)
      BY <2>4, <3>2 DEF Past
    <3>9. QED
      BY <2>2, <3>7, <3>8 DEF Follows, Started
  <2>7. QED
    BY <2>5, <2>6
<1>2. QED
  BY <1>1, Invariance, PTL

-----------------------------------------------------------------------------
(* The refinement of Placement.                                            *)

\* What the ranks run, as Placement sees it.
Runs == [r \in Ranks |-> IF pc[r] \in {"testing", "threw"} THEN mine[r].test ELSE None]

\* The creation of a group is the start of a test in the abstract specification.
LEMMA StartsTest ==
  ASSUME IInv, NEW start \in Ranks, NEW end \in 1 .. Size, start < end, Create(start, end)
  PROVE  \E t \in Tests, group \in SUBSET Ranks : P!StartOn(t, group)
<1>1. PICK h \in Seq(Plan) : History(h) /\ \E n \in [Ranks -> 1 .. Len(h)] : Follows(h, n)
  BY DEF IInv
<1>2. PICK n \in [Ranks -> 1 .. Len(h)] : Follows(h, n)
  BY <1>1
<1>3. Typed
  BY DEF IInv
<1> DEFINE p == h[n[start]].closed[start]
           group == start .. (end - 1)
<1>4. /\ p \in Part /\ p.start = start /\ p.end = end
      /\ p.end - p.start = Cores[p.test]
      /\ \A r \in group : r \in Ranks /\ pc[r] = "creating" /\ mine[r] = p
      /\ p.test \notin begun
  BY <1>1, <1>2, <1>3, OneGroup
<1>5. start \in group /\ start \in Int /\ end \in Int /\ p.test \in Tests
  BY <1>4, SizeAssumption DEF Ranks, Part
<1>6. /\ pc' = [r \in Ranks |-> IF r \in group THEN "testing" ELSE pc[r]]
      /\ begun' = begun \cup {mine[r].test : r \in group}
      /\ mine' = mine
  BY DEF Create
<1>7. Cardinality(group) = Cores[p.test]
  <2>1. Cardinality(start .. (end - 1)) = IF start > end - 1 THEN 0 ELSE end - 1 - start + 1
    BY <1>5, end - 1 \in Int, FS_Interval
  <2>2. end - 1 - start + 1 = end - start /\ ~(start > end - 1)
    BY <1>5
  <2>3. QED
    BY <1>4, <2>1, <2>2
<1> HIDE DEF group, p
<1>8. begun' = begun \cup {p.test}
  BY <1>4, <1>5, <1>6
<1>9. \A r \in group : Runs[r] = None
  BY <1>4 DEF Runs
<1>10. Runs' = [r \in Ranks |-> IF r \in group THEN p.test ELSE Runs[r]]
  BY <1>4, <1>6 DEF Runs
<1>11. group \in SUBSET Ranks /\ group # {}
  BY <1>4, <1>5
<1>12. P!Cardinality(group) = Cardinality(group)
  BY DEF P!Cardinality, Cardinality
<1>13. P!StartOn(p.test, group)
  BY <1>4, <1>7, <1>8, <1>9, <1>10, <1>11, <1>12 DEF P!StartOn, Runs
<1>14. QED
  BY <1>5, <1>11, <1>13

\* runAll implements what running the tests in parallel promises: a test is started
\* once, on as many idle ranks as it asks for, and a rank runs one test at a time.
THEOREM PlacementTheorem == Spec => ImplementsPlacement
<1>1. Init => P!PInit
  BY DEF Init, P!PInit
<1>2. IInv /\ [Next]_vars => [P!PNext]_<<Runs, begun>>
  <2> SUFFICES ASSUME IInv, [Next]_vars
               PROVE  P!PNext \/ (Runs' = Runs /\ begun' = begun)
    OBVIOUS
  <2>1. Typed
    BY DEF IInv
  <2>2. ASSUME NEW r \in Ranks, Ignore(r) \/ Take(r) \/ PassOver(r)
        PROVE  Runs' = Runs /\ begun' = begun
    <3>1. PICK p : Turned(r, p) /\ pc[r] = "packing"
      <4>1. PICK h \in Seq(Plan) : History(h) /\ \E n \in [Ranks -> 1 .. Len(h)] : Follows(h, n)
        BY DEF IInv
      <4>2. PICK n \in [Ranks -> 1 .. Len(h)] : Follows(h, n)
        BY <4>1
      <4>3. h[n[r]] \in Plan /\ StandsAt(r, h[n[r]])
        BY <4>2, PlanOfHistory DEF Follows
      <4>4. QED
        BY <2>2, <4>3, TurnOfRank
    <3>2. ASSUME NEW s \in Ranks
          PROVE  (IF pc'[s] \in {"testing", "threw"} THEN mine'[s].test ELSE None) = Runs[s]
      <4>1. CASE s = r
        <5>1. pc'[s] \in {"packing", "creating"}
          BY <2>1, <3>1, <4>1 DEF Typed, Turned
        <5>2. QED
          BY <3>1, <4>1, <5>1 DEF Runs
      <4>2. CASE s # r
        <5>1. pc'[s] = pc[s] /\ mine'[s] = mine[s]
          BY <2>1, <3>1, <4>2 DEF Typed, Turned, Places
        <5>2. QED
          BY <5>1 DEF Runs
      <4>3. QED
        BY <4>1, <4>2
    <3>3. QED
      BY <3>1, <3>2 DEF Runs, Turned
  <2>3. ASSUME NEW r \in Ranks, Finish(r)
        PROVE  P!PNext
    <3>1. pc[r] = "testing" /\ mine[r] # NoTest
      BY <2>3 DEF IInv, Finish, Follows, StandsAt
    <3>2. mine[r] \in Part
      BY <2>1, <3>1 DEF Typed, Places
    <3>3. Runs[r] # None
      BY <3>1, <3>2, NoTestIsNoPart DEF Runs, Part
    <3>4. Runs' = [Runs EXCEPT ![r] = None]
      <4>1. pc' = [pc EXCEPT ![r] = "packing"] /\ mine' = [mine EXCEPT ![r] = NoTest]
        BY <2>3 DEF Finish
      <4>2. \A s \in Ranks : s # r => pc'[s] = pc[s] /\ mine'[s] = mine[s]
        BY <2>1, <4>1 DEF Typed, Places
      <4>3. pc'[r] = "packing"
        BY <2>1, <4>1 DEF Typed
      <4>4. QED
        BY <4>2, <4>3 DEF Runs
    <3>5. begun' = begun
      BY <2>3 DEF Finish
    <3>6. P!Stop(r)
      BY <3>3, <3>4, <3>5 DEF P!Stop, Runs
    <3>7. QED
      BY <3>6 DEF P!PNext
  <2>4. ASSUME NEW r \in Ranks, Throw(r) \/ Arrive(r)
        PROVE  Runs' = Runs /\ begun' = begun
    <3>1. /\ mine' = mine /\ begun' = begun
          /\ \A s \in Ranks : \/ pc'[s] = pc[s]
                              \/ pc[s] = "testing" /\ pc'[s] = "threw"
                              \/ pc[s] = "packing" /\ pc'[s] = "barrier"
      BY <2>1, <2>4 DEF Throw, Arrive, Typed
    <3>2. QED
      BY <3>1 DEF Runs
  <2>5. CASE Barrier
    <3>1. /\ mine' = mine /\ begun' = begun
          /\ \A s \in Ranks : pc[s] = "barrier" /\ pc'[s] = "done"
      BY <2>5 DEF Barrier
    <3>2. QED
      BY <3>1 DEF Runs
  <2>6. ASSUME NEW start \in Ranks, NEW end \in 1 .. Size, start < end, Create(start, end)
        PROVE  P!PNext
    BY <2>6, StartsTest DEF P!PNext
  <2>7. CASE UNCHANGED vars
    BY <2>7 DEF vars, Runs
  <2>8. QED
    BY <2>2, <2>3, <2>4, <2>5, <2>6, <2>7 DEF Next, Step
<1>3. QED
  BY <1>1, <1>2, Invariance, PTL DEF Spec, ImplementsPlacement, P!PSpec, P!pvars, Runs
=============================================================================
