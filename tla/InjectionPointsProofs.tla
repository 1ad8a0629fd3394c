----------------------- MODULE InjectionPointsProofs -----------------------
(***************************************************************************)
(* Proofs about InjectionPoints: type correctness for every application,   *)
(* and that the points' stack and the actions' stacks move together as     *)
(* long as it calls configured and registered points; and about            *)
(* NestedLoops, which extends it: an application that nests its loops is   *)
(* never refused, and the stacks of the runtime are its open loops.        *)
(* RegisteredAssumption, which NestedLoops declares, is cited only by      *)
(* proofs about NSpec: what is proved of Spec does not rest on it.         *)
(***************************************************************************)
EXTENDS NestedLoops, SequenceTheorems, TLAPS

\* The two operations on the communicator stacks, and popping the open points.
LEMMA PopType ==
  ASSUME NEW S, NEW s \in Seq(S), s # << >>
  PROVE  /\ Pop(s) \in Seq(S)
         /\ Len(Pop(s)) = Len(s) - 1
         /\ \A i \in 1 .. Len(Pop(s)) : Pop(s)[i] = s[i]
         /\ Top(s) \in S
  <1> DEFINE n == Len(s) - 1
             t == SubSeq(s, 1, n)
  <1>1. n \in Nat /\ Len(s) = n + 1
    BY EmptySeq
  <1>2. \A i \in 1 .. Len(s) : s[i] \in S
    OBVIOUS
  <1>3. /\ t \in Seq(S)
        /\ Len(t) = (IF 1 <= n THEN n - 1 + 1 ELSE 0)
        /\ \A i \in 1 .. (n - 1 + 1) : t[i] = s[1 + i - 1]
    <2>1. \A i \in 1 .. n : s[i] \in S
      BY <1>1, <1>2
    <2> HIDE DEF n
    <2> QED
      BY <1>1, <2>1, SubSeqProperties
  <1> HIDE DEF t
  <1>4. Len(t) = n /\ \A i \in 1 .. n : t[i] = s[i]
    <2> HIDE DEF n
    <2> QED
      BY <1>1, <1>3
  <1>5. Pop(s) = t /\ Top(s) = s[n + 1]
    BY <1>1 DEF Pop, Top, t
  <1>6. s[n + 1] \in S
    <2> HIDE DEF n
    <2> QED
      BY <1>1, <1>2
  <1> QED
    BY <1>3, <1>4, <1>5, <1>6

LEMMA AppendType ==
  ASSUME NEW S, NEW s \in Seq(S), NEW e \in S
  PROVE  /\ Append(s, e) \in Seq(S)
         /\ Len(Append(s, e)) = Len(s) + 1
         /\ \A i \in 1 .. Len(s) : Append(s, e)[i] = s[i]
         /\ Append(s, e)[Len(s) + 1] = e
  OBVIOUS

\* Setting the stage of one open point.
LEMMA StageType ==
  ASSUME TypeOK, NEW k, NEW p \in Matches(k)
  PROVE  LET after == [active EXCEPT ![p].stage = IterType]
         IN  /\ after \in Seq(Point \cup {Null})
             /\ Len(after) = Len(active)
             /\ \A q \in 1 .. Len(active) :
                  /\ after[q] = Null <=> active[q] = Null
                  /\ active[q] # Null => after[q].comm = active[q].comm
  <1>1. p \in 1 .. Len(active) /\ active[p] \in Point
    BY DEF TypeOK, Matches
  <1>2. [active[p] EXCEPT !.stage = IterType] \in Point
    BY <1>1 DEF Point, IterType
  <1>3. [active[p] EXCEPT !.stage = IterType].comm = active[p].comm
    BY <1>1 DEF Point
  <1> DEFINE e == [active[p] EXCEPT !.stage = IterType]
             after == [active EXCEPT ![p] = e]
  <1>4. active \in Seq(Point \cup {Null}) /\ e \in Point \cup {Null} /\ p \in 1 .. Len(active)
    BY <1>1, <1>2 DEF TypeOK
  <1>5. e.comm = active[p].comm /\ e # Null /\ active[p] # Null
    BY <1>1, <1>2, <1>3, NullAssumption
  <1>6. [active EXCEPT ![p].stage = IterType] = after
    OBVIOUS
  <1> HIDE DEF e
  <1>7. /\ after \in Seq(Point \cup {Null})
        /\ Len(after) = Len(active)
        /\ \A q \in 1 .. Len(active) : after[q] = IF q = p THEN e ELSE active[q]
    BY <1>4, ExceptSeq
  <1> QED
    BY <1>5, <1>6, <1>7

LEMMA NewPointType ==
  ASSUME NEW k \in Keys, NEW c \in Comms, NEW sampled \in BOOLEAN
  PROVE  NewPoint(k, c, sampled) \in Point /\ NewPoint(k, c, sampled).comm = c
  BY DEF NewPoint, Point

\* What a call records of the tests it ran.
LEMMA RanType ==
  ASSUME NEW p \in Nat, NEW c \in Comms
  PROVE  /\ Nothing \in [pos : Nat, comm : Comms, parents : SUBSET (Nat \ {0})]
         /\ [pos |-> p, comm |-> c, parents |-> GetParents(p, c)]
              \in [pos : Nat, comm : Comms, parents : SUBSET (Nat \ {0})]
  BY CommsAssumption DEF Nothing, GetParents

-----------------------------------------------------------------------------
LEMMA TypeInit == Init => TypeOK
  BY RanType, CommsAssumption DEF Init, TypeOK, Outcomes

LEMMA TypeStart ==
  ASSUME TypeOK, NEW c \in Comms, InjectionPointStart(c)
  PROVE  commStack' \in [Actions -> Seq(Comms)] /\ leaked' \in [Actions -> Nat]
  BY AppendType DEF TypeOK, InjectionPointStart

LEMMA TypeEnd ==
  ASSUME TypeOK, ~Underflow, NEW threw \in SUBSET Actions, InjectionPointEnd(threw)
  PROVE  commStack' \in [Actions -> Seq(Comms)] /\ leaked' \in [Actions -> Nat]
  <1>1. \A a \in Actions : Pop(commStack[a]) \in Seq(Comms)
    BY PopType DEF TypeOK, Underflow
  <1> QED
    BY <1>1 DEF TypeOK, InjectionPointEnd

LEMMA TypeEndRan ==
  ASSUME TypeOK, active # << >>, Top(active) # Null
  PROVE  EndRan \in [pos : Nat, comm : Comms, parents : SUBSET (Nat \ {0})]
  <1> DEFINE S == Point \cup {Null}
  <1>0. active \in Seq(S) /\ Len(active) \in Nat
    BY DEF TypeOK
  <1>1. Top(active) \in Point
    <2>1. Top(active) \in S
      <3> HIDE DEF S
      <3> QED
        BY <1>0, PopType
    <2> QED
      BY <2>1
  <1>2. Top(active).comm \in Comms
    BY <1>1 DEF Point
  <1> QED
    BY <1>0, <1>2, RanType DEF EndRan

LEMMA TypeProper == TypeOK /\ [Next]_vars => proper' \in BOOLEAN
  <1> SUFFICES ASSUME TypeOK, [Next]_vars
               PROVE  proper' \in BOOLEAN
    OBVIOUS
  <1>1. \A threw \in SUBSET Actions : Initialize(threw) => proper' \in BOOLEAN
    BY DEF Initialize
  <1>2. \A k \in Keys : Calls(k) => proper' \in BOOLEAN
    BY DEF Calls
  <1>3. Finalize => proper' \in BOOLEAN
    BY DEF Finalize, TypeOK
  <1>4. UNCHANGED vars => proper' \in BOOLEAN
    BY DEF vars, TypeOK
  <1>5. \A k \in Keys : (\E c \in Comms : Begin(k, c)) \/ Iter(k)
                          \/ (\E threw \in SUBSET Actions : End(k, threw)) => Calls(k)
    BY DEF Begin, Iter, End
  <1> QED
    BY <1>1, <1>2, <1>3, <1>4, <1>5 DEF Next

LEMMA TypeStep == TypeOK /\ [Next]_vars => TypeOK'
  <1> SUFFICES ASSUME TypeOK, [Next]_vars
               PROVE  TypeOK'
    OBVIOUS
  <1> DEFINE Rans == [pos : Nat, comm : Comms, parents : SUBSET (Nat \ {0})]
  <1>0. Nothing \in Rans /\ proper' \in BOOLEAN
    BY RanType, CommsAssumption, TypeProper
  <1>1. ASSUME NEW threw \in SUBSET Actions, Initialize(threw)
        PROVE  TypeOK'
    <2>1. commStack' \in [Actions -> Seq(Comms)]
      BY <1>1, CommsAssumption DEF Initialize
    <2> QED
      BY <1>0, <1>1, <2>1 DEF Initialize, TypeOK, Outcomes
  <1>2. ASSUME NEW k \in Keys, NEW c \in Comms, Begin(k, c)
        PROVE  TypeOK'
    <2>1. CASE BeginUnmatched(k, c)
      <3>1. Append(active, Null) \in Seq(Point \cup {Null})
        BY DEF TypeOK
      <3> QED
        BY <1>0, <2>1, <3>1, TypeStart DEF BeginUnmatched, Done, Running, TypeOK, Outcomes
    <2>2. CASE BeginUnconfigured(k, c)
      BY <1>0, <2>2, TypeStart DEF BeginUnconfigured, Done, Running, TypeOK, Outcomes
    <2>3. ASSUME NEW sampled \in BOOLEAN, BeginMatched(k, c, sampled)
          PROVE  TypeOK'
      <3>1. Append(active, NewPoint(k, c, sampled)) \in Seq(Point \cup {Null})
        BY NewPointType DEF TypeOK
      <3>2. ran' \in Rans
        <4>1. Len(active) + 1 \in Nat
          BY DEF TypeOK
        <4> QED
          BY <1>0, <2>3, <4>1, RanType DEF BeginMatched
      <3> QED
        BY <1>0, <2>3, <3>1, <3>2, TypeStart DEF BeginMatched, Done, Running, TypeOK, Outcomes
    <2>4. CASE BeginUndefined(k)
      BY <1>0, <2>4 DEF BeginUndefined, Undefined, Running, TypeOK, Outcomes
    <2> QED
      BY <1>2, <2>1, <2>2, <2>3, <2>4 DEF Begin
  <1>3. ASSUME NEW k \in Keys, Iter(k)
        PROVE  TypeOK'
    <2>1. CASE IterRejected(k)
      BY <1>0, <2>1 DEF IterRejected, Rejected, Running, TypeOK, Outcomes
    <2>2. CASE IterUndefined(k)
      BY <1>0, <2>2 DEF IterUndefined, Undefined, Running, TypeOK, Outcomes
    <2>3. CASE IterNobody(k)
      BY <1>0, <2>3 DEF IterNobody, Done, Running, TypeOK, Outcomes
    <2>4. ASSUME NEW p \in Matches(k), NEW sampled \in BOOLEAN, IterPoint(k, p, sampled)
          PROVE  TypeOK'
      <3>1. p \in Nat /\ active[p] \in Point /\ active[p].comm \in Comms
        <4>1. p \in 1 .. Len(active) /\ active[p] # Null
          BY DEF Matches
        <4>2. active[p] \in Point
          BY <4>1 DEF TypeOK
        <4> QED
          BY <4>1, <4>2 DEF Point, TypeOK
      <3>2. ran' \in Rans
        BY <1>0, <2>4, <3>1, RanType DEF IterPoint
      <3>3. active' \in Seq(Point \cup {Null})
        BY <2>4, StageType DEF IterPoint
      <3> QED
        BY <1>0, <2>4, <3>2, <3>3 DEF IterPoint, Done, Running, TypeOK, Outcomes
    <2> QED
      BY <1>3, <2>1, <2>2, <2>3, <2>4 DEF Iter
  <1>4. ASSUME NEW k \in Keys, NEW threw \in SUBSET Actions, End(k, threw)
        PROVE  TypeOK'
    <2>1. CASE EndRejected(k)
      BY <1>0, <2>1 DEF EndRejected, Rejected, Running, TypeOK, Outcomes
    <2>2. CASE EndUndefined(k)
      BY <1>0, <2>2 DEF EndUndefined, Undefined, Running, TypeOK, Outcomes
    <2>3. CASE EndUnconfigured(k, threw)
      <3>1. ~Underflow
        BY <2>3 DEF EndUnconfigured, EndIsUndefined
      <3> QED
        BY <1>0, <2>3, <3>1, TypeEnd DEF EndUnconfigured, Done, Running, TypeOK, Outcomes
    <2>4. CASE EndPoint(k, threw)
      <3>1. ~Underflow /\ active # << >> /\ Top(active) # Null
        BY <2>4 DEF EndPoint, EndIsUndefined
      <3>2. Pop(active) \in Seq(Point \cup {Null})
        BY <3>1, PopType DEF TypeOK
      <3>3. EndRan \in Rans
        BY <3>1, TypeEndRan
      <3> QED
        BY <1>0, <2>4, <3>1, <3>2, <3>3, TypeEnd DEF EndPoint, Done, Running, TypeOK, Outcomes
    <2> QED
      BY <1>4, <2>1, <2>2, <2>3, <2>4 DEF End
  <1>5. CASE Finalize
    <2>1. ran' \in Rans
      <3>1. InitKey \in Configured /\ active # << >> /\ ~Mismatch(InitKey) => Top(active) # Null
        BY <1>5 DEF Finalize, EndIsUndefined
      <3> QED
        BY <1>0, <1>5, <3>1, TypeEndRan DEF Finalize
    <2>2. outcome' \in Outcomes
      BY <1>5 DEF Finalize, Outcomes
    <2>3. active' = << >> /\ commStack' \in [Actions -> Seq(Comms)] /\ leaked' \in [Actions -> Nat]
      <3>1. active' = << >> /\ commStack' = [a \in Actions |-> << >>] /\ leaked' = [a \in Actions |-> 0]
        BY <1>5 DEF Finalize
      <3>2. << >> \in Seq(Comms)
        BY EmptySeq
      <3> QED
        BY <3>1, <3>2
    <2>4. phase' = "finalized"
      BY <1>5 DEF Finalize
    <2>5. active' \in Seq(Point \cup {Null})
      <3> DEFINE S == Point \cup {Null}
      <3>1. << >> \in Seq(S)
        <4> HIDE DEF S
        <4> QED
          BY EmptySeq
      <3> QED
        BY <2>3, <3>1
    <2> QED
      BY <1>0, <2>1, <2>2, <2>3, <2>4, <2>5 DEF TypeOK
  <1>6. CASE UNCHANGED vars
    BY <1>0, <1>6 DEF vars, TypeOK
  <1> QED
    BY <1>1, <1>2, <1>3, <1>4, <1>5, <1>6 DEF Next

\* Whatever the application calls, the runtime's state stays well-formed:
\* every entry of the points' stack is a point or null, and every action
\* holds a stack of communicators.
THEOREM TypeCorrect == Spec => []TypeOK
  BY TypeInit, TypeStep, PTL DEF Spec

-----------------------------------------------------------------------------
(* The points' stack and the actions' stacks.  All of it is about an       *)
(* application that has called configured and registered points only.      *)

\* The conclusion of Lockstep, for such an application.
InStep ==
  \A a \in Actions :
    /\ Len(commStack[a]) = Len(active) + leaked[a]
    /\ leaked[a] = 0 => \A p \in 1 .. Len(active) : commStack[a][p] = active[p].comm
    /\ Kept(active, commStack[a])

\* While a point is open no action has run out of communicators.
LEMMA NoUnderflow ==
  ASSUME TypeOK, InStep, active # << >>
  PROVE  ~Underflow
  <1>1. Len(active) \in Nat /\ Len(active) # 0
    BY EmptySeq DEF TypeOK
  <1>2. ASSUME NEW a \in Actions, commStack[a] = << >>
        PROVE  FALSE
    <2>1. Len(commStack[a]) = 0
      BY <1>2
    <2>2. leaked[a] \in Nat /\ Len(commStack[a]) = Len(active) + leaked[a]
      BY DEF TypeOK, InStep
    <2> QED
      BY <1>1, <2>1, <2>2
  <1> QED
    BY <1>2 DEF Underflow

\* The communicator that is pushed is above those that are kept.
LEMMA KeptByStart ==
  ASSUME NEW a \in Actions, Kept(active, commStack[a]), commStack[a] \in Seq(Comms), NEW c,
         Len(active) \in Nat, Len(active') = Len(active) + 1,
         \A i \in 1 .. Len(active) : active'[i] = active[i],
         active'[Len(active) + 1].comm = c,
         Len(commStack'[a]) = Len(commStack[a]) + 1,
         \A i \in 1 .. Len(commStack[a]) : commStack'[a][i] = commStack[a][i],
         commStack'[a][Len(commStack[a]) + 1] = c
  PROVE  Kept(active', commStack'[a])
  <1> DEFINE n == Len(active)
             m == Len(commStack[a])
  <1>1. PICK f \in [1 .. n -> 1 .. m] :
          /\ \A p, q \in 1 .. n : p < q => f[p] < f[q]
          /\ \A p \in 1 .. n : commStack[a][f[p]] = active[p].comm
    BY DEF Kept, Positions
  <1> DEFINE g == [p \in 1 .. (n + 1) |-> IF p = n + 1 THEN m + 1 ELSE f[p]]
  <1>2. n \in Nat /\ m \in Nat /\ Len(active') = n + 1 /\ Len(commStack'[a]) = m + 1
    OBVIOUS
  <1>3. /\ \A i \in 1 .. n : active'[i] = active[i]
        /\ active'[n + 1].comm = c
        /\ \A i \in 1 .. m : commStack'[a][i] = commStack[a][i]
        /\ commStack'[a][m + 1] = c
    OBVIOUS
  <1> HIDE DEF n, m
  <1>4. \A p \in 1 .. n : g[p] = f[p] /\ f[p] \in 1 .. m
    BY <1>1, <1>2
  <1>5. g[n + 1] = m + 1
    BY <1>2
  <1>6. g \in [1 .. (n + 1) -> 1 .. (m + 1)]
    BY <1>1, <1>2
  <1> HIDE DEF g
  <1>7. ASSUME NEW p \in 1 .. (n + 1), NEW q \in 1 .. (n + 1), p < q
        PROVE  g[p] < g[q]
    <2>1. p \in 1 .. n /\ g[p] = f[p] /\ f[p] \in 1 .. m
      BY <1>2, <1>4, <1>7
    <2>2. CASE q = n + 1
      BY <1>2, <1>5, <2>1, <2>2
    <2>3. CASE q # n + 1
      <3>1. q \in 1 .. n
        BY <1>2, <2>3
      <3>2. f[p] < f[q] /\ g[q] = f[q]
        BY <1>1, <1>4, <1>7, <2>1, <3>1
      <3> QED
        BY <2>1, <3>2
    <2> QED
      BY <2>2, <2>3
  <1>8. ASSUME NEW p \in 1 .. (n + 1)
        PROVE  commStack'[a][g[p]] = active'[p].comm
    <2>1. CASE p = n + 1
      BY <1>3, <1>5, <2>1
    <2>2. CASE p # n + 1
      <3>1. p \in 1 .. n
        BY <1>2, <2>2
      <3>2. g[p] = f[p] /\ f[p] \in 1 .. m /\ active'[p] = active[p]
        BY <1>3, <1>4, <3>1
      <3>3. commStack'[a][f[p]] = commStack[a][f[p]]
        BY <1>3, <3>2
      <3>4. commStack[a][f[p]] = active[p].comm
        BY <1>1, <3>1
      <3> QED
        BY <3>2, <3>3, <3>4
    <2> QED
      BY <2>1, <2>2
  <1> QED
    BY <1>2, <1>6, <1>7, <1>8 DEF Kept, Positions

\* The beginning of a point puts its communicator on every stack.
LEMMA StartInStep ==
  ASSUME TypeOK, InStep, NeverNull,
         NEW c \in Comms, NEW pt \in Point, pt.comm = c,
         InjectionPointStart(c), active' = Append(active, pt)
  PROVE  InStep' /\ NeverNull'
  <1> DEFINE S == Point \cup {Null}
  <1>1. active \in Seq(S) /\ pt \in S /\ pt # Null /\ Len(active) \in Nat
    BY NullAssumption DEF TypeOK
  <1>2. /\ Len(active') = Len(active) + 1
        /\ \A i \in 1 .. Len(active) : active'[i] = active[i]
        /\ active'[Len(active) + 1] = pt
    <2> HIDE DEF S
    <2> QED
      BY <1>1, AppendType
  <1>3. NeverNull'
    BY <1>1, <1>2 DEF NeverNull
  <1>4. ASSUME NEW a \in Actions
        PROVE  /\ Len(commStack'[a]) = Len(active') + leaked'[a]
               /\ leaked'[a] = 0 => \A p \in 1 .. Len(active') : commStack'[a][p] = active'[p].comm
               /\ Kept(active', commStack'[a])
    <2>1. commStack[a] \in Seq(Comms) /\ leaked[a] \in Nat /\ leaked'[a] = leaked[a]
      BY DEF TypeOK, InjectionPointStart
    <2>2. commStack'[a] = Append(commStack[a], c)
      BY DEF InjectionPointStart
    <2>3. /\ Len(commStack[a]) = Len(active) + leaked[a]
          /\ leaked[a] = 0 => \A p \in 1 .. Len(active) : commStack[a][p] = active[p].comm
      BY DEF InStep
    <2>4. /\ Len(commStack'[a]) = Len(commStack[a]) + 1
          /\ \A i \in 1 .. Len(commStack[a]) : commStack'[a][i] = commStack[a][i]
          /\ commStack'[a][Len(commStack[a]) + 1] = c
      BY <2>1, <2>2, AppendType
    <2>5. Len(commStack'[a]) = Len(active') + leaked'[a]
      <3>1. Len(active') = Len(active) + 1 /\ Len(active) \in Nat
        BY <1>1, <1>2
      <3>2. Len(commStack'[a]) = Len(active) + leaked'[a] + 1
        BY <2>1, <2>3, <2>4
      <3>3. leaked'[a] \in Nat
        BY <2>1
      <3> QED
        BY <3>1, <3>2, <3>3, SMTT(30)
    <2>6. ASSUME leaked'[a] = 0, NEW p \in 1 .. Len(active')
          PROVE  commStack'[a][p] = active'[p].comm
      <3>1. CASE p \in 1 .. Len(active)
        BY <1>1, <1>2, <2>1, <2>3, <2>4, <2>6, <3>1
      <3>2. CASE p = Len(active) + 1
        BY <1>1, <1>2, <2>1, <2>3, <2>4, <2>6, <3>2
      <3> QED
        BY <1>1, <1>2, <2>6, <3>1, <3>2
    <2>7. Kept(active', commStack'[a])
      <3>1. Kept(active, commStack[a]) /\ commStack[a] \in Seq(Comms)
        BY <2>1 DEF InStep
      <3>2. active'[Len(active) + 1].comm = c
        BY <1>2
      <3> QED
        BY <1>1, <1>2, <2>4, <3>1, <3>2, KeptByStart
    <2> QED
      BY <2>5, <2>6, <2>7
  <1> QED
    BY <1>3, <1>4 DEF InStep

\* Whether or not the action's stack is popped with the innermost point, the
\* communicators of the points below it are kept: they are below the top.
LEMMA KeptByEnd ==
  ASSUME NEW a \in Actions, Kept(active, commStack[a]), commStack[a] \in Seq(Comms),
         Len(active) \in Nat, Len(active) # 0, Len(active') = Len(active) - 1,
         \A i \in 1 .. Len(active') : active'[i] = active[i],
         Len(commStack'[a]) \in {Len(commStack[a]) - 1, Len(commStack[a])},
         \A i \in 1 .. Len(commStack'[a]) : commStack'[a][i] = commStack[a][i]
  PROVE  Kept(active', commStack'[a])
  <1> DEFINE n == Len(active)
             m == Len(commStack[a])
             m2 == Len(commStack'[a])
  <1>1. PICK f \in [1 .. n -> 1 .. m] :
          /\ \A p, q \in 1 .. n : p < q => f[p] < f[q]
          /\ \A p \in 1 .. n : commStack[a][f[p]] = active[p].comm
    BY DEF Kept, Positions
  <1> DEFINE g == [p \in 1 .. (n - 1) |-> f[p]]
  <1>2. n \in Nat \ {0} /\ m \in Nat /\ m2 \in {m - 1, m} /\ Len(active') = n - 1
    OBVIOUS
  <1>3. /\ \A i \in 1 .. (n - 1) : active'[i] = active[i]
        /\ \A i \in 1 .. m2 : commStack'[a][i] = commStack[a][i]
    BY <1>2
  <1> HIDE DEF n, m, m2
  <1>4. \A p \in 1 .. (n - 1) : g[p] = f[p] /\ f[p] \in 1 .. m2
    <2> SUFFICES ASSUME NEW p \in 1 .. (n - 1)
                 PROVE  f[p] \in 1 .. m2
      OBVIOUS
    <2>1. p \in 1 .. n /\ n \in 1 .. n /\ p < n
      BY <1>2
    <2>2. f[p] < f[n] /\ f[p] \in 1 .. m /\ f[n] \in 1 .. m
      BY <1>1, <2>1
    <2> QED
      BY <1>2, <2>2
  <1>5. g \in [1 .. (n - 1) -> 1 .. m2]
    BY <1>4
  <1> HIDE DEF g
  <1>6. \A p, q \in 1 .. (n - 1) : p < q => g[p] < g[q]
    BY <1>1, <1>2, <1>4
  <1>7. \A p \in 1 .. (n - 1) : commStack'[a][g[p]] = active'[p].comm
    <2> SUFFICES ASSUME NEW p \in 1 .. (n - 1)
                 PROVE  commStack'[a][g[p]] = active'[p].comm
      OBVIOUS
    <2>1. p \in 1 .. n
      BY <1>2
    <2> QED
      BY <1>1, <1>3, <1>4, <2>1
  <1> QED
    BY <1>2, <1>5, <1>6, <1>7 DEF Kept, Positions, m2

\* Without open points there is nothing to keep.
LEMMA NoneToKeep == ASSUME NEW points, NEW stack, Len(points) = 0 PROVE Kept(points, stack)
  <1> DEFINE none == [p \in 1 .. 0 |-> 1]
  <1>1. none \in [1 .. 0 -> 1 .. Len(stack)] /\ \A p \in 1 .. 0 : FALSE
    OBVIOUS
  <1> QED
    BY <1>1 DEF Kept, Positions

\* The end of a point takes it off every stack whose action did not throw.
LEMMA EndInStep ==
  ASSUME TypeOK, InStep, NeverNull, active # << >>,
         NEW threw \in SUBSET Actions, InjectionPointEnd(threw), active' = Pop(active)
  PROVE  InStep' /\ NeverNull'
  <1> DEFINE S == Point \cup {Null}
  <1>1. active \in Seq(S) /\ Len(active) \in Nat /\ Len(active) # 0
    BY EmptySeq DEF TypeOK
  <1>2. /\ Len(active') = Len(active) - 1
        /\ \A i \in 1 .. Len(active') : active'[i] = active[i]
    <2> HIDE DEF S
    <2> QED
      BY <1>1, PopType
  <1>3. NeverNull'
    BY <1>1, <1>2 DEF NeverNull
  <1>4. ASSUME NEW a \in Actions
        PROVE  /\ Len(commStack'[a]) = Len(active') + leaked'[a]
               /\ leaked'[a] = 0 => \A p \in 1 .. Len(active') : commStack'[a][p] = active'[p].comm
               /\ Kept(active', commStack'[a])
    <2>1. commStack[a] \in Seq(Comms) /\ leaked[a] \in Nat
      BY DEF TypeOK
    <2>2. /\ Len(commStack[a]) = Len(active) + leaked[a]
          /\ leaked[a] = 0 => \A p \in 1 .. Len(active) : commStack[a][p] = active[p].comm
      BY DEF InStep
    <2>3. CASE a \in threw
      <3>1. commStack'[a] = commStack[a] /\ leaked'[a] = leaked[a] + 1
        BY <2>3 DEF TypeOK, InjectionPointEnd
      <3>2. Len(commStack'[a]) = Len(active') + leaked'[a]
        <4>1. Len(active') = Len(active) - 1 /\ Len(active) \in Nat
          BY <1>1, <1>2
        <4>2. Len(commStack'[a]) = Len(active) + leaked[a]
          BY <2>2, <3>1
        <4>3. leaked'[a] = leaked[a] + 1 /\ leaked[a] \in Nat
          BY <2>1, <3>1
        <4> QED
          BY <4>1, <4>2, <4>3
      <3>3. leaked'[a] # 0
        BY <2>1, <3>1
      <3>4. \A i \in 1 .. Len(commStack[a]) : commStack'[a][i] = commStack[a][i]
        BY <3>1
      <3>5. Len(commStack[a]) - 1 \in Int /\ Len(commStack'[a]) = Len(commStack[a])
        BY <2>1, <3>1
      <3>6. Kept(active', commStack'[a])
        <4>1. Kept(active, commStack[a])
          BY DEF InStep
        <4>2. Len(commStack'[a]) \in {Len(commStack[a]) - 1, Len(commStack[a])}
          BY <3>5
        <4>3. \A i \in 1 .. Len(commStack'[a]) : commStack'[a][i] = commStack[a][i]
          BY <3>4, <3>5
        <4> QED
          BY <1>1, <1>2, <2>1, <4>1, <4>2, <4>3, KeptByEnd
      <3> QED
        BY <3>2, <3>3, <3>6
    <2>4. CASE a \notin threw
      <3>1. commStack'[a] = Pop(commStack[a]) /\ leaked'[a] = leaked[a]
        BY <2>4 DEF TypeOK, InjectionPointEnd
      <3>2. commStack[a] # << >>
        BY NoUnderflow DEF Underflow
      <3>3. /\ Len(commStack'[a]) = Len(commStack[a]) - 1
            /\ \A i \in 1 .. Len(commStack'[a]) : commStack'[a][i] = commStack[a][i]
        BY <2>1, <3>1, <3>2, PopType
      <3>4. Len(commStack'[a]) = Len(active') + leaked'[a]
        <4>1. Len(active) = Len(active') + 1 /\ Len(active') \in Nat
          BY <1>1, <1>2
        <4>2. Len(commStack'[a]) + 1 = Len(active) + leaked'[a] /\ Len(commStack'[a]) \in Nat
          BY <2>1, <2>2, <3>1, <3>3
        <4>3. leaked'[a] \in Nat
          BY <2>1, <3>1
        <4> QED
          BY <4>1, <4>2, <4>3
      <3>5. ASSUME leaked'[a] = 0, NEW p \in 1 .. Len(active')
            PROVE  commStack'[a][p] = active'[p].comm
        <4>1. p \in 1 .. Len(active) /\ active'[p] = active[p]
          BY <1>1, <1>2
        <4>2. p \in 1 .. Len(commStack'[a])
          <5>1. Len(commStack'[a]) = Len(active')
            BY <1>1, <1>2, <3>4, <3>5
          <5> QED
            BY <5>1
        <4> QED
          BY <2>2, <3>1, <3>3, <3>5, <4>1, <4>2
      <3>6. Kept(active', commStack'[a])
        <4>1. Kept(active, commStack[a])
          BY DEF InStep
        <4>2. Len(commStack'[a]) \in {Len(commStack[a]) - 1, Len(commStack[a])}
          BY <3>3
        <4> QED
          BY <1>1, <1>2, <2>1, <3>3, <4>1, <4>2, KeptByEnd
      <3> QED
        BY <3>4, <3>5, <3>6
    <2> QED
      BY <2>3, <2>4
  <1> QED
    BY <1>3, <1>4 DEF InStep

\* Between Finalize and Init both kinds of stack are empty.
LEMMA InitializeInStep ==
  ASSUME LockstepInv, NEW threw \in SUBSET Actions, Initialize(threw)
  PROVE  InStep' /\ NeverNull' /\ outcome' # "undefined"
  <1>1. active = << >> /\ active' = << >>
    BY DEF LockstepInv, Initialize
  <1>2. Len(active') = 0
    BY <1>1
  <1>3. ASSUME NEW a \in Actions
        PROVE  Len(commStack'[a]) = leaked'[a] /\ leaked'[a] \in Nat
    BY DEF Initialize
  <1> QED
    BY <1>2, <1>3, NoneToKeep DEF Initialize, InStep, NeverNull

LEMMA InStepStep ==
  ASSUME LockstepInv, proper, proper', [Next]_vars
  PROVE  InStep' /\ NeverNull' /\ outcome' # "undefined"
  <1>1. TypeOK /\ InStep /\ NeverNull /\ outcome # "undefined"
    BY DEF LockstepInv, Lockstep, OpenCommsKept, Defined, InStep
  <1>2. ASSUME NEW k \in Keys, Calls(k)
        PROVE  k \in Configured /\ k \in Matched
    BY <1>2 DEF Calls
  <1>3. active # << >> => ~Underflow /\ Top(active) # Null
    <2>1. active # << >> => Len(active) \in Nat /\ Len(active) # 0
      BY <1>1, EmptySeq DEF TypeOK
    <2> QED
      BY <1>1, <2>1, NoUnderflow DEF NeverNull, Top
  <1>4. \A p \in 1 .. (Len(active) + 1) : ~NullBelow(p)
    BY <1>1 DEF NullBelow, NeverNull, TypeOK
  <1>5. UNCHANGED <<active, commStack, leaked>> => InStep' /\ NeverNull'
    BY <1>1 DEF InStep, NeverNull
  <1>6. ASSUME NEW threw \in SUBSET Actions, Initialize(threw)
        PROVE  InStep' /\ NeverNull' /\ outcome' # "undefined"
    BY <1>6, InitializeInStep
  <1>7. ASSUME NEW k \in Keys, NEW c \in Comms, Begin(k, c)
        PROVE  InStep' /\ NeverNull' /\ outcome' # "undefined"
    <2>1. ~BeginUnmatched(k, c) /\ ~BeginUnconfigured(k, c)
      BY <1>2, <1>7 DEF Begin, BeginUnmatched, BeginUnconfigured
    <2>2. ~BeginUndefined(k)
      <3>1. ~NullBelow(Len(active) + 1)
        BY <1>1, <1>4 DEF TypeOK
      <3> QED
        BY <3>1 DEF BeginUndefined
    <2>3. PICK sampled \in BOOLEAN : BeginMatched(k, c, sampled)
      BY <1>7, <2>1, <2>2 DEF Begin
    <2>4. outcome' = "ok" /\ InjectionPointStart(c) /\ active' = Append(active, NewPoint(k, c, sampled))
      BY <2>3 DEF BeginMatched, Done
    <2> QED
      BY <1>1, <2>4, NewPointType, StartInStep
  <1>8. ASSUME NEW k \in Keys, Iter(k)
        PROVE  InStep' /\ NeverNull' /\ outcome' # "undefined"
    <2>1. CASE IterRejected(k)
      BY <1>5, <2>1 DEF IterRejected, Rejected
    <2>2. ~IterUndefined(k)
      <3>1. \A q \in Scanned(k) : active[q] # Null
        BY <1>1 DEF Scanned, NeverNull
      <3>2. \A p \in Matches(k) : ~NullBelow(p)
        BY <1>1, <1>4 DEF Matches, TypeOK
      <3> QED
        BY <1>2, <1>3, <1>8, <3>1, <3>2 DEF Iter, IterUndefined
    <2>3. CASE IterNobody(k)
      BY <1>5, <2>3 DEF IterNobody, Done
    <2>4. ASSUME NEW p \in Matches(k), NEW sampled \in BOOLEAN, IterPoint(k, p, sampled)
          PROVE  InStep' /\ NeverNull' /\ outcome' # "undefined"
      <3>1. active' = [active EXCEPT ![p].stage = IterType] /\ UNCHANGED <<commStack, leaked>>
            /\ outcome' = "ok"
        BY <2>4 DEF IterPoint, Done
      <3>2. /\ Len(active') = Len(active)
            /\ \A q \in 1 .. Len(active) :
                 /\ active'[q] = Null <=> active[q] = Null
                 /\ active[q] # Null => active'[q].comm = active[q].comm
        BY <1>1, <3>1, StageType
      <3> QED
        BY <1>1, <3>1, <3>2 DEF InStep, NeverNull, Kept, Positions
    <2> QED
      BY <1>8, <2>1, <2>2, <2>3, <2>4 DEF Iter
  <1>9. ASSUME NEW k \in Keys, NEW threw \in SUBSET Actions, End(k, threw)
        PROVE  InStep' /\ NeverNull' /\ outcome' # "undefined"
    <2>1. CASE EndRejected(k)
      BY <1>5, <2>1 DEF EndRejected, Rejected
    <2>2. ~EndUndefined(k)
      <3>1. active # << >> => ~NullBelow(Len(active))
        BY <1>1 DEF NullBelow, NeverNull, TypeOK
      <3> QED
        BY <1>2, <1>3, <1>9, <3>1 DEF End, EndUndefined, EndIsUndefined
    <2>3. ~EndUnconfigured(k, threw)
      BY <1>2, <1>9 DEF End, EndUnconfigured
    <2>4. CASE EndPoint(k, threw)
      <3>1. active # << >> /\ InjectionPointEnd(threw) /\ active' = Pop(active) /\ outcome' = "ok"
        BY <2>4 DEF EndPoint, Done
      <3> QED
        BY <1>1, <3>1, EndInStep
    <2> QED
      BY <1>9, <2>1, <2>2, <2>3, <2>4 DEF End
  <1>10. CASE Finalize
    <2>1. active' = << >> /\ commStack' = [a \in Actions |-> << >>] /\ leaked' = [a \in Actions |-> 0]
      BY <1>10 DEF Finalize
    <2>2. Len(active') = 0
      BY <2>1
    <2>3. \A a \in Actions : commStack'[a] = << >> /\ leaked'[a] = 0
      BY <2>1
    <2>4. InStep'
      BY <2>2, <2>3, NoneToKeep DEF InStep
    <2>5. NeverNull'
      BY <2>2 DEF NeverNull
    <2>6. outcome' # "undefined"
      BY <1>10 DEF Finalize
    <2> QED
      BY <2>4, <2>5, <2>6
  <1>11. CASE UNCHANGED vars
    BY <1>1, <1>5, <1>11 DEF vars
  <1> QED
    BY <1>6, <1>7, <1>8, <1>9, <1>10, <1>11 DEF Next

\* Points are only on the stack between Init and Finalize.
LEMMA IdleStep ==
  ASSUME LockstepInv, [Next]_vars
  PROVE  (phase # "running" => active = << >>)'
  <1>1. CASE phase' = "running"
    BY <1>1
  <1>2. CASE UNCHANGED vars
    BY <1>2 DEF vars, LockstepInv
  <1>3. CASE Finalize
    BY <1>3 DEF Finalize
  <1>4. \A threw \in SUBSET Actions : Initialize(threw) => phase' = "running"
    BY DEF Initialize
  <1>5. \A k \in Keys, c \in Comms : Begin(k, c) => phase' = "running"
    BY DEF Begin, BeginUnmatched, BeginUnconfigured, BeginMatched, BeginUndefined,
           Done, Undefined, Running
  <1>6. \A k \in Keys : Iter(k) => phase' = "running"
    BY DEF Iter, IterRejected, IterUndefined, IterNobody, IterPoint,
           Rejected, Done, Undefined, Running
  <1>7. \A k \in Keys, threw \in SUBSET Actions : End(k, threw) => phase' = "running"
    BY DEF End, EndRejected, EndUndefined, EndUnconfigured, EndPoint,
           Rejected, Done, Undefined, Running
  <1> QED
    BY <1>1, <1>2, <1>3, <1>4, <1>5, <1>6, <1>7 DEF Next

LEMMA LockstepStep == LockstepInv /\ [Next]_vars => LockstepInv'
  <1> SUFFICES ASSUME LockstepInv, [Next]_vars
               PROVE  LockstepInv'
    OBVIOUS
  <1>1. TypeOK'
    BY TypeStep DEF LockstepInv
  <1>2. CASE proper'
    <2>1. ASSUME proper PROVE InStep' /\ NeverNull' /\ outcome' # "undefined"
      BY <1>2, <2>1, InStepStep
    <2>2. ASSUME ~proper PROVE InStep' /\ NeverNull' /\ outcome' # "undefined"
      <3>1. PICK threw \in SUBSET Actions : Initialize(threw)
        BY <1>2, <2>2 DEF Next, vars, Begin, Iter, End, Finalize, Calls
      <3> QED
        BY <3>1, InitializeInStep
    <2>3. InStep' /\ NeverNull' /\ outcome' # "undefined"
      BY <2>1, <2>2
    <2> QED
      BY <1>1, <2>3, IdleStep DEF LockstepInv, Lockstep, OpenCommsKept, Defined, InStep
  <1>3. CASE ~proper'
    BY <1>1, <1>3, IdleStep DEF LockstepInv, Lockstep, OpenCommsKept, Defined
  <1> QED
    BY <1>2, <1>3

\* The strengthening of Lockstep and Defined that every call preserves.
THEOREM LockstepInvariant == Spec => []LockstepInv
  <1>1. Init => LockstepInv
    <2> SUFFICES ASSUME Init PROVE LockstepInv
      OBVIOUS
    <2>1. Len(active) = 0
      BY DEF Init
    <2> QED
      BY <2>1, NoneToKeep, TypeInit
      DEF Init, LockstepInv, Lockstep, OpenCommsKept, Defined, NeverNull
  <1> QED
    BY <1>1, LockstepStep, PTL DEF Spec

\* As long as the application calls points that are configured and registered,
\* however badly it nests its calls, the communicators an action holds are those of
\* the open points (and one more for every handler of it that threw).
THEOREM ActionsInLockstep == Spec => []Lockstep
  <1>1. LockstepInv => Lockstep
    BY DEF LockstepInv
  <1> QED
    BY <1>1, LockstepInvariant, PTL

\* Nor does an action whose handlers threw lose the communicator of an open point:
\* what it holds contains those of the open points, in order.
THEOREM ActionsKeepOpenComms == Spec => []OpenCommsKept
  <1>1. LockstepInv => OpenCommsKept
    BY DEF LockstepInv
  <1> QED
    BY <1>1, LockstepInvariant, PTL

\* Such an application never makes the runtime dereference a null point or
\* read an empty stack of communicators.
THEOREM NeverUndefined == Spec => []Defined
  <1>1. LockstepInv => Defined
    BY DEF LockstepInv
  <1> QED
    BY <1>1, LockstepInvariant, PTL

-----------------------------------------------------------------------------
\* Every point on the stack belongs to a loop, so none is null.
LEMMA NonNull ==
  ASSUME TypeOK, StackIsLoops
  PROVE  NeverNull
  <1>1. ASSUME NEW p \in 1 .. Len(active)
        PROVE  active[p] # Null
    <2>1. PICK i \in 1 .. Len(loops) : loops[i].pos = p
      BY DEF StackIsLoops
    <2>2. p # 0
      BY DEF TypeOK
    <2>3. loops[i].key \in Configured
      BY <2>1, <2>2 DEF StackIsLoops
    <2> QED
      BY <2>1, <2>3 DEF StackIsLoops
  <1> QED
    BY <1>1 DEF NeverNull

\* Without open loops there are no points.
LEMMA NoneOpen ==
  ASSUME TypeOK, StackIsLoops, loops = << >>
  PROVE  active = << >>
  <1>1. Len(loops) = 0
    OBVIOUS
  <1>2. \A p \in 1 .. Len(active) : FALSE
    BY <1>1 DEF StackIsLoops
  <1>3. Len(active) = 0
    BY <1>2 DEF TypeOK
  <1> QED
    BY <1>3, EmptySeq DEF TypeOK

\* The point of the innermost loop, if it is configured, is the innermost point.
LEMMA TopIsLast ==
  ASSUME TypeOK, loops \in Seq(Loop), StackIsLoops, loops # << >>,
         Top(loops).key \in Configured
  PROVE  /\ active # << >> /\ Len(active) \in Nat \ {0}
         /\ Top(loops).pos = Len(active)
         /\ Top(active) # Null
         /\ Top(active).key = Top(loops).key
         /\ Top(active).comm = Top(loops).comm
         /\ Top(active).skipped = ~Top(loops).ran
  <1> DEFINE n == Len(loops)
             m == Len(active)
  <1>1. n \in Nat /\ n # 0 /\ m \in Nat /\ n \in 1 .. n
    BY EmptySeq DEF TypeOK
  <1>2. Top(loops) = loops[n]
    BY DEF Top
  <1>3. loops[n].pos \in 1 .. m
    BY <1>1, <1>2 DEF StackIsLoops
  <1>4. m \in 1 .. m
    BY <1>1, <1>3
  <1>5. PICK i \in 1 .. n : loops[i].pos = m
    BY <1>4 DEF StackIsLoops
  <1>6. i = n
    <2>1. CASE i < n
      <3>1. loops[i].pos > 0 /\ loops[n].pos > 0
        BY <1>1, <1>3, <1>4, <1>5
      <3>2. loops[i].pos < loops[n].pos
        BY <1>1, <2>1, <3>1 DEF StackIsLoops
      <3> QED
        BY <1>1, <1>3, <1>5, <3>2
    <2> QED
      BY <1>1, <2>1
  <1>7. active # << >>
    BY <1>4
  <1> QED
    BY <1>1, <1>2, <1>4, <1>5, <1>6, <1>7 DEF StackIsLoops, Top

-----------------------------------------------------------------------------
(* What the steps do to the stacks.                                        *)

\* A beginning puts the loop on the application's stack, and its point, if it is
\* configured, on the runtime's.
LEMMA BeginStack ==
  ASSUME TypeOK, loops \in Seq(Loop), StackIsLoops,
         NEW l \in Loop, loops' = Append(loops, l),
         \/ /\ l.key \in Configured /\ l.pos = Len(active) + 1
            /\ \E pt \in Point : /\ active' = Append(active, pt)
                                 /\ pt.key = l.key /\ pt.comm = l.comm /\ pt.skipped = ~l.ran
         \/ l.key \notin Configured /\ l.pos = 0 /\ ~l.ran /\ active' = active
  PROVE  StackIsLoops'
  <1> DEFINE n == Len(loops)
             m == Len(active)
             S == Point \cup {Null}
  <1>1. n \in Nat /\ m \in Nat /\ active \in Seq(S)
    BY DEF TypeOK
  <1>2. /\ Len(loops') = n + 1
        /\ \A i \in 1 .. n : loops'[i] = loops[i]
        /\ loops'[n + 1] = l
    BY AppendType
  <1>3. \A i \in 1 .. (n + 1) : i \in 1 .. n \/ i = n + 1
    BY <1>1
  <1>4. \A i \in 1 .. n : loops[i].pos \in 0 .. m
    BY <1>1 DEF StackIsLoops
  <1>5. CASE l.key \in Configured
    <2>1. PICK pt \in Point : /\ active' = Append(active, pt)
                              /\ pt.key = l.key /\ pt.comm = l.comm /\ pt.skipped = ~l.ran
      BY <1>5
    <2>2. pt \in S /\ pt # Null /\ l.pos = m + 1
      BY <1>5, NullAssumption
    <2>3. /\ Len(active') = m + 1
          /\ \A p \in 1 .. m : active'[p] = active[p]
          /\ active'[m + 1] = pt
      <3> HIDE DEF S
      <3> QED
        BY <1>1, <2>1, <2>2, AppendType
    <2>4. ASSUME NEW i \in 1 .. Len(loops')
          PROVE  IF loops'[i].key \in Configured
                 THEN /\ loops'[i].pos \in 1 .. Len(active')
                      /\ active'[loops'[i].pos] # Null
                      /\ active'[loops'[i].pos].key = loops'[i].key
                      /\ active'[loops'[i].pos].comm = loops'[i].comm
                      /\ active'[loops'[i].pos].skipped = ~loops'[i].ran
                 ELSE loops'[i].pos = 0 /\ ~loops'[i].ran
      <3>1. CASE i \in 1 .. n
        <4>1. loops'[i] = loops[i]
          BY <1>2, <3>1
        <4>2. CASE loops[i].key \in Configured
          <5>1. loops[i].pos \in 1 .. m
            BY <3>1, <4>2 DEF StackIsLoops
          <5>2. active'[loops[i].pos] = active[loops[i].pos] /\ loops[i].pos \in 1 .. (m + 1)
            BY <1>1, <2>3, <5>1
          <5> QED
            BY <2>3, <3>1, <4>1, <4>2, <5>2 DEF StackIsLoops
        <4>3. CASE loops[i].key \notin Configured
          BY <3>1, <4>1, <4>3 DEF StackIsLoops
        <4> QED
          BY <4>2, <4>3
      <3>2. CASE i = n + 1
        BY <1>1, <1>2, <1>5, <2>1, <2>2, <2>3, <3>2
      <3> QED
        BY <1>2, <1>3, <3>1, <3>2
    <2>5. ASSUME NEW p \in 1 .. Len(active')
          PROVE  \E i \in 1 .. Len(loops') : loops'[i].pos = p
      <3>1. CASE p \in 1 .. m
        <4>1. PICK i \in 1 .. n : loops[i].pos = p
          BY <3>1 DEF StackIsLoops
        <4>2. i \in 1 .. (n + 1) /\ loops'[i].pos = p
          BY <1>1, <1>2, <4>1
        <4> QED
          BY <1>2, <4>2
      <3>2. CASE p = m + 1
        BY <1>1, <1>2, <2>2, <3>2
      <3> QED
        BY <1>1, <2>3, <3>1, <3>2
    <2>6. ASSUME NEW i \in 1 .. Len(loops'), NEW j \in 1 .. Len(loops'),
                 i < j, loops'[i].pos > 0, loops'[j].pos > 0
          PROVE  loops'[i].pos < loops'[j].pos
      <3>1. i \in 1 .. n /\ loops'[i] = loops[i]
        BY <1>1, <1>2, <2>6
      <3>2. CASE j \in 1 .. n
        BY <1>2, <2>6, <3>1, <3>2 DEF StackIsLoops
      <3>3. CASE j = n + 1
        BY <1>1, <1>2, <1>4, <2>2, <3>1, <3>3
      <3> QED
        BY <1>2, <1>3, <3>2, <3>3
    <2> QED
      BY <2>4, <2>5, <2>6 DEF StackIsLoops
  <1>6. CASE l.key \notin Configured
    <2>1. active' = active /\ l.pos = 0 /\ ~l.ran
      BY <1>6
    <2>2. ASSUME NEW i \in 1 .. Len(loops')
          PROVE  IF loops'[i].key \in Configured
                 THEN /\ loops'[i].pos \in 1 .. Len(active')
                      /\ active'[loops'[i].pos] # Null
                      /\ active'[loops'[i].pos].key = loops'[i].key
                      /\ active'[loops'[i].pos].comm = loops'[i].comm
                      /\ active'[loops'[i].pos].skipped = ~loops'[i].ran
                 ELSE loops'[i].pos = 0 /\ ~loops'[i].ran
      <3>1. CASE i \in 1 .. n
        BY <1>2, <2>1, <3>1 DEF StackIsLoops
      <3>2. CASE i = n + 1
        BY <1>2, <1>6, <2>1, <3>2
      <3> QED
        BY <1>2, <1>3, <3>1, <3>2
    <2>3. ASSUME NEW p \in 1 .. Len(active')
          PROVE  \E i \in 1 .. Len(loops') : loops'[i].pos = p
      <3>1. PICK i \in 1 .. n : loops[i].pos = p
        BY <2>1 DEF StackIsLoops
      <3>2. i \in 1 .. (n + 1) /\ loops'[i].pos = p
        BY <1>1, <1>2, <3>1
      <3> QED
        BY <1>2, <3>2
    <2>4. ASSUME NEW i \in 1 .. Len(loops'), NEW j \in 1 .. Len(loops'),
                 i < j, loops'[i].pos > 0, loops'[j].pos > 0
          PROVE  loops'[i].pos < loops'[j].pos
      <3>1. i \in 1 .. n /\ loops'[i] = loops[i]
        BY <1>1, <1>2, <2>4
      <3>2. j \in 1 .. n
        BY <1>1, <1>2, <1>3, <2>1, <2>4
      <3> QED
        BY <1>2, <2>4, <3>1, <3>2 DEF StackIsLoops
    <2> QED
      BY <2>2, <2>3, <2>4 DEF StackIsLoops
  <1> QED
    BY <1>5, <1>6

\* An end takes the innermost loop off, with its point if it has one.
LEMMA EndStack ==
  ASSUME TypeOK, loops \in Seq(Loop), StackIsLoops, loops # << >>, loops' = Pop(loops),
         active' = IF Top(loops).key \in Configured THEN Pop(active) ELSE active
  PROVE  StackIsLoops'
  <1> DEFINE n == Len(loops)
             m == Len(active)
             S == Point \cup {Null}
  <1>1. n \in Nat /\ n # 0 /\ m \in Nat /\ active \in Seq(S)
    BY EmptySeq DEF TypeOK
  <1>2. Len(loops') = n - 1 /\ \A i \in 1 .. (n - 1) : loops'[i] = loops[i]
    BY PopType
  <1>3. \A i \in 1 .. (n - 1) : i \in 1 .. n /\ i < n
    BY <1>1
  <1>4. /\ Len(active') = IF Top(loops).key \in Configured THEN m - 1 ELSE m
        /\ \A p \in 1 .. Len(active') : active'[p] = active[p]
    <2>1. CASE Top(loops).key \in Configured
      <3>1. active # << >>
        BY <2>1, TopIsLast
      <3>2. Len(active') = m - 1 /\ \A p \in 1 .. Len(active') : active'[p] = active[p]
        <4>1. active' = Pop(active)
          BY <2>1
        <4> HIDE DEF S
        <4> QED
          BY <1>1, <3>1, <4>1, PopType
      <3> QED
        BY <2>1, <3>2
    <2>2. CASE Top(loops).key \notin Configured
      BY <2>2
    <2> QED
      BY <2>1, <2>2
  <1>5. loops[n] = Top(loops) /\ n \in 1 .. n
    BY <1>1 DEF Top
  \* The loops that stay keep their points.
  <1>6. ASSUME NEW i \in 1 .. (n - 1), loops[i].key \in Configured
        PROVE  loops[i].pos \in 1 .. Len(active')
    <2>1. loops[i].pos \in 1 .. m
      BY <1>3, <1>6 DEF StackIsLoops
    <2>2. CASE Top(loops).key \in Configured
      <3>1. loops[n].pos = m
        BY <1>5, <2>2, TopIsLast
      <3>2. loops[i].pos < loops[n].pos
        BY <1>1, <1>3, <1>5, <2>1, <3>1, SMTT(30) DEF StackIsLoops
      <3> QED
        BY <1>1, <1>4, <2>1, <2>2, <3>1, <3>2
    <2>3. CASE Top(loops).key \notin Configured
      BY <1>4, <2>1, <2>3
    <2> QED
      BY <2>2, <2>3
  <1>7. ASSUME NEW i \in 1 .. Len(loops')
        PROVE  IF loops'[i].key \in Configured
               THEN /\ loops'[i].pos \in 1 .. Len(active')
                    /\ active'[loops'[i].pos] # Null
                    /\ active'[loops'[i].pos].key = loops'[i].key
                    /\ active'[loops'[i].pos].comm = loops'[i].comm
                    /\ active'[loops'[i].pos].skipped = ~loops'[i].ran
               ELSE loops'[i].pos = 0 /\ ~loops'[i].ran
    <2>1. i \in 1 .. (n - 1) /\ loops'[i] = loops[i] /\ i \in 1 .. n
      BY <1>2, <1>3
    <2>2. CASE loops[i].key \in Configured
      <3>1. loops[i].pos \in 1 .. Len(active')
        BY <1>6, <2>1, <2>2
      <3>2. active'[loops[i].pos] = active[loops[i].pos]
        BY <1>4, <3>1
      <3> QED
        BY <2>1, <2>2, <3>1, <3>2 DEF StackIsLoops
    <2>3. CASE loops[i].key \notin Configured
      BY <2>1, <2>3 DEF StackIsLoops
    <2> QED
      BY <2>2, <2>3
  <1>8. ASSUME NEW p \in 1 .. Len(active')
        PROVE  \E i \in 1 .. Len(loops') : loops'[i].pos = p
    <2>1. p \in 1 .. m
      BY <1>1, <1>4
    <2>2. PICK i \in 1 .. n : loops[i].pos = p
      BY <2>1 DEF StackIsLoops
    <2>3. i # n
      <3>1. CASE Top(loops).key \in Configured
        <4>1. loops[n].pos = m /\ Len(active') = m - 1
          BY <1>4, <1>5, <3>1, TopIsLast
        <4> QED
          BY <1>1, <2>2, <4>1
      <3>2. CASE Top(loops).key \notin Configured
        <4>1. loops[n].pos = 0
          BY <1>5, <3>2 DEF StackIsLoops
        <4> QED
          BY <1>1, <2>1, <2>2, <4>1
      <3> QED
        BY <3>1, <3>2
    <2>4. i \in 1 .. (n - 1)
      BY <1>1, <2>3
    <2> QED
      BY <1>2, <2>2, <2>4
  <1>9. ASSUME NEW i \in 1 .. Len(loops'), NEW j \in 1 .. Len(loops'),
               i < j, loops'[i].pos > 0, loops'[j].pos > 0
        PROVE  loops'[i].pos < loops'[j].pos
    BY <1>2, <1>3, <1>9 DEF StackIsLoops
  <1> QED
    BY <1>7, <1>8, <1>9 DEF StackIsLoops

-----------------------------------------------------------------------------
(* What the steps do to the communicators of the actions.                  *)

\* The conclusion of ActionsFollowLoops.
Follow ==
  \A a \in Actions :
    /\ Len(commStack[a]) = Len(loops) + leaked[a]
    /\ leaked[a] = 0 => \A i \in 1 .. Len(loops) : commStack[a][i] = loops[i].comm

\* While a loop is open no action has run out of communicators.
LEMMA OpenNoUnderflow ==
  ASSUME TypeOK, loops \in Seq(Loop), Follow, loops # << >>
  PROVE  ~Underflow
  <1>1. Len(loops) \in Nat /\ Len(loops) # 0
    BY EmptySeq
  <1>2. ASSUME NEW a \in Actions, commStack[a] = << >>
        PROVE  FALSE
    <2>1. Len(commStack[a]) = 0
      BY <1>2
    <2>2. leaked[a] \in Nat /\ Len(commStack[a]) = Len(loops) + leaked[a]
      BY DEF TypeOK, Follow
    <2> QED
      BY <1>1, <2>1, <2>2
  <1> QED
    BY <1>2 DEF Underflow

\* The beginning of a loop puts its communicator on every stack, configured or not.
LEMMA BeginFollows ==
  ASSUME TypeOK, loops \in Seq(Loop), Follow,
         NEW c \in Comms, NEW l \in Loop, l.comm = c,
         InjectionPointStart(c), loops' = Append(loops, l)
  PROVE  Follow'
  <1>1. /\ Len(loops) \in Nat /\ Len(loops') = Len(loops) + 1
        /\ \A i \in 1 .. Len(loops) : loops'[i] = loops[i]
        /\ loops'[Len(loops) + 1] = l
    BY AppendType
  <1>2. ASSUME NEW a \in Actions
        PROVE  /\ Len(commStack'[a]) = Len(loops') + leaked'[a]
               /\ leaked'[a] = 0 => \A i \in 1 .. Len(loops') : commStack'[a][i] = loops'[i].comm
    <2>1. commStack[a] \in Seq(Comms) /\ leaked[a] \in Nat /\ leaked'[a] = leaked[a]
      BY DEF TypeOK, InjectionPointStart
    <2>2. commStack'[a] = Append(commStack[a], c)
      BY DEF InjectionPointStart
    <2>3. /\ Len(commStack[a]) = Len(loops) + leaked[a]
          /\ leaked[a] = 0 => \A i \in 1 .. Len(loops) : commStack[a][i] = loops[i].comm
      BY DEF Follow
    <2>4. /\ Len(commStack'[a]) = Len(commStack[a]) + 1
          /\ \A i \in 1 .. Len(commStack[a]) : commStack'[a][i] = commStack[a][i]
          /\ commStack'[a][Len(commStack[a]) + 1] = c
      BY <2>1, <2>2, AppendType
    <2>5. Len(commStack'[a]) = Len(loops') + leaked'[a]
      <3> DEFINE before == Len(loops)
                 after == Len(loops')
      <3>1. Len(commStack'[a]) = before + leaked'[a] + 1
        BY <2>1, <2>3, <2>4
      <3>2. leaked'[a] \in Nat
        BY <2>1
      <3>3. before \in Nat /\ after = before + 1
        BY <1>1
      <3>4. Len(commStack'[a]) = after + leaked'[a]
        <4> HIDE DEF before, after
        <4>1. \A n \in Nat, k \in Nat : n + k + 1 = (n + 1) + k
          OBVIOUS
        <4> QED
          BY <3>1, <3>2, <3>3, <4>1
      <3> QED
        BY <3>4
    <2>6. ASSUME leaked'[a] = 0, NEW i \in 1 .. Len(loops')
          PROVE  commStack'[a][i] = loops'[i].comm
      <3>1. CASE i \in 1 .. Len(loops)
        BY <1>1, <2>1, <2>3, <2>4, <2>6, <3>1
      <3>2. CASE i = Len(loops) + 1
        BY <1>1, <2>1, <2>3, <2>4, <2>6, <3>2
      <3> QED
        BY <1>1, <2>6, <3>1, <3>2
    <2> QED
      BY <2>5, <2>6
  <1> QED
    BY <1>2 DEF Follow

\* The end of a loop takes it off every stack whose action did not throw.
LEMMA EndFollows ==
  ASSUME TypeOK, loops \in Seq(Loop), Follow, loops # << >>,
         NEW threw \in SUBSET Actions, InjectionPointEnd(threw), loops' = Pop(loops)
  PROVE  Follow'
  <1>1. /\ Len(loops) \in Nat /\ Len(loops) # 0
        /\ Len(loops') = Len(loops) - 1
        /\ \A i \in 1 .. Len(loops') : loops'[i] = loops[i]
    BY EmptySeq, PopType
  <1>2. ASSUME NEW a \in Actions
        PROVE  /\ Len(commStack'[a]) = Len(loops') + leaked'[a]
               /\ leaked'[a] = 0 => \A i \in 1 .. Len(loops') : commStack'[a][i] = loops'[i].comm
    <2>1. commStack[a] \in Seq(Comms) /\ leaked[a] \in Nat
      BY DEF TypeOK
    <2>2. /\ Len(commStack[a]) = Len(loops) + leaked[a]
          /\ leaked[a] = 0 => \A i \in 1 .. Len(loops) : commStack[a][i] = loops[i].comm
      BY DEF Follow
    <2>3. CASE a \in threw
      <3>1. commStack'[a] = commStack[a] /\ leaked'[a] = leaked[a] + 1
        BY <2>3 DEF TypeOK, InjectionPointEnd
      <3>2. Len(commStack'[a]) = Len(loops) + leaked[a]
        BY <2>2, <3>1
      <3>3. leaked'[a] = leaked[a] + 1 /\ leaked[a] \in Nat
        BY <2>1, <3>1
      <3>4. Len(loops') = Len(loops) - 1 /\ Len(loops) \in Nat
        BY <1>1
      <3>5. Len(commStack'[a]) = Len(loops') + leaked'[a]
        BY <3>2, <3>3, <3>4
      <3> QED
        BY <3>3, <3>5
    <2>4. CASE a \notin threw
      <3>1. commStack'[a] = Pop(commStack[a]) /\ leaked'[a] = leaked[a]
        BY <2>4 DEF TypeOK, InjectionPointEnd
      <3>2. commStack[a] # << >>
        BY OpenNoUnderflow DEF Underflow
      <3>3. /\ Len(commStack'[a]) = Len(commStack[a]) - 1
            /\ \A i \in 1 .. Len(commStack'[a]) : commStack'[a][i] = commStack[a][i]
        <4>1. /\ Len(Pop(commStack[a])) = Len(commStack[a]) - 1
              /\ \A i \in 1 .. Len(Pop(commStack[a])) : Pop(commStack[a])[i] = commStack[a][i]
          BY <2>1, <3>2, PopType
        <4> QED
          BY <3>1, <4>1
      <3>4. Len(commStack'[a]) = Len(loops') + leaked'[a]
        <4>1. Len(commStack'[a]) + 1 = Len(loops) + leaked'[a] /\ Len(commStack'[a]) \in Nat
          BY <2>1, <2>2, <3>1, <3>3
        <4>2. leaked'[a] \in Nat
          BY <2>1, <3>1
        <4>3. Len(loops) = Len(loops') + 1 /\ Len(loops') \in Nat
          BY <1>1
        <4> QED
          BY <4>1, <4>2, <4>3
      <3>5. ASSUME leaked'[a] = 0, NEW i \in 1 .. Len(loops')
            PROVE  commStack'[a][i] = loops'[i].comm
        <4>1. i \in 1 .. Len(loops) /\ loops'[i] = loops[i]
          BY <1>1
        <4>2. Len(commStack'[a]) = Len(loops')
          BY <1>1, <3>4, <3>5
        <4>3. i \in 1 .. Len(commStack'[a])
          BY <4>2
        <4> QED
          BY <2>2, <3>1, <3>3, <3>5, <4>1, <4>3
      <3> QED
        BY <3>4, <3>5
    <2> QED
      BY <2>3, <2>4
  <1> QED
    BY <1>2 DEF Follow

\* Setting the stage of one open point changes nothing else about the stack.
LEMMA StageOnly ==
  ASSUME TypeOK, NEW k, NEW p \in Matches(k)
  PROVE  LET after == [active EXCEPT ![p].stage = IterType]
         IN  /\ Len(after) = Len(active)
             /\ \A q \in 1 .. Len(active) :
                  /\ after[q] = Null <=> active[q] = Null
                  /\ active[q] # Null => /\ after[q].key = active[q].key
                                         /\ after[q].comm = active[q].comm
                                         /\ after[q].skipped = active[q].skipped
  <1> DEFINE e == [active[p] EXCEPT !.stage = IterType]
             after == [active EXCEPT ![p] = e]
             S == Point \cup {Null}
  <1>1. p \in 1 .. Len(active) /\ active[p] # Null /\ active[p] \in Point
    BY DEF TypeOK, Matches
  <1>2. e \in Point
    BY <1>1 DEF Point, IterType
  <1>3. e.key = active[p].key /\ e.comm = active[p].comm /\ e.skipped = active[p].skipped
    BY <1>1 DEF Point
  <1>4. active \in Seq(S) /\ e \in S /\ e # Null
    BY <1>2, NullAssumption DEF TypeOK
  <1>5. [active EXCEPT ![p].stage = IterType] = after
    OBVIOUS
  <1>6. /\ Len(after) = Len(active)
        /\ \A q \in 1 .. Len(active) : after[q] = IF q = p THEN e ELSE active[q]
    <2> HIDE DEF e, S
    <2> QED
      BY <1>1, <1>4, ExceptSeq
  <1> HIDE DEF e
  <1> QED
    BY <1>1, <1>3, <1>4, <1>5, <1>6

-----------------------------------------------------------------------------
(* What a nested application can make the runtime do.                      *)

LEMMA TopLoop ==
  ASSUME loops \in Seq(Loop), loops # << >>
  PROVE  /\ Len(loops) \in Nat /\ Len(loops) # 0 /\ Len(loops) \in 1 .. Len(loops)
         /\ Top(loops) = loops[Len(loops)]
         /\ Top(loops) \in Loop /\ Top(loops).key \in Keys
  <1>1. Len(loops) \in Nat /\ Len(loops) # 0
    BY EmptySeq
  <1>2. loops[Len(loops)] \in Loop
    BY <1>1
  <1> QED
    BY <1>1, <1>2 DEF Top, Loop

\* Every step of the application is a step of the runtime.
LEMMA NestedIsNext == loops \in Seq(Loop) /\ [NNext]_nvars => [Next]_vars
  <1> SUFFICES ASSUME loops \in Seq(Loop), [NNext]_nvars
               PROVE  [Next]_vars
    OBVIOUS
  <1>1. ASSUME NEW threw \in SUBSET Actions, NEnd(threw)
        PROVE  Next
    <2>1. loops # << >> /\ End(Top(loops).key, threw)
      BY <1>1 DEF NEnd
    <2> QED
      BY <2>1, TopLoop DEF Next
  <1> QED
    BY <1>1 DEF NNext, NInitialize, NBegin, NIter, NFinalize, Next, nvars, vars

\* What NestedInv says between Init and Finalize.
LEMMA NestedRunning ==
  ASSUME NestedInv, phase = "running"
  PROVE  TypeOK /\ loops \in Seq(Loop) /\ StackIsLoops /\ Follow /\ NeverNull
  BY NonNull DEF NestedInv, ActionsFollowLoops, Follow

LEMMA InitializeNested ==
  ASSUME NestedInv, NEW threw \in SUBSET Actions, NInitialize(threw)
  PROVE  /\ NeverRefused' /\ StackIsLoops' /\ Follow' /\ loops' \in Seq(Loop)
         /\ \A i \in 1 .. Len(loops') : loops'[i].key = InitKey <=> i = 1
  <1>1. active = << >>
    BY NoneOpen DEF NestedInv, NInitialize, Initialize
  <1>2. loops' = << >> /\ active' = << >> /\ outcome' = "ok"
    BY <1>1 DEF NInitialize, Initialize
  <1>3. Len(loops') = 0 /\ Len(active') = 0
    BY <1>2
  <1>4. \A a \in Actions : Len(commStack'[a]) = leaked'[a] /\ leaked'[a] \in Nat
    BY DEF NInitialize, Initialize
  <1>5. loops' \in Seq(Loop)
    BY <1>2, EmptySeq
  <1> QED
    BY <1>2, <1>3, <1>4, <1>5 DEF NeverRefused, StackIsLoops, Follow

\* A beginning runs, is skipped, or is of a loop that is not configured.
LEMMA BeginCases ==
  ASSUME NestedInv, NEW k \in Keys, NEW c \in Comms, Begin(k, c)
  PROVE  \/ BeginUnconfigured(k, c)
         \/ \E sampled \in BOOLEAN : BeginMatched(k, c, sampled)
  <1>1. ~BeginUnmatched(k, c)
    BY RegisteredAssumption DEF BeginUnmatched
  <1>2. ~BeginUndefined(k)
    <2>1. NeverNull /\ Len(active) \in Nat
      BY NonNull DEF NestedInv, TypeOK
    <2>2. ~NullBelow(Len(active) + 1)
      BY <2>1 DEF NullBelow, NeverNull
    <2> QED
      BY <2>2 DEF BeginUndefined
  <1> QED
    BY <1>1, <1>2 DEF Begin

LEMMA BeginNested ==
  ASSUME NestedInv, NEW k \in Keys, NEW c \in Comms, NBegin(k, c)
  PROVE  /\ NeverRefused' /\ StackIsLoops' /\ Follow' /\ loops' \in Seq(Loop)
         /\ \A i \in 1 .. Len(loops') : loops'[i].key = InitKey <=> i = 1
  <1> DEFINE l == [key |-> k, comm |-> c, pos |-> IF k \in Configured THEN Len(active) + 1 ELSE 0,
                   ran |-> ran'.pos > 0]
  <1>1. loops' = Append(loops, l) /\ Begin(k, c) /\ (loops = << >> <=> k = InitKey)
    BY DEF NBegin
  <1>2. /\ InjectionPointStart(c) /\ phase = "running" /\ outcome' = "ok"
        /\ \/ k \notin Configured /\ active' = active /\ ran' = Nothing
           \/ \E sampled \in BOOLEAN :
                /\ k \in Configured
                /\ active' = Append(active, NewPoint(k, c, sampled))
                /\ ran'.pos = IF sampled THEN Len(active) + 1 ELSE 0
    BY <1>1, BeginCases DEF BeginUnconfigured, BeginMatched, Done, Running, Nothing
  <1>3. TypeOK /\ loops \in Seq(Loop) /\ StackIsLoops /\ Follow
    BY <1>2, NestedRunning
  <1>4. Len(active) \in Nat
    BY <1>3 DEF TypeOK
  <1>5. l \in Loop /\ l.key = k /\ l.comm = c
    <2>1. (IF k \in Configured THEN Len(active) + 1 ELSE 0) \in Nat
      BY <1>4
    <2>2. (ran'.pos > 0) \in BOOLEAN
      OBVIOUS
    <2> QED
      BY <2>1, <2>2 DEF Loop
  <1>6. \/ /\ l.key \in Configured /\ l.pos = Len(active) + 1
           /\ \E pt \in Point : /\ active' = Append(active, pt)
                                /\ pt.key = l.key /\ pt.comm = l.comm /\ pt.skipped = ~l.ran
        \/ l.key \notin Configured /\ l.pos = 0 /\ ~l.ran /\ active' = active
    <2>1. CASE k \notin Configured
      <3>1. active' = active /\ ran'.pos = 0
        BY <1>2, <2>1 DEF Nothing
      <3>2. l.key \notin Configured /\ l.pos = 0
        BY <1>5, <2>1
      <3>3. ~(ran'.pos > 0)
        BY <3>1
      <3>4. ~l.ran
        BY <3>3
      <3> QED
        BY <3>1, <3>2, <3>4
    <2>2. CASE k \in Configured
      <3>1. PICK sampled \in BOOLEAN :
              /\ active' = Append(active, NewPoint(k, c, sampled))
              /\ ran'.pos = IF sampled THEN Len(active) + 1 ELSE 0
        BY <1>2, <2>2
      <3>2. NewPoint(k, c, sampled) \in Point
        BY NewPointType
      <3>3. ran'.pos > 0 <=> sampled
        BY <1>4, <3>1
      <3>4. /\ NewPoint(k, c, sampled).key = k /\ NewPoint(k, c, sampled).comm = c
            /\ NewPoint(k, c, sampled).skipped = ~sampled
        BY DEF NewPoint
      <3>5. NewPoint(k, c, sampled).skipped = ~l.ran
        BY <3>3, <3>4
      <3> QED
        BY <1>5, <2>2, <3>1, <3>2, <3>4, <3>5
    <2> QED
      BY <2>1, <2>2
  <1> HIDE DEF l
  <1>7. StackIsLoops'
    BY <1>1, <1>3, <1>5, <1>6, BeginStack
  <1>8. Follow'
    BY <1>1, <1>2, <1>3, <1>5, BeginFollows
  <1>9. /\ loops' \in Seq(Loop)
        /\ \A i \in 1 .. Len(loops') : loops'[i].key = InitKey <=> i = 1
    <2>1. /\ loops' \in Seq(Loop) /\ Len(loops) \in Nat
          /\ Len(loops') = Len(loops) + 1
          /\ \A i \in 1 .. Len(loops) : loops'[i] = loops[i]
          /\ loops'[Len(loops) + 1] = l
      BY <1>1, <1>3, <1>5, AppendType
    <2>2. \A i \in 1 .. Len(loops) : loops[i].key = InitKey <=> i = 1
      BY DEF NestedInv
    <2>3. Len(loops) = 0 <=> k = InitKey
      BY <1>1, <1>3, EmptySeq
    <2>4. ASSUME NEW i \in 1 .. Len(loops')
          PROVE  loops'[i].key = InitKey <=> i = 1
      <3>1. CASE i \in 1 .. Len(loops)
        BY <2>1, <2>2, <3>1
      <3>2. CASE i = Len(loops) + 1
        <4>1. loops'[i].key = k
          BY <1>5, <2>1, <3>2
        <4>2. i = 1 <=> Len(loops) = 0
          BY <2>1, <3>2
        <4> QED
          BY <2>3, <4>1, <4>2
      <3> QED
        BY <2>1, <3>1, <3>2
    <2> QED
      BY <2>1, <2>4
  <1> QED
    BY <1>2, <1>7, <1>8, <1>9 DEF NeverRefused

\* An iteration of an open loop finds its point, or has none to find.
LEMMA IterCases ==
  ASSUME NestedInv, phase = "running", NEW k \in Keys, NIter(k)
  PROVE  \/ IterNobody(k)
         \/ \E p \in Matches(k), sampled \in BOOLEAN : IterPoint(k, p, sampled)
  <1>1. TypeOK /\ loops \in Seq(Loop) /\ StackIsLoops /\ Follow /\ NeverNull /\ Len(active) \in Nat
    BY NestedRunning DEF TypeOK
  <1>2. PICK i \in 1 .. Len(loops) : loops[i].key = k
    BY DEF NIter
  <1>3. ~Underflow
    <2>1. loops # << >>
      BY <1>2
    <2> QED
      BY <1>1, <2>1, OpenNoUnderflow
  <1>4. k \in Configured => active # << >>
    <2>1. k \in Configured => loops[i].pos \in 1 .. Len(active)
      BY <1>1, <1>2 DEF StackIsLoops
    <2> QED
      BY <2>1
  <1>5. \A q \in Scanned(k) : active[q] # Null
    BY <1>1 DEF Scanned, NeverNull
  <1>6. \A p \in Matches(k) : ~NullBelow(p)
    BY <1>1 DEF Matches, NullBelow, NeverNull
  <1>7. ~IterRejected(k)
    BY <1>4 DEF IterRejected
  <1>8. ~IterUndefined(k)
    BY <1>3, <1>5, <1>6 DEF IterUndefined
  <1> QED
    BY <1>7, <1>8 DEF NIter, Iter

LEMMA IterNested ==
  ASSUME NestedInv, NEW k \in Keys, NIter(k)
  PROVE  NeverRefused' /\ StackIsLoops' /\ Follow' /\ loops' = loops
  <1>1. phase = "running" /\ loops' = loops
    BY DEF NIter, Iter, IterRejected, IterUndefined, IterNobody, IterPoint,
           Rejected, Undefined, Done, Running
  <1>2. TypeOK /\ StackIsLoops /\ Follow
    BY <1>1, NestedRunning
  <1>3. CASE IterNobody(k)
    BY <1>1, <1>2, <1>3 DEF IterNobody, Done, NeverRefused, StackIsLoops, Follow
  <1>4. ASSUME NEW p \in Matches(k), NEW sampled \in BOOLEAN, IterPoint(k, p, sampled)
        PROVE  NeverRefused' /\ StackIsLoops' /\ Follow'
    <2>1. active' = [active EXCEPT ![p].stage = IterType] /\ UNCHANGED <<commStack, leaked>>
          /\ outcome' = "ok"
      BY <1>4 DEF IterPoint, Done
    <2>2. /\ Len(active') = Len(active)
          /\ \A q \in 1 .. Len(active) :
               /\ active'[q] = Null <=> active[q] = Null
               /\ active[q] # Null => /\ active'[q].key = active[q].key
                                      /\ active'[q].comm = active[q].comm
                                      /\ active'[q].skipped = active[q].skipped
      BY <1>2, <2>1, StageOnly
    <2>3. StackIsLoops'
      BY <1>1, <1>2, <2>2 DEF StackIsLoops
    <2> QED
      BY <1>1, <1>2, <2>1, <2>3 DEF NeverRefused, Follow
  <1> QED
    BY <1>1, <1>3, <1>4, IterCases

\* The end of the innermost loop is accepted, and defined.
LEMMA EndAccepted ==
  ASSUME NestedInv, phase = "running", loops # << >>
  PROVE  /\ Top(loops).key \in Configured =>
              active # << >> /\ ~Mismatch(Top(loops).key) /\ Top(active) # Null
         /\ ~EndIsUndefined(Top(loops).key)
  <1>1. TypeOK /\ loops \in Seq(Loop) /\ StackIsLoops /\ Follow /\ NeverNull /\ Len(active) \in Nat
    BY NestedRunning DEF TypeOK
  <1>2. ~Underflow
    BY <1>1, OpenNoUnderflow
  <1>3. ~NullBelow(Len(active))
    BY <1>1 DEF NullBelow, NeverNull
  <1>4. Top(loops).key \in Configured =>
          active # << >> /\ Top(active) # Null /\ Top(active).key = Top(loops).key
    BY <1>1, TopIsLast
  <1> QED
    BY <1>2, <1>3, <1>4 DEF Mismatch, EndIsUndefined

LEMMA EndCases ==
  ASSUME NestedInv, NEW threw \in SUBSET Actions, NEnd(threw)
  PROVE  /\ phase = "running" /\ phase' = phase /\ outcome' = "ok" /\ loops # << >> /\ loops' = Pop(loops)
         /\ InjectionPointEnd(threw)
         /\ IF Top(loops).key \in Configured THEN active' = Pop(active) /\ ran' = EndRan
                                             ELSE active' = active /\ ran' = Nothing
  <1> DEFINE k == Top(loops).key
  <1>1. loops # << >> /\ End(k, threw) /\ loops' = IF outcome' = "ok" THEN Pop(loops) ELSE loops
    BY DEF NEnd
  <1>2. phase = "running" /\ phase' = phase
    BY <1>1 DEF End, EndRejected, EndUndefined, EndUnconfigured, EndPoint, Rejected, Undefined, Done, Running
  <1>3. (k \in Configured => active # << >> /\ ~Mismatch(k)) /\ ~EndIsUndefined(k)
    BY <1>1, <1>2, EndAccepted
  <1>4. ~EndRejected(k) /\ ~EndUndefined(k)
    BY <1>3 DEF EndRejected, EndUndefined
  <1>5. EndUnconfigured(k, threw) \/ EndPoint(k, threw)
    BY <1>1, <1>4 DEF End
  <1> QED
    BY <1>1, <1>2, <1>5 DEF EndUnconfigured, EndPoint, Done

LEMMA EndNested ==
  ASSUME NestedInv, NEW threw \in SUBSET Actions, NEnd(threw)
  PROVE  /\ NeverRefused' /\ StackIsLoops' /\ Follow' /\ loops' \in Seq(Loop)
         /\ \A i \in 1 .. Len(loops') : loops'[i].key = InitKey <=> i = 1
  <1>1. /\ phase = "running" /\ outcome' = "ok" /\ loops # << >> /\ loops' = Pop(loops)
        /\ InjectionPointEnd(threw)
        /\ active' = IF Top(loops).key \in Configured THEN Pop(active) ELSE active
    BY EndCases
  <1>2. TypeOK /\ loops \in Seq(Loop) /\ StackIsLoops /\ Follow
    BY <1>1, NestedRunning
  <1>3. StackIsLoops'
    BY <1>1, <1>2, EndStack
  <1>4. Follow'
    BY <1>1, <1>2, EndFollows
  <1>5. /\ loops' \in Seq(Loop) /\ Len(loops') = Len(loops) - 1 /\ Len(loops) \in Nat
        /\ \A i \in 1 .. Len(loops') : loops'[i] = loops[i]
    BY <1>1, <1>2, PopType
  <1>6. \A i \in 1 .. Len(loops') : loops'[i].key = InitKey <=> i = 1
    BY <1>5 DEF NestedInv
  <1> QED
    BY <1>1, <1>3, <1>4, <1>5, <1>6 DEF NeverRefused

\* The loop that is left for Finalize to end is the initialization loop.
LEMMA FinalizeAccepted ==
  ASSUME NestedInv, NFinalize
  PROVE  /\ loops # << >> /\ Top(loops).key = InitKey /\ phase = "running"
         /\ outcome' = "ok"
         /\ ran' = IF InitKey \in Configured THEN EndRan ELSE Nothing
  <1>1. Len(loops) = 1 /\ phase = "running" /\ Finalize
    BY DEF NFinalize, Finalize
  <1>2. loops # << >>
    BY <1>1
  <1>3. Top(loops).key = InitKey
    BY <1>1 DEF NestedInv, Top
  <1>4. InitKey \in Configured => active # << >> /\ ~Mismatch(InitKey)
    BY <1>1, <1>2, <1>3, EndAccepted
  <1> QED
    BY <1>1, <1>2, <1>3, <1>4 DEF Finalize

LEMMA FinalizeNested ==
  ASSUME NestedInv, NFinalize
  PROVE  NeverRefused' /\ StackIsLoops' /\ loops' = << >> /\ phase' = "finalized"
  <1>1. loops' = << >> /\ active' = << >> /\ phase' = "finalized" /\ outcome' = "ok"
    BY FinalizeAccepted DEF NFinalize, Finalize
  <1>2. Len(loops') = 0 /\ Len(active') = 0
    BY <1>1
  <1> QED
    BY <1>1, <1>2 DEF NeverRefused, StackIsLoops

LEMMA NestedStep == NestedInv /\ [NNext]_nvars => NestedInv'
  <1> SUFFICES ASSUME NestedInv, [NNext]_nvars
               PROVE  NestedInv'
    OBVIOUS
  <1>1. loops \in Seq(Loop) /\ TypeOK'
    BY NestedIsNext, TypeStep DEF NestedInv
  <1>2. ASSUME NeverRefused' /\ StackIsLoops' /\ Follow' /\ loops' \in Seq(Loop),
               \A i \in 1 .. Len(loops') : loops'[i].key = InitKey <=> i = 1,
               phase' = "running"
        PROVE  NestedInv'
    BY <1>1, <1>2 DEF NestedInv, ActionsFollowLoops, Follow
  <1>3. ASSUME NEW threw \in SUBSET Actions, NInitialize(threw)
        PROVE  NestedInv'
    BY <1>2, <1>3, InitializeNested DEF NInitialize, Initialize
  <1>4. ASSUME NEW k \in Keys, NEW c \in Comms, NBegin(k, c)
        PROVE  NestedInv'
    <2>1. phase' = "running"
      BY <1>4, BeginCases DEF NBegin, BeginUnconfigured, BeginMatched, Done, Running
    <2> QED
      BY <1>2, <1>4, <2>1, BeginNested
  <1>5. ASSUME NEW k \in Keys, NIter(k)
        PROVE  NestedInv'
    <2>1. phase' = "running"
      BY <1>5 DEF NIter, Iter, IterRejected, IterUndefined, IterNobody, IterPoint,
             Rejected, Undefined, Done, Running
    <2>2. NeverRefused' /\ StackIsLoops' /\ Follow' /\ loops' = loops
      BY <1>5, IterNested
    <2> QED
      BY <1>1, <1>2, <2>1, <2>2 DEF NestedInv
  <1>6. ASSUME NEW threw \in SUBSET Actions, NEnd(threw)
        PROVE  NestedInv'
    BY <1>2, <1>6, EndNested, EndCases
  <1>7. CASE NFinalize
    <2>1. NeverRefused' /\ StackIsLoops' /\ loops' = << >> /\ phase' = "finalized"
      BY <1>7, FinalizeNested
    <2>2. Len(loops') = 0
      BY <2>1
    <2>3. loops' \in Seq(Loop)
      BY <2>1, EmptySeq
    <2> QED
      BY <1>1, <2>1, <2>2, <2>3 DEF NestedInv, ActionsFollowLoops
  <1>8. CASE UNCHANGED nvars
    BY <1>1, <1>8 DEF nvars, NestedInv, NeverRefused, StackIsLoops, ActionsFollowLoops
  <1> QED
    BY <1>3, <1>4, <1>5, <1>6, <1>7, <1>8 DEF NNext

\* The strengthening of the three invariants that every call of a nested application
\* preserves.
THEOREM NestedInvariant == NSpec => []NestedInv
  <1>1. NInit => NestedInv
    <2> SUFFICES ASSUME NInit PROVE NestedInv
      OBVIOUS
    <2>1. loops = << >> /\ Len(loops) = 0 /\ Len(active) = 0
      BY DEF NInit, Init
    <2>2. loops \in Seq(Loop)
      <3> HIDE DEF Loop
      <3> QED
        BY <2>1, EmptySeq
    <2>3. StackIsLoops
      BY <2>1 DEF StackIsLoops
    <2>4. NeverRefused /\ phase # "running"
      BY DEF NInit, Init, NeverRefused
    <2> QED
      BY <2>1, <2>2, <2>3, <2>4, TypeInit DEF NInit, NestedInv, ActionsFollowLoops
  <1> QED
    BY <1>1, NestedStep, PTL DEF NSpec

\* The run time never refuses a call of an application that nests its loops
\* (InjectionPointStore::getExistingInjectionPoint), nor reaches undefined behaviour in one.
THEOREM NestedNeverRefused == NSpec => []NeverRefused
  <1>1. NestedInv => NeverRefused
    BY DEF NestedInv
  <1> QED
    BY <1>1, NestedInvariant, PTL

\* The store's stack of open points (InjectionPointStore::active) is the application's
\* stack of loops, without those that are not configured.
THEOREM NestedStackIsLoops == NSpec => []StackIsLoops
  <1>1. NestedInv => StackIsLoops
    BY DEF NestedInv
  <1> QED
    BY <1>1, NestedInvariant, PTL

\* The communicators of an action (IAction::commStack) are those of the open loops,
\* configured or not, and one more for every handler that threw.
THEOREM NestedActionsFollow == NSpec => []ActionsFollowLoops
  <1>1. NestedInv => ActionsFollowLoops
    BY DEF NestedInv
  <1> QED
    BY <1>1, NestedInvariant, PTL

-----------------------------------------------------------------------------
(* What runs.                                                              *)

\* Whether the end of the innermost loop runs.
LEMMA EndRuns ==
  ASSUME TypeOK, loops \in Seq(Loop), StackIsLoops, loops # << >>,
         ran' = IF Top(loops).key \in Configured THEN EndRan ELSE Nothing
  PROVE  ran'.pos > 0 <=> Top(loops).ran
  <1>1. CASE Top(loops).key \in Configured
    <2>1. Top(active).skipped = ~Top(loops).ran /\ Len(active) \in Nat \ {0}
      BY <1>1, TopIsLast
    <2>2. Top(loops).ran \in BOOLEAN
      BY TopLoop DEF Loop
    <2>3. ran' = EndRan
      BY <1>1
    <2>4. CASE Top(loops).ran
      <3>1. ~Top(active).skipped
        BY <2>1, <2>4
      <3>2. EndRan.pos = Len(active)
        BY <3>1 DEF EndRan
      <3> QED
        BY <2>1, <2>3, <2>4, <3>2
    <2>5. CASE ~Top(loops).ran
      <3>1. Top(active).skipped
        BY <2>1, <2>5
      <3>2. EndRan.pos = 0
        BY <3>1 DEF EndRan, Nothing
      <3> QED
        BY <2>3, <2>5, <3>2
    <2> QED
      BY <2>4, <2>5
  <1>2. CASE Top(loops).key \notin Configured
    <2>1. ~Top(loops).ran
      BY <1>2, TopLoop DEF StackIsLoops
    <2>2. ran'.pos = 0
      BY <1>2 DEF Nothing
    <2> QED
      BY <2>1, <2>2
  <1> QED
    BY <1>1, <1>2

\* The tests of a loop run at its end exactly when they ran at its beginning, however
\* many loops begin, iterate and end in between (InjectionPoint::skipped).
THEOREM NestedEndRuns == NSpec => EndRunsWhatBeginRan
  <1>1. ASSUME NestedInv, [NNext]_nvars
        PROVE  [Len(loops') < Len(loops) => (ran'.pos > 0 <=> Top(loops).ran)]_nvars
    <2> SUFFICES ASSUME NNext, Len(loops') < Len(loops)
                 PROVE  ran'.pos > 0 <=> Top(loops).ran
      BY <1>1
    <2>0. TypeOK /\ loops \in Seq(Loop) /\ StackIsLoops
      BY <1>1 DEF NestedInv
    <2>1. ASSUME NEW threw \in SUBSET Actions, NInitialize(threw)
          PROVE  FALSE
      <3>1. loops' = loops
        BY <1>1, <2>1 DEF NestedInv, NInitialize, Initialize
      <3>2. Len(loops') = Len(loops) /\ Len(loops) \in Nat
        BY <2>0, <3>1
      <3> QED
        BY <3>2
    <2>2. ASSUME NEW k \in Keys, NEW c \in Comms, NBegin(k, c)
          PROVE  FALSE
      <3>1. PICK l : loops' = Append(loops, l)
        BY <2>2 DEF NBegin
      <3>2. Len(loops') = Len(loops) + 1 /\ Len(loops) \in Nat
        BY <2>0, <3>1
      <3> QED
        BY <3>2
    <2>3. ASSUME NEW k \in Keys, NIter(k)
          PROVE  FALSE
      BY <2>0, <2>3 DEF NIter
    <2>4. ASSUME NEW threw \in SUBSET Actions, NEnd(threw)
          PROVE  ran'.pos > 0 <=> Top(loops).ran
      <3>1. loops # << >> /\ ran' = IF Top(loops).key \in Configured THEN EndRan ELSE Nothing
        BY <1>1, <2>4, EndCases
      <3> QED
        BY <2>0, <3>1, EndRuns
    <2>5. CASE NFinalize
      <3>1. loops # << >> /\ ran' = IF Top(loops).key \in Configured THEN EndRan ELSE Nothing
        BY <1>1, <2>5, FinalizeAccepted
      <3> QED
        BY <2>0, <3>1, EndRuns
    <2> QED
      BY <2>1, <2>2, <2>3, <2>4, <2>5 DEF NNext
  <1> QED
    BY <1>1, NestedInvariant, PTL DEF NSpec, EndRunsWhatBeginRan

\* The loops a run of the point at position p takes along.
LEMMA ParentLoops ==
  ASSUME TypeOK, loops \in Seq(Loop), StackIsLoops,
         NEW p \in 1 .. (Len(active) + 1), NEW c,
         NEW j \in 1 .. Len(loops), loops[j].pos > 0
  PROVE  loops[j].pos \in GetParents(p, c)
           <=> loops[j].pos < p /\ loops[j].ran /\ loops[j].comm = c
  <1> DEFINE q == loops[j].pos
  <1>1. loops[j].key \in Configured
    <2>1. q # 0
      OBVIOUS
    <2> QED
      BY <2>1 DEF StackIsLoops
  <1>2. /\ q \in 1 .. Len(active) /\ active[q].comm = loops[j].comm
        /\ active[q].skipped = ~loops[j].ran
    BY <1>1 DEF StackIsLoops
  <1>3. loops[j].ran \in BOOLEAN
    <2>1. loops[j] \in Loop
      OBVIOUS
    <2> QED
      BY <2>1 DEF Loop
  <1>4. Len(active) \in Nat
    BY DEF TypeOK
  <1>5. q \in 1 .. (p - 1) <=> q < p
    <2> HIDE DEF q
    <2> QED
      BY <1>2, <1>4
  <1>6. q \in GetParents(p, c) <=> q \in 1 .. (p - 1) /\ ~active[q].skipped /\ active[q].comm = c
    BY DEF GetParents
  <1> QED
    BY <1>2, <1>3, <1>5, <1>6

\* A call runs nothing, or one point with the parents the store gives it.
LEMMA RanForm ==
  ASSUME NestedInv, NNext
  PROVE  \/ ran'.pos = 0
         \/ \E p \in 1 .. (Len(active) + 1) : \E c : ran' = [pos |-> p, comm |-> c, parents |-> GetParents(p, c)]
  <1>0. Len(active) \in Nat
    BY DEF NestedInv, TypeOK
  <1>1. ASSUME NEW k \in Keys, NEW c \in Comms, NBegin(k, c)
        PROVE  ran'.pos = 0 \/ ran' = [pos |-> Len(active) + 1, comm |-> c, parents |-> GetParents(Len(active) + 1, c)]
    <2>1. BeginUnconfigured(k, c) \/ \E sampled \in BOOLEAN : BeginMatched(k, c, sampled)
      BY <1>1, BeginCases DEF NBegin
    <2> QED
      BY <2>1 DEF BeginUnconfigured, BeginMatched, Nothing
  <1>2. ASSUME NEW k \in Keys, NIter(k)
        PROVE  ran'.pos = 0 \/ \E p \in 1 .. Len(active) :
                 ran' = [pos |-> p, comm |-> active[p].comm, parents |-> GetParents(p, active[p].comm)]
    <2>1. phase = "running"
      BY <1>2 DEF NIter, Iter, IterRejected, IterUndefined, IterNobody, IterPoint,
             Rejected, Undefined, Done, Running
    <2>2. CASE IterNobody(k)
      BY <2>2 DEF IterNobody, Nothing
    <2>3. ASSUME NEW p \in Matches(k), NEW sampled \in BOOLEAN, IterPoint(k, p, sampled)
          PROVE  \/ ran'.pos = 0
                 \/ /\ p \in 1 .. Len(active)
                    /\ ran' = [pos |-> p, comm |-> active[p].comm, parents |-> GetParents(p, active[p].comm)]
      BY <2>3 DEF IterPoint, Matches, Nothing
    <2> QED
      BY <1>2, <2>1, <2>2, <2>3, IterCases
  <1>3. ASSUME loops # << >>, phase = "running",
               ran' = IF Top(loops).key \in Configured THEN EndRan ELSE Nothing
        PROVE  ran'.pos = 0 \/ \E p \in 1 .. Len(active) : \E c :
                 ran' = [pos |-> p, comm |-> c, parents |-> GetParents(p, c)]
    <2>1. CASE Top(loops).key \in Configured
      <3>1. Len(active) \in 1 .. Len(active)
        BY <1>3, <2>1, TopIsLast DEF NestedInv
      <3>2. ran' = EndRan
        BY <1>3, <2>1
      <3>3. \/ EndRan = Nothing
            \/ EndRan = [pos |-> Len(active), comm |-> Top(active).comm,
                         parents |-> GetParents(Len(active), Top(active).comm)]
        BY DEF EndRan
      <3>4. Nothing.pos = 0
        BY DEF Nothing
      <3> QED
        BY <3>1, <3>2, <3>3, <3>4
    <2>2. CASE Top(loops).key \notin Configured
      BY <1>3, <2>2 DEF Nothing
    <2> QED
      BY <2>1, <2>2
  <1>4. ASSUME NEW threw \in SUBSET Actions, NInitialize(threw)
        PROVE  ran'.pos = 0
    BY <1>4 DEF NInitialize, Initialize, Nothing
  <1>5. ASSUME NEW threw \in SUBSET Actions, NEnd(threw)
        PROVE  /\ loops # << >> /\ phase = "running"
               /\ ran' = IF Top(loops).key \in Configured THEN EndRan ELSE Nothing
    BY <1>5, EndCases
  <1>6. ASSUME NFinalize
        PROVE  /\ loops # << >> /\ phase = "running"
               /\ ran' = IF Top(loops).key \in Configured THEN EndRan ELSE Nothing
    BY <1>6, FinalizeAccepted
  <1>7. \A p \in 1 .. Len(active) : p \in 1 .. (Len(active) + 1)
    BY <1>0
  <1>8. Len(active) + 1 \in 1 .. (Len(active) + 1)
    BY <1>0
  <1>9. CASE \E k \in Keys, c \in Comms : NBegin(k, c)
    <2> DEFINE p == Len(active) + 1
    <2>1. PICK k \in Keys, c \in Comms : NBegin(k, c)
      BY <1>9
    <2>2. ran'.pos = 0 \/ ran' = [pos |-> p, comm |-> c, parents |-> GetParents(p, c)]
      BY <1>1, <2>1
    <2>3. p \in 1 .. p
      BY <1>8
    <2> HIDE DEF p
    <2>4. ran'.pos = 0 \/ \E q \in 1 .. p : \E d : ran' = [pos |-> q, comm |-> d, parents |-> GetParents(q, d)]
      BY <2>2, <2>3
    <2> QED
      BY <2>4 DEF p
  <1>10. CASE \E k \in Keys : NIter(k)
    BY <1>2, <1>7, <1>10
  <1>11. CASE (\E threw \in SUBSET Actions : NEnd(threw)) \/ NFinalize
    BY <1>3, <1>5, <1>6, <1>7, <1>11
  <1> QED
    BY <1>4, <1>9, <1>10, <1>11 DEF NNext

\* The tests a loop takes along are those of the open loops around it, on the same
\* communicator, that began by running (InjectionPointStore::getParents): all of them
\* and no others.
THEOREM NestedEnclosing == NSpec => EnclosingLoopsRun
  <1>1. ASSUME NestedInv, [NNext]_nvars
        PROVE  [ran'.pos > 0 =>
                  \A j \in 1 .. Len(loops) :
                    loops[j].pos > 0 =>
                      (loops[j].pos \in ran'.parents
                         <=> loops[j].pos < ran'.pos /\ loops[j].ran /\ loops[j].comm = ran'.comm)]_nvars
    <2> SUFFICES ASSUME NNext, ran'.pos > 0, NEW j \in 1 .. Len(loops), loops[j].pos > 0
                 PROVE  loops[j].pos \in ran'.parents
                          <=> loops[j].pos < ran'.pos /\ loops[j].ran /\ loops[j].comm = ran'.comm
      BY <1>1
    <2>1. ran'.pos # 0
      OBVIOUS
    <2>2. PICK p \in 1 .. (Len(active) + 1) :
            \E c : ran' = [pos |-> p, comm |-> c, parents |-> GetParents(p, c)]
      BY <1>1, <2>1, RanForm
    <2>3. PICK c : ran' = [pos |-> p, comm |-> c, parents |-> GetParents(p, c)]
      BY <2>2
    <2>4. ran'.pos = p /\ ran'.comm = c /\ ran'.parents = GetParents(p, c)
      BY <2>3
    <2>5. loops[j].pos \in GetParents(p, c) <=> loops[j].pos < p /\ loops[j].ran /\ loops[j].comm = c
      BY <1>1, ParentLoops DEF NestedInv
    <2> QED
      BY <2>4, <2>5
  <1> QED
    BY <1>1, NestedInvariant, PTL DEF NSpec, EnclosingLoopsRun

\* The loop whose point an iteration fetches is the innermost open one with its key.
LEMMA FetchedIsInnermost ==
  ASSUME TypeOK, loops \in Seq(Loop), StackIsLoops,
         NEW k \in Configured, NEW p, IsFetched(k, p)
  PROVE  loops[InnermostLoop(k)].pos = p
  <1> DEFINE Innermost(i) ==
               loops[i].key = k /\ \A j \in (i + 1) .. Len(loops) : loops[j].key # k
  <1>0. Len(loops) \in Nat /\ Len(active) \in Nat
    BY DEF TypeOK
  <1>1. /\ p \in 1 .. Len(active) /\ p # 0 /\ active[p].key = k
        /\ \A q \in 1 .. Len(active) : active[q] # Null /\ active[q].key = k => q <= p
    BY <1>0 DEF IsFetched, Matches
  <1>2. PICK i \in 1 .. Len(loops) : loops[i].pos = p
    BY <1>1 DEF StackIsLoops
  <1>3. loops[i].key \in Configured
    BY <1>1, <1>2 DEF StackIsLoops
  <1>4. loops[i].key = k
    BY <1>1, <1>2, <1>3 DEF StackIsLoops
  <1>5. ASSUME NEW j \in 1 .. Len(loops), j > i
        PROVE  loops[j].key # k
    <2> SUFFICES ASSUME loops[j].key = k PROVE FALSE
      OBVIOUS
    <2> DEFINE q == loops[j].pos
    <2>1. q \in 1 .. Len(active) /\ active[q] # Null /\ active[q].key = k
      BY DEF StackIsLoops
    <2>2. q > 0 /\ p > 0
      BY <1>0, <1>1, <2>1
    <2>3. p < q
      BY <1>2, <1>5, <2>2 DEF StackIsLoops
    <2>4. q <= p
      BY <1>1, <2>1
    <2> HIDE DEF q
    <2> QED
      BY <1>0, <1>1, <2>1, <2>3, <2>4
  <1>6. Innermost(i)
    <2>1. \A j \in (i + 1) .. Len(loops) : j \in 1 .. Len(loops) /\ j > i
      BY <1>0
    <2> QED
      BY <1>4, <1>5, <2>1
  <1>7. ASSUME NEW h \in 1 .. Len(loops), Innermost(h)
        PROVE  h = i
    <2>1. ~(h < i)
      <3>1. h < i => i \in (h + 1) .. Len(loops)
        BY <1>0
      <3> QED
        BY <1>4, <1>7, <3>1
    <2>2. ~(h > i)
      BY <1>5, <1>7
    <2> QED
      BY <1>0, <2>1, <2>2
  <1>8. InnermostLoop(k) \in 1 .. Len(loops) /\ Innermost(InnermostLoop(k))
    BY <1>6 DEF InnermostLoop
  <1> HIDE DEF Innermost
  <1>9. InnermostLoop(k) = i
    BY <1>7, <1>8
  <1> QED
    BY <1>2, <1>9

\* An iteration runs the innermost open loop with its key, however many loops of that
\* key are open, or nothing (InjectionPointStore::fetchFromQueue).
THEOREM NestedIterations == NSpec => IterationsAreInnermost
  <1>1. ASSUME NestedInv, [NNext]_nvars
        PROVE  [\A k \in Configured :
                  NIter(k) => ran'.pos \in {0, loops[InnermostLoop(k)].pos}]_nvars
    <2> SUFFICES ASSUME NEW k \in Configured, NIter(k)
                 PROVE  ran'.pos \in {0, loops[InnermostLoop(k)].pos}
      OBVIOUS
    <2>1. phase = "running"
      BY DEF NIter, Iter, IterRejected, IterUndefined, IterNobody, IterPoint,
             Rejected, Undefined, Done, Running
    <2>2. CASE IterNobody(k)
      BY <2>2 DEF IterNobody, Nothing
    <2>3. ASSUME NEW p \in Matches(k), NEW sampled \in BOOLEAN, IterPoint(k, p, sampled)
          PROVE  ran'.pos \in {0, loops[InnermostLoop(k)].pos}
      <3>1. IsFetched(k, p) /\ (ran'.pos = p \/ ran'.pos = 0)
        BY <2>3 DEF IterPoint, Nothing
      <3>2. loops[InnermostLoop(k)].pos = p
        BY <1>1, <3>1, FetchedIsInnermost DEF NestedInv
      <3> QED
        BY <3>1, <3>2
    <2>4. k \in Keys
      BY KeysAssumption
    <2> QED
      BY <1>1, <2>1, <2>2, <2>3, <2>4, IterCases
  <1> QED
    BY <1>1, NestedInvariant, PTL DEF NSpec, IterationsAreInnermost
=============================================================================
