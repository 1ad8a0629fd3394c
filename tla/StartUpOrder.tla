------------------------------ MODULE StartUpOrder ------------------------------
(***************************************************************************)
(* Proofs about the logger of StartUp: a message is in one place, and as   *)
(* long as nothing is refused messages keep the order of the program, in   *)
(* files and streams and by their numbers.                                 *)
(*                                                                         *)
(* One place and the order on a rank need only the rank itself.  For the   *)
(* numbers, which the members of a communicator agree on, it must be known *)
(* that they do so for the same message: what all ranks have to do up to   *)
(* the options node follows one course, and a rank's next agreement is for *)
(* the message that waits there longest, so ranks that meet mean the same. *)
(***************************************************************************)
EXTENDS StartUpProofs

-----------------------------------------------------------------------------
(* How a message moves.                                                    *)

\* What a rank still holds of the list it flushes: all but the first when that is being delivered.
LEMMA HeldIs ==
  calls # << >> /\ StartTyped =>
    \A q \in Ranks : Held(q) = IF Has(q, "pop") THEN Tail(saved[q]) ELSE saved[q]
<1> SUFFICES ASSUME calls # << >>, StartTyped, NEW q \in Ranks
             PROVE  Held(q) = IF Has(q, "pop") THEN Tail(saved[q]) ELSE saved[q]
  OBVIOUS
<1>1. todo[q] \in Seq(AnyStep) /\ DOMAIN todo[q] = 1 .. Len(todo[q])
  BY DEF StartTyped
<1>2. Past(q, "pop") <=> ~Has(q, "pop")
  BY <1>1 DEF Past, Has, HasOp
<1>3. QED
  BY <1>2 DEF Held

\* The same after a step.
LEMMA HeldIsThen ==
  (calls # << >> /\ StartTyped =>
    \A q \in Ranks : Held(q) = IF Has(q, "pop") THEN Tail(saved[q]) ELSE saved[q])'
BY HeldIs, PTL

\* What operations there are later.
Later(q, op) == \E m \in 2 .. Len(todo[q]) : todo[q][m].op = op

\* What a rank has to do later, and after a step.
LEMMA LaterFacts ==
  ASSUME StartTyped, NEW q \in Ranks, Handling(q), NEW first, Does(q, first)
  PROVE  /\ todo[q] \in Seq(AnyStep) /\ first \in Seq(AnyStep) /\ todo'[q] \in Seq(AnyStep) /\ Len(first) \in 0 .. 5
         /\ todo[q] # << >> /\ todo[q][1] \in AnyStep /\ Replaces(todo[q], first, todo'[q])
         /\ \A op : Has(q, op) <=> todo[q][1].op = op \/ Later(q, op)
         /\ \A op : Has(q, op)' <=> HasOp(first, op) \/ Later(q, op)
         /\ \A op : Later(q, op) => MayPrecede(todo[q][1].op, op)
         /\ HasOp(first, "pop") => todo[q][1].op = "flush"
         /\ \A op \in {"line", "name", "writeLog"} : HasOp(first, op) => todo[q][1].op = "deliver"
<1> DEFINE s == todo[q]
           t == todo'[q]
           o == todo[q][1]
<1>1. /\ s \in Seq(AnyStep) /\ s # << >> /\ Len(s) \in Nat /\ 1 \in 1 .. Len(s) /\ o \in AnyStep
      /\ first \in Seq(AnyStep) /\ Len(first) \in 0 .. 5 /\ (first # << >> => Brings(o, first))
      /\ t \in Seq(AnyStep) /\ Replaces(s, first, t)
      /\ \A m \in 2 .. Len(s) : m \in 1 .. Len(s) /\ MayPrecede(o.op, s[m].op)
  BY DoesFacts DEF Handling
<1>2. \A op : HasOp(t, op) <=> HasOp(first, op) \/ Later(q, op)
  BY <1>1, HasFacts DEF Later
<1>3. \A op : HasOp(s, op) <=> o.op = op \/ Later(q, op)
  <2>1. \A m \in 1 .. Len(s) : m = 1 \/ m \in 2 .. Len(s)
    BY <1>1
  <2>2. QED
    BY <1>1, <2>1 DEF HasOp, Later
<1>4. \A op : Later(q, op) => MayPrecede(o.op, op)
  BY <1>1 DEF Later
<1>5. ASSUME NEW i \in 1 .. Len(first)
      PROVE  /\ first[i].op = "pop" => o.op = "flush"
             /\ first[i].op \in {"line", "name", "writeLog"} => o.op = "deliver"
  <2>1. Brings(o, first)
    BY <1>1, <1>5
  <2>2. QED
    BY <1>1, <1>5, <2>1, BringsFacts
<1>6. /\ HasOp(first, "pop") => o.op = "flush"
      /\ \A op \in {"line", "name", "writeLog"} : HasOp(first, op) => o.op = "deliver"
  BY <1>5 DEF HasOp
<1>7. QED
  BY <1>1, <1>2, <1>3, <1>4, <1>6 DEF Has

\* What is held of the saved messages.
LEMMA HeldSteps ==
  ASSUME StartTyped, StartTyped', calls # << >>, calls' = calls, NEW q \in Ranks, Handling(q), NEW first, Does(q, first)
  PROVE  LET o == todo[q][1]
         IN  /\ Held(q) \in Seq(Nat)
             /\ o.op = "say" /\ first = << >> => Held(q)' = Append(Held(q), o.msg)
             /\ o.op = "flush" /\ first # << >> => /\ Held(q) # << >> /\ Held(q)' = Tail(Held(q))
                                                   /\ first = <<Deliver(Held(q)[1]), Op("pop"), Op("flush")>>
             /\ ~(o.op = "say" /\ first = << >>) /\ ~(o.op = "flush" /\ first # << >>) => Held(q)' = Held(q)
<1> DEFINE o == todo[q][1]
<1>1. /\ \A op : Has(q, op) <=> o.op = op \/ Later(q, op)
      /\ \A op : Has(q, op)' <=> HasOp(first, op) \/ Later(q, op)
      /\ \A op : Later(q, op) => MayPrecede(o.op, op)
      /\ HasOp(first, "pop") => o.op = "flush"
  BY LaterFacts
<1>2. Held(q) = IF Has(q, "pop") THEN Tail(saved[q]) ELSE saved[q]
  BY HeldIs
<1>3. Held(q)' = IF Has(q, "pop")' THEN Tail(saved'[q]) ELSE saved'[q]
  BY HeldIsThen
<1>4. saved[q] \in Seq(Nat) /\ (Has(q, "pop") => saved[q] # << >>)
  BY DEF StartTyped, Handling, Has
<1>5. Held(q) \in Seq(Nat)
  BY <1>2, <1>4, HeadTailProperties
<1>6. o.op \in {"say", "flush", "pop"} => ~Later(q, "pop")
  BY <1>1 DEF MayPrecede, Wild
<1>7. CASE o.op = "say"
  BY <1>1, <1>2, <1>3, <1>5, <1>6, <1>7 DEF Does
<1>8. CASE o.op = "flush"
  <2>1. saved'[q] = saved[q] /\ ~Has(q, "pop")
    BY <1>1, <1>6, <1>8 DEF Does
  <2>2. CASE saved[q] = << >>
    <3>1. first = << >>
      BY <1>8, <2>2 DEF Does
    <3>2. ~HasOp(first, "pop")
      BY <3>1 DEF HasOp
    <3>3. QED
      BY <1>1, <1>2, <1>3, <1>5, <1>6, <1>8, <2>1, <3>1, <3>2
  <2>3. CASE saved[q] # << >>
    <3>1. first = <<Deliver(Head(saved[q])), Op("pop"), Op("flush")>>
      BY <1>8, <2>3 DEF Does
    <3>2. Len(first) = 3 /\ first[2] = Op("pop") /\ first # << >>
      BY <3>1
    <3>3. HasOp(first, "pop")
      BY <3>2 DEF HasOp, Op
    <3>4. Head(saved[q]) = saved[q][1]
      BY <1>4, <2>3, HeadTailProperties
    <3>5. QED
      BY <1>1, <1>2, <1>3, <1>5, <1>8, <2>1, <2>3, <3>1, <3>2, <3>3, <3>4
  <2>4. QED
    BY <2>2, <2>3
<1>9. CASE o.op = "pop"
  <2>1. saved'[q] = Tail(saved[q]) /\ Has(q, "pop") /\ ~Has(q, "pop")'
    BY <1>1, <1>6, <1>9 DEF Does
  <2>2. QED
    BY <1>2, <1>3, <1>5, <1>9, <2>1
<1>10. CASE o.op \notin {"say", "flush", "pop"}
  BY <1>1, <1>2, <1>3, <1>5, <1>10 DEF Does
<1>11. QED
  BY <1>7, <1>8, <1>9, <1>10

\* What is to be delivered.
LEMMA DeliversSteps ==
  ASSUME StartTyped, NEW q \in Ranks, Handling(q), NEW first, Does(q, first)
  PROVE  LET o == todo[q][1]
         IN  /\ o.op = "say" /\ first # << >> => \A n : Delivers(q, n)' <=> Delivers(q, n) \/ n = o.msg
             /\ o.op = "flush" /\ first # << >> => \A n : Delivers(q, n)' <=> Delivers(q, n) \/ n = saved[q][1]
             /\ o.op = "deliver" => /\ \A n : Delivers(q, n) <=> Delivers(q, n)' \/ n = o.msg
                                    /\ \A n : Delivers(q, n)' <=> \E m \in 2 .. Len(todo[q]) : todo[q][m] = Deliver(n)
             /\ o.op # "deliver" /\ (o.op \notin {"say", "flush"} \/ first = << >>) =>
                  \A n : Delivers(q, n)' <=> Delivers(q, n)
<1> DEFINE s == todo[q]
           t == todo'[q]
           o == todo[q][1]
           later(n) == \E m \in 2 .. Len(s) : s[m] = Deliver(n)
           new(n) == \E i \in 1 .. Len(first) : first[i] = Deliver(n)
<1>1. /\ s \in Seq(AnyStep) /\ s # << >> /\ Len(s) \in Nat /\ 1 \in 1 .. Len(s) /\ o \in AnyStep
      /\ first \in Seq(AnyStep) /\ Len(first) \in 0 .. 5 /\ (first # << >> => Brings(o, first))
      /\ t \in Seq(AnyStep) /\ Replaces(s, first, t)
      /\ \A i \in 1 .. Len(t) : \/ i \in 1 .. Len(first) /\ t[i] = first[i]
                                \/ \E m \in 2 .. Len(s) : t[i] = s[m]
      /\ \A m \in 2 .. Len(s) : \E i \in 1 .. Len(t) : t[i] = s[m]
      /\ \A i \in 1 .. Len(first) : i \in 1 .. Len(t) /\ t[i] = first[i]
  BY DoesFacts DEF Handling
<1>2. \A n : Delivers(q, n)' <=> new(n) \/ later(n)
  <2>1. \A n : Delivers(q, n)' <=> \E i \in 1 .. Len(t) : t[i] = Deliver(n)
    BY DEF Delivers
  <2>2. ASSUME NEW n, NEW i \in 1 .. Len(t), t[i] = Deliver(n)
        PROVE  new(n) \/ later(n)
    BY <1>1, <2>2
  <2>3. ASSUME NEW n, NEW i \in 1 .. Len(first), first[i] = Deliver(n)
        PROVE  \E k \in 1 .. Len(t) : t[k] = Deliver(n)
    BY <1>1, <2>3
  <2>4. ASSUME NEW n, NEW m \in 2 .. Len(s), s[m] = Deliver(n)
        PROVE  \E k \in 1 .. Len(t) : t[k] = Deliver(n)
    <3>1. PICK k \in 1 .. Len(t) : t[k] = s[m]
      BY <1>1
    <3>2. QED
      BY <2>4, <3>1
  <2>5. QED
    BY <2>1, <2>2, <2>3, <2>4
<1>3. \A n : Delivers(q, n) <=> o = Deliver(n) \/ later(n)
  <2>1. \A m \in 1 .. Len(s) : m = 1 \/ m \in 2 .. Len(s)
    BY <1>1
  <2>2. \A m \in 2 .. Len(s) : m \in 1 .. Len(s)
    BY <1>1
  <2>3. QED
    BY <1>1, <2>1, <2>2 DEF Delivers
<1>4. \A n : o = Deliver(n) <=> o.op = "deliver" /\ o.msg = n
  <2>1. o.op = "deliver" => o = Deliver(o.msg)
    BY <1>1, StepCases
  <2>2. \A n : Deliver(n).op = "deliver" /\ Deliver(n).msg = n
    BY DEF Deliver
  <2>3. QED
    BY <2>1, <2>2
<1>5. ASSUME NEW n, new(n)
      PROVE  o.op \in {"say", "flush"} /\ first # << >>
  <2>1. PICK i \in 1 .. Len(first) : first[i] = Deliver(n)
    BY <1>5
  <2>2. first[i].op = "deliver" /\ Brings(o, first)
    BY <1>1, <2>1 DEF Deliver
  <2>3. QED
    BY <1>1, <2>1, <2>2, BringsFacts
<1>6. ASSUME o.op = "say", first # << >>
      PROVE  \A n : new(n) <=> n = o.msg
  <2>1. Len(first) = 2 /\ first[1].op = "flush" /\ first[2] = Deliver(o.msg)
    BY <1>1, <1>6 DEF Brings
  <2>2. 1 .. Len(first) = {1, 2}
    BY <2>1
  <2>3. \A n : first[1] # Deliver(n)
    BY <2>1 DEF Deliver
  <2>4. \A n : Deliver(o.msg) = Deliver(n) <=> n = o.msg
    BY DEF Deliver
  <2>5. QED
    BY <2>1, <2>2, <2>3, <2>4
<1>7. ASSUME o.op = "flush", first # << >>
      PROVE  \A n : new(n) <=> n = saved[q][1]
  <2>1. saved[q] # << >> /\ first = <<Deliver(Head(saved[q])), Op("pop"), Op("flush")>>
    BY <1>7 DEF Does
  <2>2. Head(saved[q]) = saved[q][1]
    BY <2>1, HeadTailProperties DEF StartTyped
  <2>3. /\ first[1] = Deliver(saved[q][1]) /\ first[2] = Op("pop") /\ first[3] = Op("flush")
        /\ 1 .. Len(first) = {1, 2, 3}
    BY <2>1, <2>2
  <2>4. \A n : first[2] # Deliver(n) /\ first[3] # Deliver(n)
    BY <2>3 DEF Deliver, Op
  <2>5. \A n : Deliver(saved[q][1]) = Deliver(n) <=> n = saved[q][1]
    BY DEF Deliver
  <2>6. QED
    BY <2>3, <2>4, <2>5
<1>8. \A n : (\E m \in 2 .. Len(todo[q]) : todo[q][m] = Deliver(n)) <=> later(n)
  OBVIOUS
<1> HIDE DEF new, later
<1>9. QED
  BY <1>2, <1>3, <1>4, <1>5, <1>6, <1>7, <1>8

\* Whether the message that is taken is still to be written.
LEMMA TakenSteps ==
  ASSUME StartTyped, NEW q \in Ranks, Handling(q), NEW first, Does(q, first), mode' = mode
  PROVE  LET o == todo[q][1]
             write == IF mode = "engine" THEN "writeLog" ELSE "line"
         IN  /\ o.op \in {"deliver", "ask"} => ~Taken(q)
             /\ o.op = "deliver" => taken'[q] = o.msg /\ (Taken(q)' <=> ~calls[o.msg].black)
             /\ o.op = "ask" => ~Taken(q)'
             /\ o.op = write => Taken(q) /\ ~Taken(q)' /\ taken'[q] = taken[q]
             /\ o.op \notin {"deliver", "ask", write} => taken'[q] = taken[q] /\ (Taken(q)' <=> Taken(q))
<1> DEFINE o == todo[q][1]
           write == IF mode = "engine" THEN "writeLog" ELSE "line"
<1>1. /\ \A op : Has(q, op) <=> o.op = op \/ Later(q, op)
      /\ \A op : Has(q, op)' <=> HasOp(first, op) \/ Later(q, op)
      /\ \A op : Later(q, op) => MayPrecede(o.op, op)
      /\ \A op \in {"line", "writeLog"} : HasOp(first, op) => o.op = "deliver"
  BY LaterFacts
<1>2. write \in {"line", "writeLog"}
  OBVIOUS
<1>3. Taken(q) = Has(q, write) /\ Taken(q)' = Has(q, write)'
  BY DEF Taken
<1>4. o.op \in {"deliver", "ask"} => ~Later(q, write)
  BY <1>1, <1>2 DEF MayPrecede, Wild
<1>5. o.op = write => ~Later(q, write)
  BY <1>1, <1>2 DEF MayPrecede, Wild
<1>6. ASSUME o.op = "deliver"
      PROVE  HasOp(first, write) <=> ~calls[o.msg].black
  <2>1. CASE calls[o.msg].black
    <3>1. first = << >>
      BY <1>6, <2>1 DEF Does
    <3>2. QED
      BY <2>1, <3>1 DEF HasOp
  <2>2. CASE ~calls[o.msg].black /\ mode = "engine"
    <3>1. first = <<SetComm(calls[o.msg].comm, TRUE), NameLog, Op("writeLog"), SetComm(comm[q], FALSE), Op("line")>>
      BY <1>6, <2>2 DEF Does
    <3>2. Len(first) = 5 /\ first[3] = Op("writeLog")
      BY <3>1
    <3>3. QED
      BY <2>2, <3>2 DEF HasOp, Op
  <2>3. CASE ~calls[o.msg].black /\ mode # "engine"
    <3>1. first = <<Op("line")>>
      BY <1>6, <2>3 DEF Does
    <3>2. Len(first) = 1 /\ first[1] = Op("line")
      BY <3>1
    <3>3. QED
      BY <2>3, <3>2 DEF HasOp, Op
  <2>4. QED
    BY <2>1, <2>2, <2>3
<1>7. /\ o.op = "deliver" => taken'[q] = o.msg
      /\ o.op \notin {"deliver", "ask"} => taken'[q] = taken[q]
  BY DEF Does
<1> HIDE DEF write
<1>8. write \notin {"deliver", "ask"}
  BY <1>2
<1>9. QED
  BY <1>1, <1>2, <1>3, <1>4, <1>5, <1>6, <1>7, <1>8 DEF write

-----------------------------------------------------------------------------
(* One place.                                                              *)

\* A message that rank q has logged is in one place there.
Places(q) ==
  /\ Distinct(Held(q))
  /\ \A n : Hand(q, n) => n \in told[q] /\ ~Keeps(q, n) /\ ~Done(q, n)
  /\ \A n : Keeps(q, n) => n \in told[q] /\ ~Done(q, n)
  /\ \A n : Done(q, n) => n \in told[q] /\ ~calls[n].black
  /\ \A n \in told[q] : q = Root(calls[n].comm) /\ ~calls[n].black => Hand(q, n) \/ Keeps(q, n) \/ Done(q, n)
  /\ \A i, k \in 1 .. Len(todo[q]) : i < k /\ todo[q][i].op = "deliver" => todo[q][i] # todo[q][k]
  /\ Taken(q) => ~Delivers(q, taken[q])
  /\ mode # "engine" => Distinct(printed[q])

\* Of the messages that are to be delivered no two are the same.
LEMMA DeliversOnce ==
  ASSUME StartTyped, NEW q \in Ranks, Handling(q), NEW first, Does(q, first), Places(q),
         \A n : first # << >> /\ todo[q][1].op \in {"say", "flush"} =>
                  ((\E i \in 1 .. Len(first) : first[i] = Deliver(n)) => ~Delivers(q, n))
  PROVE  \A i, k \in 1 .. Len(todo'[q]) : i < k /\ todo'[q][i].op = "deliver" => todo'[q][i] # todo'[q][k]
<1> DEFINE s == todo[q]
           t == todo'[q]
           o == todo[q][1]
<1>1. /\ s \in Seq(AnyStep) /\ s # << >> /\ Len(s) \in Nat /\ 1 \in 1 .. Len(s) /\ o \in AnyStep
      /\ first \in Seq(AnyStep) /\ Len(first) \in 0 .. 5 /\ (first # << >> => Brings(o, first))
      /\ t \in Seq(AnyStep) /\ Replaces(s, first, t)
  BY DoesFacts DEF Handling
<1> SUFFICES ASSUME NEW i \in 1 .. Len(t), NEW k \in 1 .. Len(t), i < k, t[i].op = "deliver", t[i] = t[k]
             PROVE  FALSE
  OBVIOUS
<1>2. ASSUME i \in 1 .. Len(first), t[i] = first[i]
      PROVE  /\ first # << >> /\ o.op \in {"say", "flush"} /\ Brings(o, first)
             /\ t[i] = Deliver(t[i].msg) /\ ~Delivers(q, t[i].msg)
  <2>1. Brings(o, first) /\ first # << >>
    BY <1>1, <1>2
  <2>2. o.op \in {"say", "flush"}
    BY <1>1, <1>2, <2>1, BringsFacts
  <2>3. t[i] \in AnyStep
    BY <1>1, ElementOfSeq
  <2>4. t[i] = Deliver(t[i].msg)
    BY <2>3, StepCases
  <2>5. QED
    BY <1>2, <2>1, <2>2, <2>4
<1>3. CASE i \in 1 .. Len(first) /\ k \in 1 .. Len(first) /\ t[i] = first[i] /\ t[k] = first[k]
  <2>1. Brings(o, first) /\ o.op \in {"say", "flush"}
    BY <1>2, <1>3
  <2>2. i \in 1 .. 5 /\ k \in 1 .. 5
    BY <1>1, <1>3, <2>1, BringsFacts
  <2>3. first[i].op = "deliver" /\ first[k].op = "deliver"
    BY <1>3
  <2>4. CASE o.op = "say"
    <3>1. Len(first) = 2 /\ first[1].op = "flush"
      BY <2>1, <2>4 DEF Brings
    <3>2. QED
      BY <1>3, <2>3, <3>1
  <2>5. CASE o.op = "flush"
    <3>1. Len(first) = 3 /\ first[2].op = "pop" /\ first[3].op = "flush"
      BY <2>1, <2>5 DEF Brings
    <3>2. QED
      BY <1>3, <2>3, <3>1
  <2>6. QED
    BY <2>1, <2>4, <2>5
<1>4. CASE i \in 1 .. Len(first) /\ t[i] = first[i] /\ \E m \in 2 .. Len(s) : t[k] = s[m]
  <2>1. PICK m \in 2 .. Len(s) : t[k] = s[m]
    BY <1>4
  <2>2. m \in 1 .. Len(s) /\ s[m] = Deliver(t[i].msg)
    BY <1>1, <1>2, <1>4, <2>1
  <2>3. QED
    BY <1>2, <1>4, <2>2 DEF Delivers
<1>5. CASE \E h \in 2 .. Len(s), m \in 2 .. Len(s) : h < m /\ t[i] = s[h] /\ t[k] = s[m]
  <2>1. PICK h \in 2 .. Len(s), m \in 2 .. Len(s) : h < m /\ t[i] = s[h] /\ t[k] = s[m]
    BY <1>5
  <2>2. h \in 1 .. Len(s) /\ m \in 1 .. Len(s)
    BY <1>1
  <2>3. QED
    BY <2>1, <2>2 DEF Places
<1>6. \/ i \in 1 .. Len(first) /\ k \in 1 .. Len(first) /\ t[i] = first[i] /\ t[k] = first[k]
      \/ i \in 1 .. Len(first) /\ t[i] = first[i] /\ \E m \in 2 .. Len(s) : t[k] = s[m]
      \/ \E h \in 2 .. Len(s), m \in 2 .. Len(s) : h < m /\ t[i] = s[h] /\ t[k] = s[m]
  <2>1. i \in 1 .. Len(t) /\ k \in 1 .. Len(t) /\ i < k
    OBVIOUS
  <2> HIDE DEF s, t, o
  <2>2. QED
    BY <1>1, <2>1, Pairs
<1>7. QED
  BY <1>3, <1>4, <1>5, <1>6

\* What a rank holds.
LEMMA KeepsSteps ==
  ASSUME StartTyped, StartTyped', calls # << >>, calls' = calls, NEW q \in Ranks, Handling(q), NEW first, Does(q, first),
         Distinct(Held(q))
  PROVE  LET o == todo[q][1]
         IN  /\ ~(o.op = "say" /\ Keeps(q, o.msg)) => Distinct(Held(q))'
             /\ o.op = "say" /\ first = << >> => \A n : Keeps(q, n)' <=> Keeps(q, n) \/ n = o.msg
             /\ o.op = "flush" /\ first # << >> =>
                  /\ \A n : Keeps(q, n)' <=> Keeps(q, n) /\ n # Held(q)[1]
                  /\ Keeps(q, Held(q)[1]) /\ saved[q][1] = Held(q)[1]
             /\ ~(o.op = "say" /\ first = << >>) /\ ~(o.op = "flush" /\ first # << >>) =>
                  \A n : Keeps(q, n)' <=> Keeps(q, n)
<1> DEFINE o == todo[q][1]
<1>1. /\ Held(q) \in Seq(Nat)
      /\ o.op = "say" /\ first = << >> => Held(q)' = Append(Held(q), o.msg)
      /\ o.op = "flush" /\ first # << >> => /\ Held(q) # << >> /\ Held(q)' = Tail(Held(q))
                                            /\ first = <<Deliver(Held(q)[1]), Op("pop"), Op("flush")>>
      /\ ~(o.op = "say" /\ first = << >>) /\ ~(o.op = "flush" /\ first # << >>) => Held(q)' = Held(q)
  BY HeldSteps
<1>2. CASE o.op = "say" /\ first = << >>
  <2>1. Held(q)' = Append(Held(q), o.msg)
    BY <1>1, <1>2
  <2>2. o.msg \in Nat
    BY <1>2, DoesFacts, StepCases DEF Handling
  <2>3. /\ \A n : Among(Append(Held(q), o.msg), n) <=> Among(Held(q), n) \/ n = o.msg
        /\ ~Among(Held(q), o.msg) => Distinct(Append(Held(q), o.msg))
    BY <1>1, <2>2, AppendAmong
  <2>4. QED
    BY <1>2, <2>1, <2>3 DEF Keeps
<1>3. CASE o.op = "flush" /\ first # << >>
  <2>1. /\ Held(q) # << >> /\ Held(q)' = Tail(Held(q))
        /\ first = <<Deliver(Held(q)[1]), Op("pop"), Op("flush")>>
    BY <1>1, <1>3
  <2>2. /\ \A n : Among(Tail(Held(q)), n) <=> Among(Held(q), n) /\ n # Held(q)[1]
        /\ Distinct(Tail(Held(q))) /\ Among(Held(q), Held(q)[1])
    BY <1>1, <2>1, TailAmong
  <2>3. saved[q][1] = Held(q)[1]
    <3>1. first = <<Deliver(Head(saved[q])), Op("pop"), Op("flush")>> /\ saved[q] # << >>
      BY <1>3 DEF Does
    <3>2. Head(saved[q]) = saved[q][1]
      BY <3>1, HeadTailProperties DEF StartTyped
    <3>3. first[1] = Deliver(saved[q][1])
      BY <3>1, <3>2
    <3>4. first[1] = Deliver(Held(q)[1])
      BY <2>1
    <3>5. QED
      BY <3>3, <3>4 DEF Deliver
  <2>4. QED
    BY <1>3, <2>1, <2>2, <2>3 DEF Keeps
<1>4. CASE ~(o.op = "say" /\ first = << >>) /\ ~(o.op = "flush" /\ first # << >>)
  BY <1>1, <1>4 DEF Keeps
<1>5. QED
  BY <1>2, <1>3, <1>4

\* When a rank does something each of its messages stays in one place ...
LEMMA PlacesKept ==
  ASSUME StartTyped, StartTyped', calls # << >>, Books, [SNext]_svars, calls' = calls, mode' = mode,
         NEW q \in Ranks, Places(q), NEW first, Does(q, first)
  PROVE  Places(q)'
<1> DEFINE s == todo[q]
           o == todo[q][1]
           write == IF mode = "engine" THEN "writeLog" ELSE "line"
           x == taken[q]
<1>1. Handling(q) /\ Telling(q)
  BY DEF Books
<1>2. /\ \A n : Done(q, n)' <=> Done(q, n) \/ (n = x /\ Finishes(q))
      /\ Finishes(q) => x \in told[q] /\ x \in 1 .. Len(calls) /\ ~calls[x].black
  BY DoneSteps
<1>3. /\ Held(q) \in Seq(Nat)
      /\ o.op = "say" /\ first = << >> => Held(q)' = Append(Held(q), o.msg)
      /\ o.op = "flush" /\ first # << >> => /\ Held(q) # << >> /\ Held(q)' = Tail(Held(q))
                                            /\ first = <<Deliver(Held(q)[1]), Op("pop"), Op("flush")>>
      /\ ~(o.op = "say" /\ first = << >>) /\ ~(o.op = "flush" /\ first # << >>) => Held(q)' = Held(q)
  BY <1>1, HeldSteps
<1>4. /\ o.op = "say" /\ first # << >> => \A n : Delivers(q, n)' <=> Delivers(q, n) \/ n = o.msg
      /\ o.op = "flush" /\ first # << >> => \A n : Delivers(q, n)' <=> Delivers(q, n) \/ n = saved[q][1]
      /\ o.op = "deliver" => /\ \A n : Delivers(q, n) <=> Delivers(q, n)' \/ n = o.msg
                             /\ \A n : Delivers(q, n)' <=> \E m \in 2 .. Len(s) : s[m] = Deliver(n)
      /\ o.op # "deliver" /\ (o.op \notin {"say", "flush"} \/ first = << >>) =>
           \A n : Delivers(q, n)' <=> Delivers(q, n)
  BY <1>1, DeliversSteps
<1>5. /\ o.op \in {"deliver", "ask"} => ~Taken(q)
      /\ o.op = "deliver" => taken'[q] = o.msg /\ (Taken(q)' <=> ~calls[o.msg].black)
      /\ o.op = "ask" => ~Taken(q)'
      /\ o.op = write => Taken(q) /\ ~Taken(q)' /\ taken'[q] = taken[q]
      /\ o.op \notin {"deliver", "ask", write} => taken'[q] = taken[q] /\ (Taken(q)' <=> Taken(q))
  BY <1>1, TakenSteps
<1>6. /\ told'[q] = IF o.op = "say" THEN told[q] \cup {o.msg} ELSE told[q]
      /\ Finishes(q) <=> o.op = write /\ q = Root(calls[x].comm)
      /\ write \in {"writeLog", "line"}
  BY DEF Does, Finishes
<1>7. /\ s \in Seq(AnyStep) /\ s # << >> /\ Len(s) \in Nat /\ 1 \in 1 .. Len(s) /\ o \in AnyStep
  BY <1>1, DoesFacts DEF Handling
<1>8. /\ Distinct(Held(q))
      /\ \A n : Hand(q, n) => n \in told[q] /\ ~Keeps(q, n) /\ ~Done(q, n)
      /\ \A n : Keeps(q, n) => n \in told[q] /\ ~Done(q, n)
      /\ \A n : Done(q, n) => n \in told[q] /\ ~calls[n].black
      /\ \A n \in told[q] : q = Root(calls[n].comm) /\ ~calls[n].black => Hand(q, n) \/ Keeps(q, n) \/ Done(q, n)
      /\ Taken(q) => ~Delivers(q, x)
  BY DEF Places
<1>9. mode # "engine" => Distinct(printed'[q])
  <2>1. printed[q] \in Seq(Nat) /\ x \in Nat
    BY DEF StartTyped
  <2>2. ASSUME mode # "engine", printed'[q] # printed[q]
        PROVE  Distinct(printed'[q])
    <3>1. printed'[q] = Append(printed[q], x) /\ o.op = "line"
      BY <2>2 DEF Does
    <3>2. Hand(q, x)
      BY <1>5, <2>2, <3>1 DEF Hand
    <3>3. ~Done(q, x) /\ x \in told[q]
      BY <1>8, <3>2
    <3>4. x \in 1 .. Len(calls)
      BY <1>1, <3>3 DEF Telling
    <3>5. ~Among(printed[q], x)
      BY <2>2, <3>3, <3>4 DEF Done
    <3>6. Distinct(printed[q])
      BY <2>2 DEF Places
    <3>7. QED
      BY <2>1, <3>1, <3>5, <3>6, AppendAmong
  <2>3. QED
    BY <2>2 DEF Places
<1> HIDE DEF write
<1>10. ASSUME o.op = "say"
       PROVE  o.msg \in Nat /\ o.msg \notin told[q] /\ ~Hand(q, o.msg) /\ ~Keeps(q, o.msg) /\ ~Done(q, o.msg)
  <2>1. o.msg \in Nat /\ Tells(s[1], o.msg)
    BY <1>7, <1>10, StepCases DEF Tells
  <2>2. \A k \in told[q] : k < o.msg
    BY <1>1, <1>7, <2>1 DEF Telling
  <2>3. o.msg \notin told[q]
    BY <2>1, <2>2
  <2>4. QED
    BY <1>8, <2>1, <2>3
<1>11. /\ Distinct(Held(q))'
       /\ o.op = "say" /\ first = << >> => \A n : Keeps(q, n)' <=> Keeps(q, n) \/ n = o.msg
       /\ o.op = "flush" /\ first # << >> =>
            /\ \A n : Keeps(q, n)' <=> Keeps(q, n) /\ n # Held(q)[1]
            /\ Keeps(q, Held(q)[1]) /\ saved[q][1] = Held(q)[1]
       /\ ~(o.op = "say" /\ first = << >>) /\ ~(o.op = "flush" /\ first # << >>) => \A n : Keeps(q, n)' <=> Keeps(q, n)
  <2>1. /\ ~(o.op = "say" /\ Keeps(q, o.msg)) => Distinct(Held(q))'
        /\ o.op = "say" /\ first = << >> => \A n : Keeps(q, n)' <=> Keeps(q, n) \/ n = o.msg
        /\ o.op = "flush" /\ first # << >> =>
             /\ \A n : Keeps(q, n)' <=> Keeps(q, n) /\ n # Held(q)[1]
             /\ Keeps(q, Held(q)[1]) /\ saved[q][1] = Held(q)[1]
        /\ ~(o.op = "say" /\ first = << >>) /\ ~(o.op = "flush" /\ first # << >>) => \A n : Keeps(q, n)' <=> Keeps(q, n)
    BY <1>1, <1>8, KeepsSteps
  <2>2. QED
    BY <1>10, <2>1
<1>12. \A i, k \in 1 .. Len(todo'[q]) : i < k /\ todo'[q][i].op = "deliver" => todo'[q][i] # todo'[q][k]
  <2>1. ASSUME NEW n, first # << >>, o.op \in {"say", "flush"}, NEW i \in 1 .. Len(first), first[i] = Deliver(n)
        PROVE  ~Delivers(q, n)
    <3>1. Brings(o, first) /\ Len(first) \in 0 .. 5
      BY <1>1, <2>1, DoesFacts DEF Handling
    <3>2. CASE o.op = "say"
      <4>1. Len(first) = 2 /\ first[1].op = "flush" /\ first[2] = Deliver(o.msg)
        BY <3>1, <3>2 DEF Brings
      <4>2. n = o.msg
        BY <2>1, <4>1 DEF Deliver
      <4>3. QED
        BY <1>10, <3>2, <4>2 DEF Hand
    <3>3. CASE o.op = "flush"
      <4>1. first = <<Deliver(Held(q)[1]), Op("pop"), Op("flush")>> /\ Keeps(q, Held(q)[1])
        BY <1>3, <1>11, <2>1, <3>3
      <4>2. n = Held(q)[1]
        <5>1. first[1] = Deliver(Held(q)[1]) /\ first[2].op = "pop" /\ first[3].op = "flush" /\ Len(first) = 3
          BY <4>1 DEF Op
        <5>2. QED
          BY <2>1, <5>1 DEF Deliver
      <4>3. QED
        BY <1>8, <4>1, <4>2 DEF Hand
    <3>4. QED
      BY <2>1, <3>2, <3>3
  <2>2. QED
    BY <1>1, <2>1, DeliversOnce
<1>13. ASSUME o.op = "say"
       PROVE  Places(q)'
  <2>1. ~Finishes(q) /\ taken'[q] = x /\ (Taken(q)' <=> Taken(q))
    BY <1>5, <1>6, <1>13
  <2>2. CASE first = << >>
    BY <1>2, <1>4, <1>6, <1>8, <1>9, <1>10, <1>11, <1>12, <1>13, <2>1, <2>2 DEF Places, Hand
  <2>3. CASE first # << >>
    BY <1>2, <1>4, <1>6, <1>8, <1>9, <1>10, <1>11, <1>12, <1>13, <2>1, <2>3 DEF Places, Hand
  <2>4. QED
    BY <2>2, <2>3
<1>14. ASSUME o.op = "flush"
       PROVE  Places(q)'
  <2>1. ~Finishes(q) /\ taken'[q] = x /\ (Taken(q)' <=> Taken(q)) /\ told'[q] = told[q]
    BY <1>5, <1>6, <1>14
  <2>2. CASE first = << >>
    BY <1>2, <1>4, <1>8, <1>9, <1>11, <1>12, <1>14, <2>1, <2>2 DEF Places, Hand
  <2>3. CASE first # << >>
    BY <1>2, <1>4, <1>8, <1>9, <1>11, <1>12, <1>14, <2>1, <2>3 DEF Places, Hand
  <2>4. QED
    BY <2>2, <2>3
<1>15. ASSUME o.op = "deliver"
       PROVE  Places(q)'
  <2>1. /\ ~Finishes(q) /\ taken'[q] = o.msg /\ ~Taken(q) /\ (Taken(q)' <=> ~calls[o.msg].black)
        /\ told'[q] = told[q]
    BY <1>5, <1>6, <1>15
  <2>2. ASSUME NEW n, n = o.msg
        PROVE  ~Delivers(q, n)' /\ Delivers(q, n)
    <3>1. o = Deliver(o.msg)
      BY <1>7, <1>15, StepCases
    <3>2. \A m \in 2 .. Len(s) : m \in 1 .. Len(s) /\ 1 < m
      BY <1>7
    <3>3. \A m \in 2 .. Len(s) : s[m] # o
      BY <1>7, <1>15, <3>2 DEF Places
    <3>4. /\ Delivers(q, n)' <=> \E m \in 2 .. Len(s) : s[m] = Deliver(n)
          /\ Delivers(q, n)
      BY <1>4, <1>15, <2>2
    <3>5. ~\E m \in 2 .. Len(s) : s[m] = Deliver(n)
      BY <2>2, <3>1, <3>3
    <3>6. QED
      BY <3>4, <3>5
  <2>3. /\ \A n : Delivers(q, n) <=> Delivers(q, n)' \/ n = o.msg
        /\ \A n : Keeps(q, n)' <=> Keeps(q, n)
    BY <1>4, <1>11, <1>15
  <2>4. Hand(q, o.msg)
    BY <2>2 DEF Hand
  <2>5. \A n : Hand(q, n)' <=> Delivers(q, n)' \/ (n = o.msg /\ ~calls[o.msg].black)
    BY <2>1 DEF Hand
  <2>6. \A n : Hand(q, n) <=> Delivers(q, n)' \/ n = o.msg
    BY <2>1, <2>2, <2>3 DEF Hand
  <2>7. \A n : Done(q, n)' <=> Done(q, n)
    BY <1>2, <2>1
  <2>8. /\ \A n : Hand(q, n)' => n \in told[q] /\ ~Keeps(q, n)' /\ ~Done(q, n)'
        /\ \A n : Keeps(q, n)' => n \in told[q] /\ ~Done(q, n)'
        /\ \A n : Done(q, n)' => n \in told[q] /\ ~calls[n].black
    BY <1>8, <2>3, <2>5, <2>6, <2>7
  <2>9. \A n \in told[q] : q = Root(calls[n].comm) /\ ~calls[n].black => Hand(q, n)' \/ Keeps(q, n)' \/ Done(q, n)'
    BY <1>8, <2>3, <2>5, <2>6, <2>7
  <2>10. Taken(q)' => ~Delivers(q, taken[q])'
    <3>1. \A n : Delivers(q, n)' /\ n = taken'[q] => ~Taken(q)'
      BY <2>1, <2>2
    <3>2. QED
      BY <3>1
  <2>11. QED
    BY <1>9, <1>11, <1>12, <2>1, <2>8, <2>9, <2>10 DEF Places
<1>16. ASSUME o.op \notin {"say", "flush", "deliver"}
       PROVE  Places(q)'
  <2>1. /\ \A n : Delivers(q, n)' <=> Delivers(q, n)
        /\ \A n : Keeps(q, n)' <=> Keeps(q, n)
        /\ told'[q] = told[q]
    BY <1>4, <1>6, <1>11, <1>16
  <2>2. CASE o.op = write
    <3>1. Taken(q) /\ ~Taken(q)' /\ taken'[q] = x /\ (Finishes(q) <=> q = Root(calls[x].comm))
      BY <1>5, <1>6, <2>2
    <3>2. QED
      BY <1>2, <1>8, <1>9, <1>11, <1>12, <2>1, <3>1 DEF Places, Hand
  <2>3. CASE o.op = "ask"
    <3>1. ~Taken(q) /\ ~Taken(q)' /\ ~Finishes(q)
      BY <1>5, <1>6, <2>3
    <3>2. QED
      BY <1>2, <1>8, <1>9, <1>11, <1>12, <2>1, <3>1 DEF Places, Hand
  <2>4. CASE o.op # write /\ o.op # "ask"
    <3>1. taken'[q] = x /\ (Taken(q)' <=> Taken(q)) /\ ~Finishes(q)
      BY <1>5, <1>6, <1>16, <2>4
    <3>2. QED
      BY <1>2, <1>8, <1>9, <1>11, <1>12, <2>1, <3>1 DEF Places, Hand
  <2>5. QED
    BY <2>2, <2>3, <2>4
<1>17. QED
  BY <1>13, <1>14, <1>15, <1>16

\* Nothing is written by a rank that has not gone on.
LEMMA NotFinished ==
  ASSUME StartTyped, NEW q \in Ranks, Handling(q), Finishes(q)
  PROVE  Len(todo'[q]) = Len(todo[q]) - 1
<1>1. PICK first : Does(q, first)
  BY DEF Finishes
<1>2. todo[q][1].op \in {"writeLog", "line"}
  BY DEF Finishes
<1>3. /\ first \in Seq(AnyStep) /\ (first # << >> => Brings(todo[q][1], first))
      /\ Replaces(todo[q], first, todo'[q]) /\ Len(todo[q]) \in Nat
  BY <1>1, DoesFacts DEF Handling
<1>4. first = << >>
  BY <1>2, <1>3 DEF Brings
<1>5. Len(first) = 0
  BY <1>4
<1>6. QED
  BY <1>3, <1>5 DEF Replaces

\* ... and when it does nothing.
LEMMA PlacesStay ==
  ASSUME StartTyped, StartTyped', calls # << >>, Books, [SNext]_svars, calls' = calls, mode' = mode,
         NEW q \in Ranks, Places(q), Same(q)
  PROVE  Places(q)'
<1>1. todo'[q] = todo[q] /\ taken'[q] = taken[q] /\ saved'[q] = saved[q] /\ told'[q] = told[q] /\ printed'[q] = printed[q]
  BY DEF Same
<1>2. Len(todo[q]) \in Nat
  BY LenProperties DEF StartTyped
<1>3. ~Finishes(q)
  BY <1>1, <1>2, NotFinished DEF Books
<1>4. \A n : Done(q, n)' <=> Done(q, n)
  BY <1>3, DoneSteps
<1>5. Held(q)' = Held(q)
  BY <1>1 DEF Held, Past
<1>6. Taken(q)' = Taken(q) /\ \A n : Delivers(q, n)' = Delivers(q, n)
  BY <1>1 DEF Taken, Has, HasOp, Delivers
<1>7. \A n : (Hand(q, n)' <=> Hand(q, n)) /\ (Keeps(q, n)' <=> Keeps(q, n))
  BY <1>1, <1>5, <1>6 DEF Hand, Keeps
<1>8. Distinct(Held(q))' <=> Distinct(Held(q))
  BY <1>5
<1>9. QED
  BY <1>1, <1>4, <1>6, <1>7, <1>8 DEF Places

\* A message that is refused is saved.
LEMMA PlacesRefused ==
  ASSUME StartTyped, StartTyped', calls # << >>, Books, [SNext]_svars, calls' = calls, mode' = mode,
         NEW q \in Ranks, Places(q), RefuseLog(q)
  PROVE  Places(q)'
<1> DEFINE s == todo[q]
           t == todo'[q]
           x == taken[q]
<1>0. Telling(q) /\ Handling(q)
  BY DEF Books
<1>1. /\ s \in Seq(AnyStep) /\ Len(s) \in Nat /\ t \in Seq(AnyStep) /\ Len(t) = Len(s) - 2 /\ Len(s) >= 3
      /\ \A i \in 1 .. Len(t) : i + 2 \in 1 .. Len(s) /\ t[i] = s[i + 2]
      /\ s[1].op = "writeLog" /\ s[2].op = "setComm" /\ s[3].op = "line"
  BY <1>0, RefuseDoes DEF Handling, StartTyped
<1>2. 1 \in 1 .. Len(s) /\ 2 \in 1 .. Len(s) /\ 3 \in 1 .. Len(s) /\ Len(t) \in Nat
  BY <1>1
<1>3. told'[q] = told[q] /\ taken'[q] = x /\ saved'[q] = Append(saved[q], x) /\ printed'[q] = printed[q]
  BY DEF RefuseLog, StartTyped
<1>4. x \in Nat /\ saved[q] \in Seq(Nat) /\ (HasOp(s, "pop") => saved[q] # << >>) /\ mode = "engine"
  BY <1>0, <1>1, <1>2 DEF Handling, StartTyped
<1>5. ASSUME NEW m \in 1 .. Len(s), s[m].op \notin {"writeLog", "setComm"}
      PROVE  \E i \in 1 .. Len(t) : t[i] = s[m]
  <2>1. m # 1 /\ m # 2
    BY <1>1, <1>5
  <2>2. m - 2 \in 1 .. Len(t) /\ (m - 2) + 2 = m
    BY <1>1, <2>1
  <2>3. QED
    BY <1>1, <2>2
<1>6. ASSUME NEW i \in 1 .. Len(t)
      PROVE  t[i].op # "writeLog"
  <2>1. i = 1 \/ 3 < i + 2
    BY <1>2
  <2>2. MayPrecede("line", s[i + 2].op) \/ s[i + 2].op = "line"
    BY <1>0, <1>1, <1>2, <2>1 DEF Handling, InTurn
  <2>3. QED
    BY <1>1, <2>2 DEF MayPrecede, Wild
<1>7. Taken(q) /\ ~Taken(q)'
  <2>1. HasOp(s, "writeLog") /\ ~HasOp(t, "writeLog")
    BY <1>1, <1>2, <1>6 DEF HasOp
  <2>2. QED
    BY <1>4, <2>1 DEF Taken, Has
<1>8. Has(q, "pop")' <=> Has(q, "pop")
  <2>1. HasOp(s, "pop") => HasOp(t, "pop")
    <3>1. ASSUME NEW m \in 1 .. Len(s), s[m].op = "pop"
          PROVE  \E i \in 1 .. Len(t) : t[i].op = "pop"
      BY <1>5, <3>1
    <3>2. QED
      BY <3>1 DEF HasOp
  <2>2. HasOp(t, "pop") => HasOp(s, "pop")
    BY <1>1 DEF HasOp
  <2>3. QED
    BY <2>1, <2>2 DEF Has
<1>9. \A n : Delivers(q, n)' <=> Delivers(q, n)
  <2>1. ASSUME NEW n, NEW m \in 1 .. Len(s), s[m] = Deliver(n)
        PROVE  \E i \in 1 .. Len(t) : t[i] = Deliver(n)
    <3>1. s[m].op = "deliver"
      BY <2>1 DEF Deliver
    <3>2. QED
      BY <1>5, <2>1, <3>1
  <2>2. ASSUME NEW n, NEW i \in 1 .. Len(t), t[i] = Deliver(n)
        PROVE  \E m \in 1 .. Len(s) : s[m] = Deliver(n)
    BY <1>1, <2>2
  <2>3. QED
    BY <2>1, <2>2 DEF Delivers
<1>10. Held(q) \in Seq(Nat) /\ Held(q)' = Append(Held(q), x)
  <2>1. Held(q) = IF Has(q, "pop") THEN Tail(saved[q]) ELSE saved[q]
    BY HeldIs
  <2>2. Held(q)' = IF Has(q, "pop")' THEN Tail(saved'[q]) ELSE saved'[q]
    BY HeldIsThen
  <2>3. CASE ~Has(q, "pop")
    BY <1>3, <1>4, <1>8, <2>1, <2>2, <2>3
  <2>4. CASE Has(q, "pop")
    <3>1. saved[q] # << >>
      BY <1>4, <2>4 DEF Has
    <3>2. Tail(saved[q]) \in Seq(Nat) /\ Tail(Append(saved[q], x)) = Append(Tail(saved[q]), x)
      BY <1>4, <3>1, SMTT(30)
    <3>3. QED
      BY <1>3, <1>8, <2>1, <2>2, <2>4, <3>2
  <2>5. QED
    BY <2>3, <2>4
<1>11. ~Finishes(q)
  BY <1>0, <1>1, NotFinished
<1>12. \A n : Done(q, n)' <=> Done(q, n)
  BY <1>11, DoneSteps
<1>13. Hand(q, x) /\ ~Delivers(q, x) /\ ~Keeps(q, x) /\ ~Done(q, x) /\ x \in told[q]
  BY <1>7 DEF Places, Hand
<1>14. /\ Distinct(Held(q))'
       /\ \A n : Keeps(q, n)' <=> Keeps(q, n) \/ n = x
  <2>1. Distinct(Held(q)) /\ ~Among(Held(q), x)
    BY <1>13 DEF Places, Keeps
  <2>2. /\ \A n : Among(Append(Held(q), x), n) <=> Among(Held(q), n) \/ n = x
        /\ Distinct(Append(Held(q), x))
    BY <1>4, <1>10, <2>1, AppendAmong
  <2>3. QED
    BY <1>10, <2>2 DEF Keeps
<1>15. \A n : Hand(q, n)' <=> Delivers(q, n)
  BY <1>7, <1>9 DEF Hand
<1>16. \A n : Hand(q, n) <=> Delivers(q, n) \/ n = x
  BY <1>7 DEF Hand
<1>17. \A i, k \in 1 .. Len(t) : i < k /\ t[i].op = "deliver" => t[i] # t[k]
  <2> SUFFICES ASSUME NEW i \in 1 .. Len(t), NEW k \in 1 .. Len(t), i < k, t[i].op = "deliver"
               PROVE  t[i] # t[k]
    OBVIOUS
  <2>1. i + 2 \in 1 .. Len(s) /\ k + 2 \in 1 .. Len(s) /\ i + 2 < k + 2 /\ t[i] = s[i + 2] /\ t[k] = s[k + 2]
    BY <1>1
  <2>2. QED
    BY <2>1 DEF Places
<1>18. /\ \A n : Hand(q, n)' => n \in told[q] /\ ~Keeps(q, n)' /\ ~Done(q, n)'
       /\ \A n : Keeps(q, n)' => n \in told[q] /\ ~Done(q, n)'
       /\ \A n : Done(q, n)' => n \in told[q] /\ ~calls[n].black
       /\ \A n \in told[q] : q = Root(calls[n].comm) /\ ~calls[n].black => Hand(q, n)' \/ Keeps(q, n)' \/ Done(q, n)'
  <2>1. /\ \A n : Hand(q, n) => n \in told[q] /\ ~Keeps(q, n) /\ ~Done(q, n)
        /\ \A n : Keeps(q, n) => n \in told[q] /\ ~Done(q, n)
        /\ \A n : Done(q, n) => n \in told[q] /\ ~calls[n].black
        /\ \A n \in told[q] : q = Root(calls[n].comm) /\ ~calls[n].black => Hand(q, n) \/ Keeps(q, n) \/ Done(q, n)
    BY DEF Places
  <2>2. QED
    BY <1>12, <1>13, <1>14, <1>15, <1>16, <2>1
<1>19. QED
  BY <1>3, <1>4, <1>7, <1>14, <1>17, <1>18 DEF Places

\* A stream has messages of its communicator, and each of them once.
Streams ==
  \A c \in AllComms :
    /\ \A i \in Logs(c) : /\ mode = "engine" /\ stream[c][i].call \in 1 .. Len(calls)
                          /\ calls[stream[c][i].call].comm = c
    /\ \A i, k \in Logs(c) : i # k => stream[c][i].call # stream[c][k].call

\* The streams have no message twice after a step.
LEMMA StreamsKept ==
  ASSUME StartTyped, calls # << >>, Books, \A q \in Ranks : Places(q), Streams, [SNext]_svars
  PROVE  Streams'
<1>1. calls' = calls /\ mode' = mode
  BY StepEffects
<1>2. ASSUME NEW c \in AllComms
      PROVE  /\ \A i \in Logs(c)' : /\ mode = "engine" /\ stream'[c][i].call \in 1 .. Len(calls)
                                    /\ calls[stream'[c][i].call].comm = c
             /\ \A i, k \in Logs(c)' : i # k => stream'[c][i].call # stream'[c][k].call
  <2>1. /\ \A i \in Logs(c) : /\ mode = "engine" /\ stream[c][i].call \in 1 .. Len(calls)
                              /\ calls[stream[c][i].call].comm = c
        /\ \A i, k \in Logs(c) : i # k => stream[c][i].call # stream[c][k].call
    BY DEF Streams
  <2>2. CASE LogKept(c)
    BY <2>1, <2>2 DEF LogKept
  <2>3. ASSUME NEW p, Adds(p, c)
        PROVE  /\ \A i \in Logs(c)' : /\ mode = "engine" /\ stream'[c][i].call \in 1 .. Len(calls)
                                      /\ calls[stream'[c][i].call].comm = c
               /\ \A i, k \in Logs(c)' : i # k => stream'[c][i].call # stream'[c][k].call
    <3> DEFINE x == taken[p]
    <3>1. /\ p \in Ranks /\ mode = "engine" /\ todo[p][1].op = "writeLog" /\ \E first : Does(p, first)
          /\ p = Root(c) /\ c = calls[x].comm
      BY <2>3 DEF Adds
    <3>2. PICK jid : stream'[c] = Append(stream[c], [jid |-> jid, node |-> "log", call |-> x])
      BY <2>3 DEF Adds
    <3>3. Finishes(p)
      BY <3>1 DEF Finishes
    <3>4. x \in told[p] /\ x \in 1 .. Len(calls)
      BY <3>1, <3>3, DoneSteps
    <3>5. 1 \in 1 .. Len(todo[p])
      BY <3>1, DoesFacts DEF Books, Handling
    <3>6. Hand(p, x)
      BY <3>1, <3>5 DEF Hand, Taken, Has, HasOp
    <3>7. ~Done(p, x)
      BY <3>1, <3>6 DEF Places
    <3>8. \A i \in Logs(c) : stream[c][i].call # x
      BY <3>1, <3>4, <3>7 DEF Done, Written
    <3> DEFINE e == [jid |-> jid, node |-> "log", call |-> x]
    <3>9. e.node = "log" /\ e.call = x
      OBVIOUS
    <3>10. e \in Entry
      <4>1. stream'[c] \in Seq(Entry) /\ stream[c] \in Seq(Entry) /\ Len(stream[c]) \in Nat
        BY StepEffects, LenProperties DEF StartTyped
      <4>2. DOMAIN stream[c] = 1 .. Len(stream[c]) /\ stream'[c] = Append(stream[c], e)
        BY <3>2, <4>1
      <4> HIDE DEF e
      <4>3. Len(stream'[c]) = Len(stream[c]) + 1 /\ stream'[c][Len(stream[c]) + 1] = e
        BY <4>1, <4>2
      <4>4. Len(stream[c]) + 1 \in 1 .. Len(stream'[c])
        BY <4>1, <4>3
      <4>5. QED
        BY <4>1, <4>3, <4>4, ElementOfSeq
    <3> HIDE DEF e
    <3>11. /\ Logs(c)' = Logs(c) \cup {Len(stream[c]) + 1}
           /\ Len(stream[c]) + 1 \notin Logs(c) /\ stream'[c][Len(stream[c]) + 1] = e
           /\ \A i \in Logs(c) : stream'[c][i] = stream[c][i]
      BY <3>2, <3>9, <3>10, LongerStream DEF e
    <3>12. \A i \in Logs(c)' : i \in Logs(c) \/ i = Len(stream[c]) + 1
      BY <3>11
    <3>13. ASSUME NEW i \in Logs(c)'
           PROVE  /\ stream'[c][i].call \in 1 .. Len(calls) /\ calls[stream'[c][i].call].comm = c
                  /\ IF i \in Logs(c) THEN stream'[c][i].call = stream[c][i].call ELSE stream'[c][i].call = x
      BY <2>1, <3>1, <3>4, <3>9, <3>11, <3>12, <3>13
    <3>14. ASSUME NEW i \in Logs(c)', NEW k \in Logs(c)', i # k
           PROVE  stream'[c][i].call # stream'[c][k].call
      <4>1. i \in Logs(c) \/ k \in Logs(c)
        BY <3>12, <3>14
      <4>2. QED
        BY <2>1, <3>8, <3>13, <3>14, <4>1
    <3>15. QED
      BY <3>1, <3>13, <3>14
  <2>4. QED
    BY <2>2, <2>3, NewMessages
<1>3. QED
  BY <1>1, <1>2 DEF Streams

-----------------------------------------------------------------------------
(* One place in every state.                                               *)

\* One place on each rank, and in the streams.
Order == StartTyped /\ Books /\ (\A q \in Ranks : Places(q)) /\ Streams

\* At the beginning no message is anywhere.
LEMMA BegunPlaces == Begun => Order
<1> SUFFICES ASSUME Begun
             PROVE  Order
  OBVIOUS
<1>1. << >> \in Seq(Nat) /\ Len(<< >>) = 0
  BY EmptySeq
<1>2. StartTyped /\ Books
  BY BegunBooks DEF Begun
<1>3. \A c \in AllComms : Logs(c) = {}
  BY <1>1 DEF Begun, Logs
<1>4. Streams
  BY <1>3 DEF Streams
<1>5. ASSUME NEW q \in Ranks
      PROVE  Places(q)
  <2>1. told[q] = {} /\ saved[q] = << >> /\ printed[q] = << >> /\ todo[q] \in Seq(AnyStep) /\ Len(todo[q]) \in Nat
    BY LenProperties DEF Begun, StartTyped
  <2>2. \A i \in 1 .. Len(todo[q]) : todo[q][i].op \notin {"deliver", "line", "pop", "writeLog"}
    <3>1. PICK e \in Nat, a \in Nat, k \in Nat : Program(todo[q], q, calls, e, a, k)
      BY DEF Begun
    <3>2. \A i \in 1 .. Len(todo[q]) : Stands(todo[q][i], i, e, a, k, Len(calls))
      <4>1. Len(calls) \in Nat
        BY <1>2, LenProperties DEF StartTyped
      <4>2. QED
        BY <2>1, <3>1, <4>1, PlacesOf
    <3>3. QED
      BY <3>2 DEF Stands
  <2>3. ~Has(q, "pop") /\ ~Taken(q) /\ \A n : ~Delivers(q, n)
    BY <2>2 DEF Has, HasOp, Taken, Delivers, Deliver
  <2>4. Held(q) = << >>
    BY <1>2, <2>1, <2>3, HeldIs DEF Begun
  <2>5. \A n : ~Hand(q, n) /\ ~Keeps(q, n)
    BY <1>1, <2>3, <2>4 DEF Hand, Keeps, Among
  <2>6. \A n : ~Done(q, n)
    <3>1. \A n \in 1 .. Len(calls) : calls[n].comm \in AllComms
      BY <1>2, CommOfMessage
    <3>2. QED
      BY <1>1, <1>3, <2>1, <3>1 DEF Done, Written, Among
  <2>7. Distinct(Held(q)) /\ Distinct(printed[q])
    BY <1>1, <2>1, <2>4 DEF Distinct
  <2>8. \A i, k \in 1 .. Len(todo[q]) : i < k /\ todo[q][i].op = "deliver" => todo[q][i] # todo[q][k]
    BY <2>2
  <2>9. QED
    BY <2>1, <2>3, <2>5, <2>6, <2>7, <2>8 DEF Places
<1>6. QED
  BY <1>2, <1>4, <1>5 DEF Order

\* Every step keeps it.
LEMMA OrderKept ==
  ASSUME calls # << >>, Order, [SNext]_svars
  PROVE  Order'
<1>1. StartTyped /\ calls # << >> /\ Books /\ (\A q \in Ranks : Places(q)) /\ Streams
  BY DEF Order
<1>2. /\ StartTyped' /\ calls' = calls /\ mode' = mode
      /\ \A q \in Ranks : Same(q) \/ (\E first : Does(q, first)) \/ RefuseLog(q)
  BY <1>1, StepEffects
<1>3. Books'
  BY <1>1, BooksKept
<1>4. Streams'
  BY <1>1, StreamsKept
<1>5. \A q \in Ranks : Places(q)'
  BY <1>1, <1>2, PlacesKept, PlacesStay, PlacesRefused
<1>6. QED
  BY <1>1, <1>2, <1>3, <1>4, <1>5 DEF Order

\* How often an element is in a sequence.
LEMMA OccurrencesIs ==
  ASSUME NEW s \in Seq(Nat), Distinct(s), NEW n
  PROVE  Occurrences(n, s) = IF Among(s, n) THEN 1 ELSE 0
<1> DEFINE at == {i \in DOMAIN s : s[i] = n}
<1>1. DOMAIN s = 1 .. Len(s)
  OBVIOUS
<1>2. CASE ~Among(s, n)
  <2>1. at = {}
    BY <1>1, <1>2 DEF Among
  <2>2. QED
    BY <1>2, <2>1, FS_EmptySet DEF Occurrences
<1>3. CASE Among(s, n)
  <2>1. PICK i \in 1 .. Len(s) : s[i] = n
    BY <1>3 DEF Among
  <2>2. at = {i}
    BY <1>1, <2>1 DEF Distinct
  <2>3. QED
    BY <1>3, <2>2, FS_Singleton DEF Occurrences
<1>4. QED
  BY <1>2, <1>3

\* How often a stream has a message.
LEMMA LoggedIs ==
  ASSUME Streams, NEW c \in AllComms, NEW n
  PROVE  Logged(n, c) = IF Written(c, n) THEN 1 ELSE 0
<1> DEFINE at == {i \in Logs(c) : stream[c][i].call = n}
<1>1. CASE ~Written(c, n)
  <2>1. at = {}
    BY <1>1 DEF Written
  <2>2. QED
    BY <1>1, <2>1, FS_EmptySet DEF Logged
<1>2. CASE Written(c, n)
  <2>1. PICK i \in Logs(c) : stream[c][i].call = n
    BY <1>2 DEF Written
  <2>2. at = {i}
    BY <2>1 DEF Streams
  <2>3. QED
    BY <1>2, <2>2, FS_Singleton DEF Logged
<1>3. QED
  BY <1>1, <1>2

\* It is enough for one place.
LEMMA OrderLogsOnce == calls # << >> /\ Order => OnePlace
<1> SUFFICES ASSUME calls # << >>, Order, NEW n \in DOMAIN calls
             PROVE  LET c == calls[n].comm
                        r == Root(c)
                        written == IF mode = "engine" THEN Logged(n, c) ELSE Occurrences(n, printed[r])
                        places == Occurrences(n, Held(r)) + written + IF InHand(r, n) THEN 1 ELSE 0
                    IN  /\ places <= 1
                        /\ places = 1 => n \in told[r]
                        /\ n \in told[r] /\ ~calls[n].black => places = 1
                        /\ calls[n].black => written = 0
                        /\ \A d \in AllComms \ {c} : Logged(n, d) = 0
  BY DEF OnePlace
<1> DEFINE c == calls[n].comm
           r == Root(c)
           written == IF mode = "engine" THEN Logged(n, c) ELSE Occurrences(n, printed[r])
<1>1. StartTyped /\ Books /\ Streams
  BY DEF Order
<1>2. n \in 1 .. Len(calls) /\ c \in AllComms
  <2>1. n \in 1 .. Len(calls)
    BY <1>1 DEF StartTyped
  <2>2. QED
    BY <1>1, <2>1, CommOfMessage
<1>3. r \in Ranks
  BY <1>2, RootFacts
<1>4. Places(r) /\ Telling(r) /\ Handling(r)
  BY <1>1, <1>3 DEF Order, Books
<1>5. Occurrences(n, Held(r)) = IF Keeps(r, n) THEN 1 ELSE 0
  <2>1. Held(r) \in Seq(Nat)
    <3>1. Held(r) = (IF Has(r, "pop") THEN Tail(saved[r]) ELSE saved[r]) /\ saved[r] \in Seq(Nat)
      BY <1>1, <1>3, HeldIs DEF StartTyped
    <3>2. Has(r, "pop") => saved[r] # << >>
      BY <1>4 DEF Handling, Has
    <3>3. QED
      BY <3>1, <3>2
  <2>2. QED
    BY <1>4, <2>1, OccurrencesIs DEF Places, Keeps
<1>6. written = IF Done(r, n) THEN 1 ELSE 0
  <2>1. CASE mode = "engine"
    BY <1>1, <1>2, <2>1, LoggedIs DEF Done
  <2>2. CASE mode # "engine"
    <3>1. printed[r] \in Seq(Nat) /\ Distinct(printed[r])
      BY <1>1, <1>3, <1>4, <2>2 DEF StartTyped, Places
    <3>2. QED
      BY <1>2, <2>2, <3>1, OccurrencesIs DEF Done
  <2>3. QED
    BY <2>1, <2>2
<1>7. InHand(r, n) <=> Hand(r, n)
  <2>1. DOMAIN todo[r] = 1 .. Len(todo[r])
    BY <1>1, <1>3 DEF StartTyped
  <2>2. QED
    BY <2>1 DEF InHand, Hand, Delivers, Taken, Past, Has, HasOp
<1>8. \A d \in AllComms \ {c} : Logged(n, d) = 0
  <2>1. \A d \in AllComms \ {c} : ~Written(d, n)
    BY <1>1 DEF Streams, Written
  <2>2. QED
    BY <1>1, <2>1, LoggedIs
<1>9. /\ Hand(r, n) => n \in told[r] /\ ~Keeps(r, n) /\ ~Done(r, n)
      /\ Keeps(r, n) => n \in told[r] /\ ~Done(r, n)
      /\ Done(r, n) => n \in told[r] /\ ~calls[n].black
      /\ n \in told[r] /\ ~calls[n].black => Hand(r, n) \/ Keeps(r, n) \/ Done(r, n)
  BY <1>4 DEF Places
<1> HIDE DEF written, c, r
<1>10. QED
  BY <1>5, <1>6, <1>7, <1>8, <1>9 DEF written, c, r

-----------------------------------------------------------------------------
(* The order on one rank.                                                  *)

\* The numbers in s grow.
Rising(s) == \A i, k \in 1 .. Len(s) : i < k => s[i] < s[k]

\* Rank q is writing the message it has taken.
Working(q) == \E op \in {"name", "writeLog", "line"} : Has(q, op)

\* Message n is still to get its number on rank q.
Waits(q, n) == Keeps(q, n) \/ Delivers(q, n) \/ (taken[q] = n /\ Later(q, "name"))

\* The saved messages come before what rank q does i-th.
Ahead(q, i) == \E h \in 1 .. i - 1 : todo[q][h].op = "flush"

\* The number of a message is agreed on first.
Prepared(q) ==
  LET s == todo[q]
      c == calls[taken[q]].comm
  IN  \A i \in 1 .. Len(s) : s[i].op = "name" =>
        \/ i = 1
        \/ i = 2 /\ s[1] = SetComm(c, TRUE)
        \/ i = 2 /\ s[1] = Sync /\ comm[q] = c
        \/ i = 3 /\ s[1] = Gather /\ s[2] = Sync /\ comm[q] = c

\* What rank q works on, what it is to deliver and what it holds are in order ...
Queued(q) ==
  LET s == todo[q]
  IN  /\ Rising(Held(q))
      /\ Working(q) => \A n : Keeps(q, n) \/ Delivers(q, n) => taken[q] < n
      /\ \A i, k \in 1 .. Len(s) : i < k /\ s[i].op = "deliver" /\ s[k].op = "deliver" => s[i].msg < s[k].msg
      /\ \A i \in 1 .. Len(s) : s[i].op = "deliver" =>
           \A n : Keeps(q, n) => IF Ahead(q, i) THEN n < s[i].msg ELSE s[i].msg < n

\* ... and after what is done.
Served(q) ==
  /\ \A n \in told[q] : \A m : ~Waits(q, n) /\ Waits(q, m) => n < m
  /\ Rising(printed[q])
  /\ \A n : Among(printed[q], n) => n \in told[q] /\ ~Waits(q, n) /\ (Has(q, "line") => n < taken[q])

\* A rising list, longer at the end or shorter at the front.
LEMMA RisingFacts ==
  ASSUME NEW s \in Seq(Nat), Rising(s)
  PROVE  /\ \A n \in Nat : (\A x : Among(s, x) => x < n) => Rising(Append(s, n))
         /\ s # << >> => /\ Rising(Tail(s))
                         /\ \A x : Among(Tail(s), x) => s[1] < x /\ Among(s, x)
<1>1. Len(s) \in Nat
  BY LenProperties
<1>2. ASSUME NEW n \in Nat, \A x : Among(s, x) => x < n
      PROVE  Rising(Append(s, n))
  <2> DEFINE t == Append(s, n)
  <2>1. Len(t) = Len(s) + 1 /\ t[Len(s) + 1] = n /\ \A i \in 1 .. Len(s) : t[i] = s[i]
    BY AppendProperties
  <2> HIDE DEF t
  <2>2. \A i \in 1 .. Len(s) : s[i] < n
    BY <1>2 DEF Among
  <2>3. \A i, k \in 1 .. Len(t) : i < k => i \in 1 .. Len(s) /\ (k \in 1 .. Len(s) \/ k = Len(s) + 1)
    BY <1>1, <2>1
  <2>4. Rising(t)
    BY <2>1, <2>2, <2>3 DEF Rising
  <2>5. QED
    BY <2>4 DEF t
<1>3. ASSUME s # << >>
      PROVE  /\ Rising(Tail(s))
             /\ \A x : Among(Tail(s), x) => s[1] < x /\ Among(s, x)
  <2> DEFINE t == Tail(s)
  <2>1. Len(s) # 0 /\ Len(t) = Len(s) - 1 /\ \A i \in 1 .. Len(t) : t[i] = s[i + 1]
    BY <1>3, HeadTailProperties, EmptySeq
  <2> HIDE DEF t
  <2>2. \A i \in 1 .. Len(t) : i + 1 \in 1 .. Len(s) /\ 1 < i + 1 /\ 1 \in 1 .. Len(s)
    BY <1>1, <2>1
  <2>3. \A i, k \in 1 .. Len(t) : i < k => i + 1 < k + 1
    BY <1>1, <2>1
  <2>4. Rising(t)
    BY <2>1, <2>2, <2>3 DEF Rising
  <2>5. \A i \in 1 .. Len(t) : s[1] < t[i] /\ t[i] = s[i + 1]
    BY <2>1, <2>2 DEF Rising
  <2>6. \A x : Among(t, x) => s[1] < x /\ Among(s, x)
    BY <2>2, <2>5 DEF Among
  <2>7. QED
    BY <2>4, <2>6 DEF t
<1>4. QED
  BY <1>2, <1>3

\* As long as nothing is refused every rank goes on or stays.
LEMMA QuietStep ==
  ASSUME StartTyped, calls # << >>, Books, [SNext]_svars, refused' = 0
  PROVE  refused = 0 /\ \A q \in Ranks : Same(q) \/ \E first : Does(q, first)
<1>1. CASE \E r \in Ranks : RankStep(r) /\ Alone(r)
  <2>1. refused' = refused
    BY <1>1 DEF RankStep, EngineStep, LoggerStep, DoSay, DoFlush, DoPop, DoDeliver,
                DoWriteLog, DoLine, DoSet, DoLook, DoMakeDir, DoAsk, DoPoll, DoTimeout, logger
  <2>2. QED
    BY <1>1, <2>1 DEF Alone
<1>2. CASE \E r \in Ranks : RefuseLog(r) /\ Refuses(r)
  BY <1>2 DEF Refuses, StartTyped
<1>3. CASE \E c \in AllComms : Collective(c) /\ UNCHANGED <<logger, files, reader>> /\ TogetherDo(c)
  <2>1. refused' = refused /\ \E c \in AllComms : TogetherDo(c)
    BY <1>3 DEF logger
  <2>2. QED
    BY <2>1 DEF TogetherDo
<1>4. CASE (CastDir \/ Meet \/ CastAnswer) /\ TogetherDo(World)
  <2>1. refused' = refused
    BY <1>4 DEF CastDir, Meet, CastAnswer, logger
  <2>2. QED
    BY <1>4, <2>1 DEF TogetherDo
<1>5. CASE ReaderAnswers
  <2>1. UNCHANGED <<todo, taken, comm, id, saved, told, printed, locked, ready, refused>>
    BY <1>5 DEF ReaderAnswers, logger, vars, engine, files
  <2>2. QED
    BY <2>1 DEF Same
<1>6. CASE UNCHANGED svars
  BY <1>6 DEF svars, vars, app, engine, logger, files, Same
<1>7. Steps
  BY StepEffects
<1>8. QED
  BY <1>1, <1>2, <1>3, <1>4, <1>5, <1>6, <1>7 DEF Steps

\* What is prepared stays so.
LEMMA PreparedKept ==
  ASSUME StartTyped, NEW q \in Ranks, Handling(q), calls' = calls, NEW first, Does(q, first), Prepared(q)
  PROVE  Prepared(q)'
<1> DEFINE s == todo[q]
           t == todo'[q]
           o == todo[q][1]
           c == calls[taken[q]].comm
<1>1. /\ s \in Seq(AnyStep) /\ s # << >> /\ Len(s) \in Nat /\ 1 \in 1 .. Len(s) /\ o \in AnyStep
      /\ first \in Seq(AnyStep) /\ Len(first) \in 0 .. 5 /\ (first # << >> => Brings(o, first))
      /\ t \in Seq(AnyStep) /\ Len(t) \in Nat /\ Replaces(s, first, t) /\ Moves(s, first)
      /\ \A m \in 2 .. Len(s) : m \in 1 .. Len(s) /\ MayPrecede(o.op, s[m].op)
  BY DoesFacts DEF Handling
<1>2. SUFFICES ASSUME NEW i \in 1 .. Len(t), t[i].op = "name"
               PROVE  \/ i = 1
                      \/ i = 2 /\ t[1] = SetComm(calls[taken'[q]].comm, TRUE)
                      \/ i = 2 /\ t[1] = Sync /\ comm'[q] = calls[taken'[q]].comm
                      \/ i = 3 /\ t[1] = Gather /\ t[2] = Sync /\ comm'[q] = calls[taken'[q]].comm
  BY DEF Prepared
<1>3. CASE i \in 1 .. Len(first)
  <2>1. Brings(o, first) /\ t[i] = first[i]
    BY <1>1, <1>3 DEF Replaces
  <2>2. o.op = "deliver"
    BY <1>1, <1>2, <1>3, <2>1, BringsFacts
  <2>3. Len(first) = 5 /\ i = 2
    BY <1>2, <1>3, <2>1, <2>2 DEF Brings
  <2>4. first = <<SetComm(calls[o.msg].comm, TRUE), NameLog, Op("writeLog"), SetComm(comm[q], FALSE), Op("line")>>
    <3>1. calls[o.msg].black => first = << >>
      BY <2>2 DEF Does
    <3>2. ~calls[o.msg].black /\ mode # "engine" => first = <<Op("line")>>
      BY <2>2 DEF Does
    <3>3. Len(<< >>) # 5 /\ Len(<<Op("line")>>) # 5
      OBVIOUS
    <3>4. ~calls[o.msg].black /\ mode = "engine"
      BY <2>3, <3>1, <3>2, <3>3
    <3>5. QED
      BY <2>2, <3>4 DEF Does
  <2>5. t[1] = SetComm(calls[o.msg].comm, TRUE) /\ taken'[q] = o.msg
    <3>1. first[1] = SetComm(calls[o.msg].comm, TRUE)
      BY <2>4
    <3>2. 1 \in 1 .. Len(first)
      BY <2>3
    <3>3. t[1] = first[1]
      BY <1>1, <3>2 DEF Replaces
    <3>4. taken'[q] = o.msg
      BY <2>2 DEF Does
    <3>5. QED
      BY <3>1, <3>3, <3>4
  <2>6. QED
    BY <2>3, <2>5
<1>4. CASE ~(i \in 1 .. Len(first))
  <2> DEFINE m == i + 1 - Len(first)
  <2>1. m \in 2 .. Len(s) /\ m \in 1 .. Len(s) /\ s[m].op = "name" /\ Len(first) \in Nat /\ i = m - 1 + Len(first)
    <3>1. i \in Len(first) + 1 .. Len(t)
      BY <1>1, <1>4
    <3>2. m \in 2 .. Len(s) /\ t[i] = s[m]
      BY <1>1, <3>1 DEF Replaces
    <3>3. QED
      BY <1>1, <1>2, <3>2
  <2>2. \/ m = 2 /\ o = SetComm(c, TRUE)
        \/ m = 2 /\ o = Sync /\ comm[q] = c
        \/ m = 3 /\ o = Gather /\ s[2] = Sync /\ comm[q] = c
    <3>1. m # 1
      BY <2>1
    <3>2. QED
      BY <2>1, <3>1 DEF Prepared
  <2> HIDE DEF m
  <2>3. o.op \in {"setComm", "sync", "gather"}
    BY <2>2 DEF SetComm, Sync, Gather
  <2>4. taken'[q] = taken[q] /\ comm'[q] = IF o.op = "setComm" THEN o.comm ELSE comm[q]
    BY <2>3 DEF Does
  <2>5. CASE m = 2 /\ o = SetComm(c, TRUE)
    <3>1. o.op = "setComm" /\ o.sync /\ o.comm = c
      BY <2>5 DEF SetComm
    <3>2. first # << >> /\ first[Len(first)] = Sync
      BY <3>1 DEF Does
    <3>3. first \in {<<Gather>>, <<Sync>>, <<Gather, Sync>>}
      BY <1>1, <3>1, <3>2 DEF Moves
    <3>4. first # <<Gather>>
      BY <3>2 DEF Gather, Sync
    <3>5. CASE first = <<Sync>>
      <4>1. Len(first) = 1 /\ first[1] = Sync
        BY <3>5
      <4>2. t[1] = Sync /\ i = 2
        BY <1>1, <2>1, <2>5, <4>1 DEF Replaces
      <4>3. QED
        BY <2>4, <3>1, <4>2
    <3>6. CASE first = <<Gather, Sync>>
      <4>1. Len(first) = 2 /\ first[1] = Gather /\ first[2] = Sync
        BY <3>6
      <4>2. t[1] = Gather /\ t[2] = Sync /\ i = 3
        BY <1>1, <2>1, <2>5, <4>1 DEF Replaces
      <4>3. QED
        BY <2>4, <3>1, <4>2
    <3>7. QED
      BY <3>3, <3>4, <3>5, <3>6
  <2>6. CASE o.op \in {"sync", "gather"}
    <3>1. first = << >>
      BY <1>1, <2>6 DEF Brings
    <3>2. Len(first) = 0
      BY <3>1
    <3>3. i = m - 1
      BY <2>1, <3>2
    <3>4. m = 3 => t[1] = s[2]
      BY <1>1, <2>1, <3>2 DEF Replaces
    <3>5. QED
      BY <2>1, <2>2, <2>4, <2>6, <3>3, <3>4 DEF SetComm
  <2>7. o = Sync \/ o = Gather => o.op \in {"sync", "gather"}
    BY DEF Sync, Gather
  <2>8. QED
    BY <2>2, <2>5, <2>6, <2>7, Zenon
<1>5. QED
  BY <1>3, <1>4, Zenon

\* Whether the number of the message that is taken is still to be agreed on.
LEMMA NameSteps ==
  ASSUME StartTyped, NEW q \in Ranks, Handling(q), NEW first, Does(q, first), Prepared(q)
  PROVE  LET o == todo[q][1]
         IN  /\ Later(q, "name") => o.op \in {"setComm", "sync", "gather"}
             /\ o.op = "deliver" => (Later(q, "name")' <=> ~calls[o.msg].black /\ mode = "engine")
             /\ o.op = "sync" => ~Later(q, "name")'
             /\ o.op \notin {"deliver", "sync"} => (Later(q, "name")' <=> Later(q, "name"))
<1> DEFINE s == todo[q]
           t == todo'[q]
           o == todo[q][1]
           c == calls[taken[q]].comm
<1>1. /\ s \in Seq(AnyStep) /\ s # << >> /\ Len(s) \in Nat /\ 1 \in 1 .. Len(s) /\ o \in AnyStep
      /\ first \in Seq(AnyStep) /\ Len(first) \in 0 .. 5 /\ (first # << >> => Brings(o, first))
      /\ t \in Seq(AnyStep) /\ Len(t) \in Nat /\ Replaces(s, first, t) /\ Moves(s, first)
      /\ \A m \in 2 .. Len(s) : m \in 1 .. Len(s) /\ MayPrecede(o.op, s[m].op)
  BY DoesFacts DEF Handling
<1>2. ASSUME NEW m \in 2 .. Len(s), s[m].op = "name"
      PROVE  \/ m = 2 /\ o = SetComm(c, TRUE)
             \/ m = 2 /\ o = Sync
             \/ m = 3 /\ o = Gather
  <2>1. m # 1 /\ m \in 1 .. Len(s)
    BY <1>1
  <2>2. QED
    BY <1>2, <2>1 DEF Prepared
<1>3. Later(q, "name") => o.op \in {"setComm", "sync", "gather"}
  BY <1>2 DEF Later, SetComm, Sync, Gather
<1>4. ASSUME NEW i \in 2 .. Len(t), t[i].op = "name"
      PROVE  \/ o.op = "deliver" /\ ~calls[o.msg].black /\ mode = "engine"
             \/ o.op # "sync" /\ Later(q, "name")
  <2>1. CASE i \in 1 .. Len(first)
    <3>1. Brings(o, first) /\ first[i].op = "name"
      BY <1>1, <1>4, <2>1 DEF Replaces
    <3>2. o.op = "deliver"
      BY <1>1, <2>1, <3>1, BringsFacts
    <3>3. Len(first) = 5
      BY <2>1, <3>1, <3>2 DEF Brings
    <3>4. calls[o.msg].black => Len(first) = 0
      BY <3>2 DEF Does
    <3>5. ~calls[o.msg].black /\ mode # "engine" => Len(first) = 1
      BY <3>2 DEF Does
    <3>6. QED
      BY <3>2, <3>3, <3>4, <3>5
  <2>2. CASE ~(i \in 1 .. Len(first))
    <3> DEFINE m == i + 1 - Len(first)
    <3>1. i \in Len(first) + 1 .. Len(t) /\ Len(first) \in Nat
      BY <1>1, <2>2
    <3>2. m \in 2 .. Len(s) /\ t[i] = s[m] /\ i = m - 1 + Len(first)
      BY <1>1, <3>1 DEF Replaces
    <3> HIDE DEF m
    <3>3. \/ m = 2 /\ o = SetComm(c, TRUE)
          \/ m = 2 /\ o = Sync
          \/ m = 3 /\ o = Gather
      BY <1>2, <1>4, <3>2
    <3>4. o.op = "sync" => first = << >>
      BY <1>1 DEF Brings
    <3>5. o.op # "sync"
      <4>1. ASSUME o.op = "sync"
            PROVE  FALSE
        <5>1. m = 2 /\ Len(first) = 0
          BY <3>3, <3>4, <4>1 DEF SetComm, Gather
        <5>2. QED
          BY <3>2, <5>1
      <4>2. QED
        BY <4>1
    <3>6. QED
      BY <1>4, <3>2, <3>5 DEF Later
  <2>3. QED
    BY <2>1, <2>2
<1>5. ASSUME o.op = "deliver", ~calls[o.msg].black, mode = "engine"
      PROVE  \E i \in 2 .. Len(t) : t[i].op = "name"
  <2>1. first = <<SetComm(calls[o.msg].comm, TRUE), NameLog, Op("writeLog"), SetComm(comm[q], FALSE), Op("line")>>
    BY <1>5 DEF Does
  <2>2. Len(first) = 5 /\ first[2] = NameLog
    BY <2>1
  <2>3. 2 \in 1 .. Len(first) /\ Len(first) + Len(s) - 1 = Len(t) /\ 2 \in 2 .. Len(t)
    BY <1>1, <2>2 DEF Replaces
  <2>4. t[2] = NameLog
    BY <1>1, <2>2, <2>3 DEF Replaces
  <2>5. QED
    BY <2>3, <2>4 DEF NameLog
<1>6. ASSUME o.op # "sync", NEW m \in 2 .. Len(s), s[m].op = "name"
      PROVE  \E i \in 2 .. Len(t) : t[i].op = "name"
  <2>1. Len(first) + m - 1 \in 1 .. Len(t) /\ t[Len(first) + m - 1] = s[m]
    BY <1>1 DEF Replaces
  <2>2. Len(first) + m - 1 # 1
    <3>1. CASE m = 2 /\ o = SetComm(c, TRUE)
      <4>1. o.op = "setComm" /\ o.sync
        BY <3>1 DEF SetComm
      <4>2. first # << >>
        BY <4>1 DEF Does
      <4>3. QED
        BY <1>1, <3>1, <4>2, EmptySeq
    <3>2. CASE m = 3
      BY <1>1, <3>2
    <3>3. ~(o = Sync)
      BY <1>6 DEF Sync
    <3>4. QED
      BY <1>2, <1>6, <3>1, <3>2, <3>3, Zenon
  <2>3. Len(first) + m - 1 \in 2 .. Len(t)
    BY <1>1, <2>1, <2>2
  <2>4. QED
    BY <1>6, <2>1, <2>3
<1>7. /\ Later(q, "name") <=> \E m \in 2 .. Len(s) : s[m].op = "name"
      /\ Later(q, "name")' <=> \E i \in 2 .. Len(t) : t[i].op = "name"
  BY DEF Later
<1>8. o.op = "deliver" => ~Later(q, "name")
  BY <1>3
<1> HIDE DEF s, t, o
<1>9. QED
  BY <1>3, <1>4, <1>5, <1>6, <1>7, <1>8 DEF o

\* How messages begin and cease to wait.
LEMMA WaitsSteps ==
  ASSUME StartTyped, StartTyped', calls # << >>, calls' = calls, mode' = mode, NEW q \in Ranks, Handling(q), NEW first,
         Does(q, first), Prepared(q), Distinct(Held(q))
  PROVE  LET o == todo[q][1]
         IN  /\ \A n : Waits(q, n)' => Waits(q, n) \/ (o.op = "say" /\ n = o.msg)
             /\ \A n : o.op = "say" /\ n = o.msg => Waits(q, n)'
             /\ \A n : Waits(q, n) /\ ~Waits(q, n)' =>
                  \/ o.op = "deliver" /\ n = o.msg
                  \/ o.op = "sync" /\ n = taken[q] /\ Later(q, "name")
             /\ \A n : o.op = "deliver" /\ n = o.msg /\ ~calls[n].black /\ mode = "engine" => Waits(q, n)'
<1> DEFINE o == todo[q][1]
<1>1. /\ Later(q, "name") => o.op \in {"setComm", "sync", "gather"}
      /\ o.op = "deliver" => (Later(q, "name")' <=> ~calls[o.msg].black /\ mode = "engine")
      /\ o.op = "sync" => ~Later(q, "name")'
      /\ o.op \notin {"deliver", "sync"} => (Later(q, "name")' <=> Later(q, "name"))
  BY NameSteps
<1>2. /\ o.op = "say" /\ first # << >> => \A n : Delivers(q, n)' <=> Delivers(q, n) \/ n = o.msg
      /\ o.op = "flush" /\ first # << >> => \A n : Delivers(q, n)' <=> Delivers(q, n) \/ n = saved[q][1]
      /\ o.op = "deliver" => \A n : Delivers(q, n) <=> Delivers(q, n)' \/ n = o.msg
      /\ o.op # "deliver" /\ (o.op \notin {"say", "flush"} \/ first = << >>) =>
           \A n : Delivers(q, n)' <=> Delivers(q, n)
  BY DeliversSteps
<1>3. /\ o.op = "say" /\ first = << >> => \A n : Keeps(q, n)' <=> Keeps(q, n) \/ n = o.msg
      /\ o.op = "flush" /\ first # << >> =>
           /\ \A n : Keeps(q, n)' <=> Keeps(q, n) /\ n # Held(q)[1]
           /\ Keeps(q, Held(q)[1]) /\ saved[q][1] = Held(q)[1]
      /\ ~(o.op = "say" /\ first = << >>) /\ ~(o.op = "flush" /\ first # << >>) =>
           \A n : Keeps(q, n)' <=> Keeps(q, n)
  BY KeepsSteps
<1>4. /\ o.op = "deliver" => taken'[q] = o.msg
      /\ o.op \notin {"deliver", "ask"} => taken'[q] = taken[q]
  BY DEF Does
<1>5. \A n : Waits(q, n)' <=> Keeps(q, n)' \/ Delivers(q, n)' \/ (taken'[q] = n /\ Later(q, "name")')
  BY DEF Waits
<1>6. \A n : Waits(q, n) <=> Keeps(q, n) \/ Delivers(q, n) \/ (taken[q] = n /\ Later(q, "name"))
  BY DEF Waits
<1> HIDE DEF o
<1>7. CASE o.op = "say" /\ first = << >>
  BY <1>1, <1>2, <1>3, <1>4, <1>5, <1>6, <1>7 DEF o
<1>8. CASE o.op = "say" /\ first # << >>
  BY <1>1, <1>2, <1>3, <1>4, <1>5, <1>6, <1>8 DEF o
<1>9. CASE o.op = "flush" /\ first # << >>
  BY <1>1, <1>2, <1>3, <1>4, <1>5, <1>6, <1>9 DEF o
<1>10. CASE o.op = "deliver"
  BY <1>1, <1>2, <1>3, <1>4, <1>5, <1>6, <1>10 DEF o
<1>11. CASE o.op \notin {"say", "flush", "deliver"} \/ (o.op = "flush" /\ first = << >>)
  <2>1. /\ \A n : Keeps(q, n)' <=> Keeps(q, n)
        /\ \A n : Delivers(q, n)' <=> Delivers(q, n)
    BY <1>2, <1>3, <1>11
  <2>2. QED
    BY <1>1, <1>4, <1>5, <1>6, <1>11, <2>1 DEF o
<1>12. QED
  BY <1>7, <1>8, <1>9, <1>10, <1>11 DEF o

\* What is worked on is what was delivered last.
LEMMA WorkingSteps ==
  ASSUME StartTyped, NEW q \in Ranks, Handling(q), NEW first, Does(q, first)
  PROVE  LET o == todo[q][1]
         IN  /\ o.op \in {"deliver", "ask"} => ~Working(q)
             /\ o.op # "deliver" /\ Working(q)' => Working(q) /\ taken'[q] = taken[q]
             /\ Working(q) => taken[q] \in told[q]
<1> DEFINE o == todo[q][1]
<1>1. /\ \A op : Has(q, op) <=> o.op = op \/ Later(q, op)
      /\ \A op : Has(q, op)' <=> HasOp(first, op) \/ Later(q, op)
      /\ \A op : Later(q, op) => MayPrecede(o.op, op)
      /\ \A op \in {"line", "name", "writeLog"} : HasOp(first, op) => o.op = "deliver"
  BY LaterFacts
<1>2. \A op \in {"line", "name", "writeLog"} : o.op \in {"deliver", "ask"} => ~Later(q, op)
  BY <1>1 DEF MayPrecede, Wild
<1>3. o.op \notin {"deliver", "ask"} => taken'[q] = taken[q]
  BY DEF Does
<1>4. Working(q) => taken[q] \in told[q]
  BY DEF Working, Has, HasOp, Handling
<1>5. /\ Working(q) <=> \E op \in {"name", "writeLog", "line"} : Has(q, op)
      /\ Working(q)' <=> \E op \in {"name", "writeLog", "line"} : Has(q, op)'
  BY DEF Working
<1>6. QED
  BY <1>1, <1>2, <1>3, <1>4, <1>5

\* The message that is delivered comes before those that are held or to be delivered.
LEMMA DeliveredFirst ==
  ASSUME StartTyped, StartTyped', calls # << >>, calls' = calls, NEW q \in Ranks, Handling(q), Queued(q),
         Distinct(Held(q)), NEW first, Does(q, first), todo[q][1].op = "deliver"
  PROVE  \A n : Keeps(q, n)' \/ Delivers(q, n)' => todo[q][1].msg < n
<1> DEFINE s == todo[q]
           o == todo[q][1]
<1>1. Len(s) \in Nat /\ 1 \in 1 .. Len(s) /\ \A m \in 2 .. Len(s) : m \in 1 .. Len(s) /\ 1 < m
  <2>1. Len(s) \in Nat /\ 1 \in 1 .. Len(s)
    BY DoesFacts DEF Handling
  <2>2. QED
    BY <2>1
<1>2. /\ \A i, k \in 1 .. Len(s) : i < k /\ s[i].op = "deliver" /\ s[k].op = "deliver" => s[i].msg < s[k].msg
      /\ \A i \in 1 .. Len(s) : s[i].op = "deliver" =>
           \A n : Keeps(q, n) => IF Ahead(q, i) THEN n < s[i].msg ELSE s[i].msg < n
  BY DEF Queued
<1>3. ~Ahead(q, 1)
  BY DEF Ahead
<1>4. \A n : Keeps(q, n) => o.msg < n
  BY <1>1, <1>2, <1>3
<1>5. ASSUME NEW n, NEW m \in 2 .. Len(s), s[m] = Deliver(n)
      PROVE  o.msg < n
  <2>1. s[m].op = "deliver" /\ s[m].msg = n
    BY <1>5 DEF Deliver
  <2>2. QED
    BY <1>1, <1>2, <2>1
<1>6. /\ \A n : Keeps(q, n)' <=> Keeps(q, n)
      /\ \A n : Delivers(q, n)' <=> \E m \in 2 .. Len(s) : s[m] = Deliver(n)
  BY KeepsSteps, DeliversSteps
<1>7. QED
  BY <1>4, <1>5, <1>6

\* What waits on a rank stays in order.
LEMMA QueuedKept ==
  ASSUME StartTyped, StartTyped', calls # << >>, calls' = calls, mode' = mode, NEW q \in Ranks, Telling(q), Handling(q),
         Places(q), Queued(q), NEW first, Does(q, first)
  PROVE  Queued(q)'
<1> DEFINE s == todo[q]
           t == todo'[q]
           o == todo[q][1]
<1>1. /\ s \in Seq(AnyStep) /\ s # << >> /\ Len(s) \in Nat /\ 1 \in 1 .. Len(s) /\ o \in AnyStep
      /\ first \in Seq(AnyStep) /\ Len(first) \in 0 .. 5 /\ (first # << >> => Brings(o, first))
      /\ t \in Seq(AnyStep) /\ Len(t) \in Nat /\ Replaces(s, first, t)
      /\ \A m \in 2 .. Len(s) : m \in 1 .. Len(s) /\ MayPrecede(o.op, s[m].op)
  BY DoesFacts DEF Handling
<1>2. /\ Held(q) \in Seq(Nat)
      /\ o.op = "say" /\ first = << >> => Held(q)' = Append(Held(q), o.msg)
      /\ o.op = "flush" /\ first # << >> => /\ Held(q) # << >> /\ Held(q)' = Tail(Held(q))
                                            /\ first = <<Deliver(Held(q)[1]), Op("pop"), Op("flush")>>
      /\ ~(o.op = "say" /\ first = << >>) /\ ~(o.op = "flush" /\ first # << >>) => Held(q)' = Held(q)
  BY HeldSteps
<1>3. /\ o.op = "say" /\ first # << >> => \A n : Delivers(q, n)' <=> Delivers(q, n) \/ n = o.msg
      /\ o.op = "flush" /\ first # << >> => \A n : Delivers(q, n)' <=> Delivers(q, n) \/ n = saved[q][1]
      /\ o.op = "deliver" => \A n : Delivers(q, n)' <=> \E m \in 2 .. Len(s) : s[m] = Deliver(n)
      /\ o.op # "deliver" /\ (o.op \notin {"say", "flush"} \/ first = << >>) =>
           \A n : Delivers(q, n)' <=> Delivers(q, n)
  BY DeliversSteps
<1>4. /\ o.op = "say" /\ first = << >> => \A n : Keeps(q, n)' <=> Keeps(q, n) \/ n = o.msg
      /\ o.op = "flush" /\ first # << >> =>
           /\ \A n : Keeps(q, n)' <=> Keeps(q, n) /\ n # Held(q)[1]
           /\ Keeps(q, Held(q)[1]) /\ saved[q][1] = Held(q)[1]
      /\ ~(o.op = "say" /\ first = << >>) /\ ~(o.op = "flush" /\ first # << >>) =>
           \A n : Keeps(q, n)' <=> Keeps(q, n)
  BY KeepsSteps DEF Places
<1>5. /\ o.op \in {"deliver", "ask"} => ~Working(q)
      /\ o.op # "deliver" /\ Working(q)' => Working(q) /\ taken'[q] = taken[q]
      /\ Working(q) => taken[q] \in told[q]
  BY WorkingSteps
<1>6. \A n : Keeps(q, n) \/ Delivers(q, n) => n \in told[q]
  BY DEF Places, Hand
<1>7. o.op = "say" => /\ o.msg \in Nat
                      /\ \A n \in told[q] : n < o.msg
  <2>1. o.op = "say" => o.msg \in Nat /\ Tells(s[1], o.msg)
    BY <1>1, StepCases DEF Tells
  <2>2. QED
    BY <1>1, <2>1 DEF Telling
<1>8. /\ Rising(Held(q))
      /\ Working(q) => \A n : Keeps(q, n) \/ Delivers(q, n) => taken[q] < n
      /\ \A i, k \in 1 .. Len(s) : i < k /\ s[i].op = "deliver" /\ s[k].op = "deliver" => s[i].msg < s[k].msg
      /\ \A i \in 1 .. Len(s) : s[i].op = "deliver" =>
           \A n : Keeps(q, n) => IF Ahead(q, i) THEN n < s[i].msg ELSE s[i].msg < n
  BY DEF Queued
<1>9. o.op = "deliver" => taken'[q] = o.msg
  BY DEF Does
<1>10. o.op = "flush" /\ first # << >> => \A n : Keeps(q, n)' => Held(q)[1] < n
  BY <1>2, <1>8, RisingFacts DEF Keeps
<1>11. Rising(Held(q))'
  <2>1. CASE o.op = "say" /\ first = << >>
    <3>1. \A x : Among(Held(q), x) => x < o.msg
      BY <1>6, <1>7, <2>1 DEF Keeps
    <3>2. Rising(Append(Held(q), o.msg))
      BY <1>2, <1>7, <1>8, <2>1, <3>1, RisingFacts
    <3>3. QED
      BY <1>2, <2>1, <3>2
  <2>2. CASE o.op = "flush" /\ first # << >>
    <3>1. Rising(Tail(Held(q)))
      BY <1>2, <1>8, <2>2, RisingFacts
    <3>2. QED
      BY <1>2, <2>2, <3>1
  <2>3. CASE ~(o.op = "say" /\ first = << >>) /\ ~(o.op = "flush" /\ first # << >>)
    BY <1>2, <1>8, <2>3
  <2>4. QED
    BY <2>1, <2>2, <2>3
<1>12. \A h \in 1 .. 0 : FALSE
  OBVIOUS
<1>13. Working(q)' => \A n : Keeps(q, n)' \/ Delivers(q, n)' => taken'[q] < n
  <2>1. CASE o.op = "deliver"
    <3>1. \A n : Keeps(q, n)' \/ Delivers(q, n)' => o.msg < n
      BY <2>1, DeliveredFirst DEF Places
    <3>2. QED
      BY <1>9, <2>1, <3>1
  <2>2. CASE o.op # "deliver"
    <3>1. \A n : Keeps(q, n)' \/ Delivers(q, n)' => Keeps(q, n) \/ Delivers(q, n) \/ (o.op = "say" /\ n = o.msg)
      BY <1>3, <1>4, <2>2
    <3>2. QED
      BY <1>5, <1>7, <1>8, <2>2, <3>1
  <2>3. QED
    BY <2>1, <2>2
<1>14. ASSUME NEW i \in 1 .. Len(first), first[i].op = "deliver"
       PROVE  /\ first # << >>
              /\ \/ o.op = "say" /\ Len(first) = 2 /\ first[1].op = "flush" /\ i = 2 /\ first[i].msg = o.msg
                 \/ o.op = "flush" /\ i = 1 /\ first[i].msg = Held(q)[1]
  <2>1. Brings(o, first) /\ first # << >>
    BY <1>1, <1>14
  <2>2. CASE o.op = "say"
    <3>1. Len(first) = 2 /\ first[1].op = "flush" /\ first[2] = Deliver(o.msg)
      BY <2>1, <2>2 DEF Brings
    <3>2. i = 2 /\ first[2].msg = o.msg
      BY <1>14, <3>1 DEF Deliver
    <3>3. QED
      BY <2>1, <2>2, <3>1, <3>2
  <2>3. CASE o.op = "flush"
    <3>1. first = <<Deliver(Held(q)[1]), Op("pop"), Op("flush")>>
      BY <1>2, <2>1, <2>3
    <3>2. /\ Len(first) = 3 /\ first[1] = Deliver(Held(q)[1]) /\ first[2] = Op("pop") /\ first[3] = Op("flush")
      BY <3>1
    <3>3. i = 1 /\ first[i].msg = Held(q)[1]
      BY <1>14, <3>2 DEF Deliver, Op
    <3>4. QED
      BY <2>1, <2>3, <3>3
  <2>4. o.op \in {"say", "flush"}
    BY <1>1, <1>14, <2>1, BringsFacts
  <2>5. QED
    BY <2>2, <2>3, <2>4
<1>15. ASSUME NEW m \in 2 .. Len(s), s[m].op = "deliver"
       PROVE  o.op # "say" /\ (o.op = "flush" => Ahead(q, m)) /\ m \in 1 .. Len(s)
  <2>1. MayPrecede(o.op, "deliver") /\ m \in 1 .. Len(s) /\ 1 \in 1 .. m - 1
    BY <1>1, <1>15
  <2>2. QED
    BY <2>1 DEF MayPrecede, Wild, Ahead
<1>16. \A i, k \in 1 .. Len(t) : i < k /\ t[i].op = "deliver" /\ t[k].op = "deliver" => t[i].msg < t[k].msg
  <2> SUFFICES ASSUME NEW i \in 1 .. Len(t), NEW k \in 1 .. Len(t), i < k, t[i].op = "deliver", t[k].op = "deliver"
               PROVE  t[i].msg < t[k].msg
    OBVIOUS
  <2>1. CASE i \in 1 .. Len(first) /\ k \in 1 .. Len(first) /\ t[i] = first[i] /\ t[k] = first[k]
    BY <1>14, <2>1
  <2>2. CASE i \in 1 .. Len(first) /\ t[i] = first[i] /\ \E m \in 2 .. Len(s) : t[k] = s[m]
    <3>1. PICK m \in 2 .. Len(s) : t[k] = s[m]
      BY <2>2
    <3>2. o.op # "say" /\ (o.op = "flush" => Ahead(q, m)) /\ m \in 1 .. Len(s) /\ s[m].op = "deliver"
      BY <1>15, <3>1
    <3>3. first # << >> /\ o.op = "flush" /\ t[i].msg = Held(q)[1]
      BY <1>14, <2>2, <3>2
    <3>4. Keeps(q, Held(q)[1]) /\ Ahead(q, m)
      BY <1>4, <3>2, <3>3
    <3>5. Held(q)[1] < s[m].msg
      BY <1>8, <3>2, <3>4
    <3>6. QED
      BY <3>1, <3>3, <3>5
  <2>3. CASE \E h \in 2 .. Len(s), m \in 2 .. Len(s) : h < m /\ t[i] = s[h] /\ t[k] = s[m]
    <3>1. PICK h \in 2 .. Len(s), m \in 2 .. Len(s) : h < m /\ t[i] = s[h] /\ t[k] = s[m]
      BY <2>3
    <3>2. h \in 1 .. Len(s) /\ m \in 1 .. Len(s) /\ s[h].op = "deliver" /\ s[m].op = "deliver"
      BY <1>1, <3>1
    <3>3. QED
      BY <1>8, <3>1, <3>2
  <2>4. i \in 1 .. Len(t) /\ k \in 1 .. Len(t) /\ i < k
    OBVIOUS
  <2>a. s \in Seq(AnyStep) /\ first \in Seq(AnyStep) /\ t \in Seq(AnyStep) /\ Replaces(s, first, t)
    BY <1>1
  <2> HIDE DEF s, t, o
  <2>5. \/ i \in 1 .. Len(first) /\ k \in 1 .. Len(first) /\ t[i] = first[i] /\ t[k] = first[k]
        \/ i \in 1 .. Len(first) /\ t[i] = first[i] /\ \E m \in 2 .. Len(s) : t[k] = s[m]
        \/ \E h \in 2 .. Len(s), m \in 2 .. Len(s) : h < m /\ t[i] = s[h] /\ t[k] = s[m]
    BY <2>a, <2>4, Pairs
  <2>6. QED
    BY <2>1, <2>2, <2>3, <2>5
<1>17. ASSUME o.op = "flush", first = << >>
       PROVE  \A n : ~Keeps(q, n)
  <2>1. saved[q] = << >> /\ ~Has(q, "pop")
    <3>1. saved[q] = << >>
      BY <1>17 DEF Does
    <3>2. Has(q, "pop") => MayPrecede("flush", "pop")
      BY <1>17, LaterFacts
    <3>3. QED
      BY <3>1, <3>2 DEF MayPrecede, Wild
  <2>2. Held(q) = << >> /\ Len(<< >>) = 0
    BY <2>1, HeldIs
  <2>3. QED
    BY <1>12, <2>2 DEF Keeps, Among
<1>18. ASSUME NEW i \in 1 .. Len(t), t[i].op = "deliver", NEW n, Keeps(q, n)'
       PROVE  IF Ahead(q, i)' THEN n < t[i].msg ELSE t[i].msg < n
  <2>1. Ahead(q, i)' <=> \E h \in 1 .. i - 1 : t[h].op = "flush"
    BY DEF Ahead
  <2>2. CASE i \in 1 .. Len(first)
    <3>1. t[i] = first[i]
      BY <1>1, <2>2 DEF Replaces
    <3>2. CASE o.op = "say" /\ Len(first) = 2 /\ first[1].op = "flush" /\ i = 2 /\ first[i].msg = o.msg
      <4>1. t[1].op = "flush" /\ 1 \in 1 .. i - 1
        BY <1>1, <3>2 DEF Replaces
      <4>2. first # << >>
        BY <1>14, <1>18, <2>2, <3>1
      <4>3. n \in told[q]
        BY <1>4, <1>6, <1>18, <3>2, <4>2
      <4>4. QED
        BY <1>7, <2>1, <3>1, <3>2, <4>1, <4>3
    <3>3. CASE o.op = "flush" /\ i = 1 /\ first[i].msg = Held(q)[1] /\ first # << >>
      BY <1>10, <1>12, <1>18, <2>1, <3>1, <3>3
    <3>4. QED
      BY <1>14, <1>18, <2>2, <3>1, <3>2, <3>3
  <2>3. CASE ~(i \in 1 .. Len(first))
    <3> DEFINE m == i + 1 - Len(first)
    <3>1. i \in Len(first) + 1 .. Len(t) /\ Len(first) \in Nat
      BY <1>1, <2>3
    <3>2. m \in 2 .. Len(s) /\ t[i] = s[m] /\ i = m - 1 + Len(first)
      BY <1>1, <3>1 DEF Replaces
    <3>3. \A h \in 2 .. m - 1 : h \in 2 .. Len(s) /\ Len(first) + h - 1 \in 1 .. i - 1 /\ t[Len(first) + h - 1] = s[h]
      <4>1. \A h \in 2 .. m - 1 : h \in 2 .. Len(s) /\ Len(first) + h - 1 \in 1 .. i - 1
        BY <1>1, <3>1, <3>2, SMTT(30)
      <4>2. QED
        BY <1>1, <4>1 DEF Replaces
    <3>4. \A h \in 1 .. i - 1 : \/ h \in 1 .. Len(first) /\ t[h] = first[h]
                                \/ h + 1 - Len(first) \in 2 .. m - 1 /\ t[h] = s[h + 1 - Len(first)]
      <4> SUFFICES ASSUME NEW h \in 1 .. i - 1
                   PROVE  \/ h \in 1 .. Len(first) /\ t[h] = first[h]
                          \/ h + 1 - Len(first) \in 2 .. m - 1 /\ t[h] = s[h + 1 - Len(first)]
        OBVIOUS
      <4>1. CASE h <= Len(first)
        <5>1. h \in 1 .. Len(first)
          BY <3>1, <4>1
        <5>2. QED
          BY <1>1, <5>1 DEF Replaces
      <4>2. CASE ~(h <= Len(first))
        <5>1. h \in Len(first) + 1 .. Len(t) /\ h + 1 - Len(first) \in 2 .. m - 1
          BY <1>1, <3>1, <3>2, <4>2, SMTT(30)
        <5>2. QED
          BY <1>1, <5>1 DEF Replaces
      <4>3. QED
        BY <4>1, <4>2
    <3>5. \A h \in 1 .. Len(first) : h \in 1 .. i - 1 /\ t[h] = first[h]
      BY <1>1, <3>1 DEF Replaces
    <3> HIDE DEF m
    <3>6. o.op # "say" /\ (o.op = "flush" => Ahead(q, m)) /\ m \in 1 .. Len(s) /\ s[m].op = "deliver"
      BY <1>15, <1>18, <3>2
    <3>7. \A h \in 2 .. m - 1 : h \in 1 .. m - 1
      OBVIOUS
    <3>8. \A h \in 1 .. m - 1 : h = 1 \/ h \in 2 .. m - 1
      OBVIOUS
    <3>9. CASE o.op = "flush"
      <4>1. first # << >>
        BY <1>4, <1>17, <1>18, <3>9
      <4>2. Len(first) = 3 /\ first[3].op = "flush"
        BY <1>1, <3>9, <4>1 DEF Brings
      <4>3. Ahead(q, i)'
        BY <2>1, <3>5, <4>2
      <4>4. Keeps(q, n) /\ Ahead(q, m)
        BY <1>4, <1>18, <3>6, <3>9, <4>1
      <4>5. n < s[m].msg
        BY <1>8, <3>6, <4>4
      <4>6. QED
        BY <3>2, <4>3, <4>5
    <3>10. CASE o.op # "flush"
      <4>1. Keeps(q, n)
        BY <1>4, <1>18, <3>6, <3>10
      <4>2. \A h \in 1 .. Len(first) : first[h].op # "flush"
        BY <1>1, <3>6, <3>10, BringsFacts
      <4>3. Ahead(q, i)' <=> \E h \in 2 .. m - 1 : s[h].op = "flush"
        <5>1. ASSUME NEW h \in 2 .. m - 1, s[h].op = "flush"
              PROVE  \E g \in 1 .. i - 1 : t[g].op = "flush"
          BY <3>3, <5>1
        <5>2. ASSUME NEW g \in 1 .. i - 1, t[g].op = "flush"
              PROVE  \E h \in 2 .. m - 1 : s[h].op = "flush"
          BY <3>4, <4>2, <5>2
        <5>3. QED
          BY <2>1, <5>1, <5>2
      <4>4. Ahead(q, m) <=> \E h \in 2 .. m - 1 : s[h].op = "flush"
        BY <3>7, <3>8, <3>10 DEF Ahead
      <4>5. QED
        BY <1>8, <3>2, <3>6, <4>1, <4>3, <4>4
    <3>11. QED
      BY <3>9, <3>10
  <2>4. QED
    BY <2>2, <2>3
<1>19. QED
  BY <1>11, <1>13, <1>16, <1>18 DEF Queued

\* What a rank has written stays in order, and before what waits.
LEMMA ServedKept ==
  ASSUME StartTyped, StartTyped', calls # << >>, calls' = calls, mode' = mode, NEW q \in Ranks, Telling(q), Handling(q),
         Places(q), Prepared(q), Queued(q), Served(q), NEW first, Does(q, first)
  PROVE  Served(q)'
<1> DEFINE o == todo[q][1]
<1>1. /\ \A n : Waits(q, n)' => Waits(q, n) \/ (o.op = "say" /\ n = o.msg)
      /\ \A n : o.op = "say" /\ n = o.msg => Waits(q, n)'
      /\ \A n : Waits(q, n) /\ ~Waits(q, n)' =>
           \/ o.op = "deliver" /\ n = o.msg
           \/ o.op = "sync" /\ n = taken[q] /\ Later(q, "name")
  BY WaitsSteps DEF Places
<1>2. /\ \A op : Has(q, op) <=> o.op = op \/ Later(q, op)
      /\ \A op : Has(q, op)' <=> HasOp(first, op) \/ Later(q, op)
      /\ \A op : Later(q, op) => MayPrecede(o.op, op)
      /\ \A op \in {"line", "name", "writeLog"} : HasOp(first, op) => o.op = "deliver"
  BY LaterFacts
<1>3. o.op = "deliver" => \A n : Keeps(q, n)' \/ Delivers(q, n)' => o.msg < n
  BY DeliveredFirst DEF Places
<1>4. Later(q, "name") => o.op \in {"setComm", "sync", "gather"}
  BY NameSteps
<1>5. Working(q) => \A n : Keeps(q, n) \/ Delivers(q, n) => taken[q] < n
  BY DEF Queued
<1>6. /\ \A n \in told[q] : \A m : ~Waits(q, n) /\ Waits(q, m) => n < m
      /\ Rising(printed[q])
      /\ \A n : Among(printed[q], n) => n \in told[q] /\ ~Waits(q, n) /\ (Has(q, "line") => n < taken[q])
  BY DEF Served
<1>7. /\ told'[q] = IF o.op = "say" THEN told[q] \cup {o.msg} ELSE told[q]
      /\ printed'[q] = IF o.op = "line" /\ q = Root(calls[taken[q]].comm) THEN Append(printed[q], taken[q]) ELSE printed[q]
      /\ o.op = "deliver" => taken'[q] = o.msg
      /\ o.op \notin {"deliver", "ask"} => taken'[q] = taken[q]
  BY DEF Does
<1>8. o.op = "say" => \A n \in told[q] : n < o.msg /\ n # o.msg
  <2>1. ASSUME o.op = "say"
        PROVE  o.msg \in Nat /\ Tells(todo[q][1], o.msg) /\ 1 \in 1 .. Len(todo[q])
    BY <2>1, DoesFacts, StepCases DEF Tells, Handling
  <2>2. told[q] \subseteq Nat
    BY DEF StartTyped
  <2>3. QED
    BY <2>1, <2>2 DEF Telling
<1>9. /\ \A n : Waits(q, n)' <=> Keeps(q, n)' \/ Delivers(q, n)' \/ (taken'[q] = n /\ Later(q, "name")')
      /\ \A n : Waits(q, n) <=> Keeps(q, n) \/ Delivers(q, n) \/ (taken[q] = n /\ Later(q, "name"))
  BY DEF Waits
<1>10. o.op = "deliver" => Waits(q, o.msg)
  <2>1. ASSUME o.op = "deliver"
        PROVE  o = Deliver(o.msg) /\ 1 \in 1 .. Len(todo[q])
    BY <2>1, DoesFacts, StepCases DEF Handling
  <2>2. QED
    BY <1>9, <2>1 DEF Delivers
<1> HIDE DEF o
<1>11. ASSUME NEW n \in told'[q], NEW m, ~Waits(q, n)', Waits(q, m)'
       PROVE  n < m
  <2>1. CASE o.op = "say"
    BY <1>1, <1>6, <1>7, <1>8, <1>11, <2>1
  <2>2. CASE o.op # "say" /\ ~Waits(q, n)
    BY <1>1, <1>6, <1>7, <1>11, <2>2
  <2>3. CASE o.op = "deliver" /\ n = o.msg
    BY <1>3, <1>7, <1>9, <1>11, <2>3
  <2>4. CASE o.op = "sync" /\ n = taken[q] /\ Later(q, "name")
    <3>1. Working(q)
      BY <1>2, <2>4 DEF Working
    <3>2. Waits(q, m) /\ m # n
      BY <1>1, <1>11, <2>4
    <3>3. QED
      BY <1>5, <1>9, <2>4, <3>1, <3>2
  <2>5. QED
    BY <1>1, <1>11, <2>1, <2>2, <2>3, <2>4
<1>12. ASSUME o.op = "line"
       PROVE  /\ ~Has(q, "line")' /\ taken[q] \in told[q] /\ ~Waits(q, taken[q]) /\ Has(q, "line")
              /\ taken'[q] = taken[q]
  <2>1. ~Has(q, "line")' /\ Has(q, "line")
    BY <1>2, <1>12 DEF MayPrecede, Wild
  <2>2. taken[q] \in told[q] /\ Working(q)
    BY <2>1 DEF Handling, Has, HasOp, Working
  <2>3. ~Waits(q, taken[q])
    <3>1. taken[q] \in Nat /\ ~(taken[q] < taken[q])
      BY DEF StartTyped
    <3>2. QED
      BY <1>4, <1>5, <1>9, <1>12, <2>2, <3>1
  <2>4. QED
    BY <1>7, <1>12, <2>1, <2>2, <2>3
<1>13. \A n : Among(printed'[q], n) => Among(printed[q], n) \/ (o.op = "line" /\ n = taken[q])
  <2>1. printed[q] \in Seq(Nat) /\ taken[q] \in Nat
    BY DEF StartTyped
  <2>2. \A n : Among(Append(printed[q], taken[q]), n) => Among(printed[q], n) \/ n = taken[q]
    BY <2>1, AppendAmong
  <2>3. CASE o.op = "line" /\ q = Root(calls[taken[q]].comm)
    BY <1>7, <2>2, <2>3
  <2>4. CASE ~(o.op = "line" /\ q = Root(calls[taken[q]].comm))
    BY <1>7, <2>4
  <2>5. QED
    BY <2>3, <2>4
<1>14. Rising(printed'[q])
  <2>1. printed[q] \in Seq(Nat) /\ taken[q] \in Nat
    BY DEF StartTyped
  <2>2. o.op = "line" => Rising(Append(printed[q], taken[q]))
    BY <1>6, <1>12, <2>1, RisingFacts
  <2>3. CASE o.op = "line" /\ q = Root(calls[taken[q]].comm)
    BY <1>7, <2>2, <2>3
  <2>4. CASE ~(o.op = "line" /\ q = Root(calls[taken[q]].comm))
    BY <1>6, <1>7, <2>4
  <2>5. QED
    BY <2>3, <2>4
<1>15. ASSUME NEW n, n \in told[q], ~Waits(q, n), Has(q, "line") => n < taken[q]
       PROVE  n \in told'[q] /\ ~Waits(q, n)' /\ (Has(q, "line")' => n < taken'[q])
  <2>1. n \in told'[q] /\ ~Waits(q, n)'
    BY <1>1, <1>7, <1>8, <1>15
  <2>2. CASE o.op = "deliver"
    BY <1>6, <1>7, <1>10, <1>15, <2>1, <2>2
  <2>3. CASE o.op # "deliver"
    <3>1. Has(q, "line")' => Has(q, "line") /\ o.op # "ask"
      BY <1>2, <2>3 DEF MayPrecede, Wild
    <3>2. QED
      BY <1>7, <1>15, <2>1, <2>3, <3>1
  <2>4. QED
    BY <2>2, <2>3
<1>16. ASSUME NEW n, Among(printed'[q], n)
       PROVE  n \in told'[q] /\ ~Waits(q, n)' /\ (Has(q, "line")' => n < taken'[q])
  <2>1. CASE Among(printed[q], n)
    BY <1>6, <1>15, <2>1
  <2>2. CASE o.op = "line" /\ n = taken[q]
    BY <1>1, <1>7, <1>12, <2>2
  <2>3. QED
    BY <1>13, <1>16, <2>1, <2>2
<1>17. QED
  BY <1>11, <1>14, <1>16 DEF Served

-----------------------------------------------------------------------------
(* The course of a rank, when e messages are logged before loadRunInfo.    *)

\* The options node, the first to be written after the ranks have met.
Opens(o) == o.op = "write" /\ o.node = "packageOptionsStarted"

\* Operations that end in an agreement on numbers.
Agrees(o) == o.op = "sync" \/ (o.op = "setComm" /\ o.sync)

\* Operation b may come right behind operation a.
Fit(a, b, e) ==
  /\ b.op = "writeLog" <=> a.op = "name"
  /\ Agrees(a) => b.op = "name" \/ Opens(b)
  /\ Opens(b) => a.op = "sync" \/ (a.op = "setComm" /\ a.sync /\ a.comm = World)
  /\ a.op = "castDir" => b = Say(e + 2)
  /\ b.op # "gather"
  /\ b.op = "sync" => a.op = "gather"

\* Operation a may be the last.
Ends(a) == a.op \notin {"name", "castDir"} /\ ~Agrees(a)

\* Operation a may come before operation b.
Apart(a, b, e) ==
  /\ a.op = "say" /\ b.op \in {"ready", "setLog"} => a.msg <= e + 2
  /\ Opens(b) => \A n \in Nat : Tells(a, n) => n <= e + 3
  /\ Opens(a) => ~Opens(b) /\ \A n \in Nat : Tells(b, n) => e + 3 < n

\* What rank q has to do fits.
Fitting(q, e) ==
  LET s == todo[q]
  IN  /\ \A i \in 1 .. Len(s) : s[i].op = "look" => s[i].warning = e + 2
      /\ \A i \in 1 .. Len(s) : IF i < Len(s) THEN Fit(s[i], s[i + 1], e) ELSE Ends(s[i])
      /\ \A i, k \in 1 .. Len(s) : i < k => Apart(s[i], s[k], e)

\* The operations `first` fit where operation o was.
Fills(o, first, e) ==
  /\ Len(first) \in 1 .. 5
  /\ \A i \in 1 .. Len(first) - 1 : Fit(first[i], first[i + 1], e)
  /\ \A b : Fit(o, b, e) => Fit(first[Len(first)], b, e)
  /\ Ends(o) => Ends(first[Len(first)])
  /\ \A i \in 1 .. Len(first) : /\ ~Opens(first[i]) /\ first[i].op \notin {"look", "ready", "setLog"}
                                /\ \A k \in Nat : Tells(first[i], k) => k = e + 2
                                /\ first[i].op = "say" => first[i].msg = e + 2
                                /\ first[i].op \in {"sync", "gather"} => o.op = "setComm"

\* What comes instead of an operation fits.
LEMMA FirstFits ==
  ASSUME StartTyped, NEW q \in Ranks, Handling(q), NEW first, Does(q, first), first # << >>, NEW e \in Nat,
         todo[q][1].op = "look" => todo[q][1].warning = e + 2
  PROVE  Fills(todo[q][1], first, e)
<1> DEFINE o == todo[q][1]
<1>1. /\ o \in AnyStep /\ first \in Seq(AnyStep) /\ Brings(o, first) /\ Moves(todo[q], first)
  BY DoesFacts DEF Handling
<1>2. /\ o.op = "flush" => first = << >> \/ first = <<Deliver(Head(saved[q])), Op("pop"), Op("flush")>>
      /\ o.op = "deliver" =>
           \/ first = << >> \/ first = <<Op("line")>>
           \/ first = <<SetComm(calls[o.msg].comm, TRUE), NameLog, Op("writeLog"), SetComm(comm[q], FALSE), Op("line")>>
      /\ o.op = "setComm" => (o.sync <=> first # << >> /\ first[Len(first)] = Sync)
  BY DEF Does
<1>3. CASE o.op = "say"
  <2>1. first = <<Op("flush"), Deliver(o.msg)>>
    BY <1>1, <1>3 DEF Moves
  <2>2. Len(first) = 2 /\ first[1] = Op("flush") /\ first[2] = Deliver(o.msg)
    BY <2>1
  <2>3. QED
    BY <1>3, <2>2 DEF Fills, Fit, Ends, Opens, Agrees, Tells, Op, Deliver
<1>4. CASE o.op = "flush"
  <2>1. Len(first) = 3 /\ first[1] = Deliver(Head(saved[q])) /\ first[2] = Op("pop") /\ first[3] = Op("flush")
    BY <1>2, <1>4
  <2>3. QED
    BY <1>4, <2>1 DEF Fills, Fit, Ends, Opens, Agrees, Tells, Op, Deliver
<1>5. CASE o.op = "deliver"
  <2>1. CASE first = <<Op("line")>>
    <3>1. Len(first) = 1 /\ first[1] = Op("line")
      BY <2>1
    <3>2. QED
      BY <1>5, <3>1 DEF Fills, Fit, Ends, Opens, Agrees, Tells, Op
  <2>2. CASE first = <<SetComm(calls[o.msg].comm, TRUE), NameLog, Op("writeLog"), SetComm(comm[q], FALSE), Op("line")>>
    <3>1. /\ Len(first) = 5 /\ first[1] = SetComm(calls[o.msg].comm, TRUE) /\ first[2] = NameLog
          /\ first[3] = Op("writeLog") /\ first[4] = SetComm(comm[q], FALSE) /\ first[5] = Op("line")
      BY <2>2
    <3>2. /\ Fit(first[1], first[2], e) /\ Fit(first[2], first[3], e)
          /\ Fit(first[3], first[4], e) /\ Fit(first[4], first[5], e)
      BY <3>1 DEF Fit, Opens, Agrees, Op, NameLog, SetComm
    <3>3. \A i \in 1 .. 4 : Fit(first[i], first[i + 1], e)
      BY <3>2
    <3>4. (\A b : Fit(o, b, e) => Fit(first[Len(first)], b, e)) /\ Ends(first[Len(first)])
      <4>1. first[Len(first)] = Op("line")
        BY <3>1
      <4>2. QED
        BY <1>5, <4>1 DEF Fit, Ends, Opens, Agrees, Op
    <3>5. \A i \in 1 .. 5 : first[i].op \in {"setComm", "name", "writeLog", "line"}
      BY <3>1 DEF Op, NameLog, SetComm
    <3>6. \A i \in 1 .. 5 : /\ ~Opens(first[i]) /\ first[i].op \notin {"look", "ready", "setLog", "say", "sync", "gather"}
                            /\ \A k \in Nat : ~Tells(first[i], k)
      BY <3>5 DEF Opens, Tells
    <3>7. Len(first) = 5 /\ Len(first) \in 1 .. 5
      BY <3>1
    <3>8. \A i \in 1 .. Len(first) - 1 : Fit(first[i], first[i + 1], e)
      BY <3>3, <3>7
    <3>9. \A i \in 1 .. Len(first) : /\ ~Opens(first[i]) /\ first[i].op \notin {"look", "ready", "setLog", "say", "sync", "gather"}
                                     /\ \A k \in Nat : ~Tells(first[i], k)
      BY <3>6, <3>7
    <3>10. QED
      BY <3>4, <3>7, <3>8, <3>9, Zenon DEF Fills
  <2>3. QED
    BY <1>2, <1>5, <2>1, <2>2
<1>6. CASE o.op = "look"
  <2>1. Len(first) = 2 /\ first[1] = Op("castDir") /\ first[2] = Say(e + 2)
    <3>1. first = <<Op("castDir"), Say(o.warning)>>
      BY <1>1, <1>6 DEF Moves
    <3>2. QED
      BY <1>6, <3>1
  <2>2. QED
    BY <1>6, <2>1 DEF Fills, Fit, Ends, Opens, Agrees, Tells, Op, Say
<1>7. CASE o.op \in {"ask", "poll"}
  <2>1. PICK node \in {"fetch", "fetchSuccess"} : first = <<Write(node)>>
    BY <1>1, <1>7 DEF Moves
  <2>2. Len(first) = 1 /\ first[1] = Write(node)
    BY <2>1
  <2>3. QED
    BY <1>7, <2>2 DEF Fills, Fit, Ends, Opens, Agrees, Tells, Write
<1>8. CASE o.op = "setComm"
  <2>1. first \in {<<Gather>>, <<Sync>>, <<Gather, Sync>>}
    BY <1>1, <1>8 DEF Moves
  <2>2. CASE first = <<Gather>>
    <3>1. Len(first) = 1 /\ first[1] = Gather
      BY <2>2
    <3>2. ~o.sync
      BY <1>2, <1>8, <3>1 DEF Gather, Sync
    <3>3. QED
      BY <1>8, <3>1, <3>2 DEF Fills, Fit, Ends, Opens, Agrees, Tells, Gather
  <2>3. CASE first = <<Sync>>
    <3>1. Len(first) = 1 /\ first[1] = Sync
      BY <2>3
    <3>2. o.sync
      BY <1>2, <1>8, <3>1
    <3>3. QED
      BY <1>8, <3>1, <3>2 DEF Fills, Fit, Ends, Opens, Agrees, Tells, Sync
  <2>4. CASE first = <<Gather, Sync>>
    <3>1. Len(first) = 2 /\ first[1] = Gather /\ first[2] = Sync
      BY <2>4
    <3>2. o.sync
      BY <1>2, <1>8, <3>1
    <3>3. Fit(first[1], first[2], e)
      BY <3>1 DEF Fit, Opens, Agrees, Sync, Gather
    <3>4. (\A b : Fit(o, b, e) => Fit(first[Len(first)], b, e)) /\ ~Ends(o)
      <4>1. first[Len(first)] = Sync
        BY <3>1
      <4>2. QED
        BY <1>8, <3>2, <4>1 DEF Fit, Ends, Opens, Agrees, Sync
    <3>5. \A i \in 1 .. 2 : first[i].op \in {"sync", "gather"}
      BY <3>1 DEF Sync, Gather
    <3>6. \A i \in 1 .. 2 : ~Opens(first[i]) /\ \A k \in Nat : ~Tells(first[i], k)
      BY <3>5 DEF Opens, Tells
    <3>7. Len(first) = 2 /\ Len(first) - 1 = 1 /\ 2 \in 1 .. 5 /\ \A i \in 1 .. 1 : i = 1 /\ i + 1 = 2
      BY <3>1
    <3>8. \A i \in 1 .. Len(first) - 1 : Fit(first[i], first[i + 1], e)
      BY <3>3, <3>7
    <3>9. \A i \in 1 .. Len(first) : /\ first[i].op \notin {"look", "ready", "setLog", "say"}
                                     /\ ~Opens(first[i]) /\ \A k \in Nat : ~Tells(first[i], k)
      BY <3>5, <3>6, <3>7
    <3>10. QED
      BY <1>8, <3>4, <3>7, <3>8, <3>9, Zenon DEF Fills
  <2>5. QED
    BY <2>1, <2>2, <2>3, <2>4
<1>9. QED
  <2>1. o.op \in {"say", "flush", "deliver", "look", "ask", "poll", "setComm"}
    BY <1>1 DEF Brings
  <2>2. QED
    BY <2>1, <1>3, <1>4, <1>5, <1>6, <1>7, <1>8

\* The operations of a rank fit as it goes on.
LEMMA FittingKept ==
  ASSUME StartTyped, NEW q \in Ranks, Handling(q), NEW first, Does(q, first), NEW e \in Nat, Fitting(q, e)
  PROVE  Fitting(q, e)'
<1> DEFINE s == todo[q]
           t == todo'[q]
           o == todo[q][1]
           n == Len(first)
<1>1. /\ s \in Seq(AnyStep) /\ s # << >> /\ Len(s) \in Nat /\ 1 \in 1 .. Len(s) /\ o \in AnyStep
      /\ first \in Seq(AnyStep) /\ Len(first) \in 0 .. 5
      /\ t \in Seq(AnyStep) /\ Len(t) \in Nat /\ Replaces(s, first, t)
      /\ \A m \in 2 .. Len(s) : m \in 1 .. Len(s)
      /\ \A i \in 1 .. Len(t) : \/ i \in 1 .. Len(first) /\ t[i] = first[i]
                                \/ \E m \in 2 .. Len(s) : t[i] = s[m]
  BY DoesFacts DEF Handling
<1>2. /\ \A i \in 1 .. Len(s) : s[i].op = "look" => s[i].warning = e + 2
      /\ \A i \in 1 .. Len(s) : IF i < Len(s) THEN Fit(s[i], s[i + 1], e) ELSE Ends(s[i])
      /\ \A i, k \in 1 .. Len(s) : i < k => Apart(s[i], s[k], e)
  BY DEF Fitting
<1>3. first # << >> => Fills(o, first, e)
  BY <1>1, <1>2, FirstFits
<1>4. n \in Nat /\ (first = << >> <=> n = 0)
  BY <1>1, EmptySeq
<1> HIDE DEF s, t, o, n
<1>5. /\ \A i \in 1 .. n : t[i] = first[i]
      /\ \A i \in n + 1 .. Len(t) : i + 1 - n \in 2 .. Len(s) /\ t[i] = s[i + 1 - n]
      /\ Len(t) = n + Len(s) - 1
  BY <1>1 DEF Replaces, n
<1>6. ASSUME NEW i \in 1 .. Len(t), t[i].op = "look"
      PROVE  t[i].warning = e + 2
  <2>1. ~(i \in 1 .. n /\ t[i] = first[i])
    BY <1>3, <1>4, <1>6 DEF Fills, n
  <2>2. PICK m \in 2 .. Len(s) : t[i] = s[m]
    BY <1>1, <2>1 DEF n
  <2>3. m \in 1 .. Len(s)
    BY <1>1
  <2>4. QED
    BY <1>2, <1>6, <2>2, <2>3
<1>7. ASSUME NEW i \in 1 .. Len(t)
      PROVE  IF i < Len(t) THEN Fit(t[i], t[i + 1], e) ELSE Ends(t[i])
  <2>1. CASE i < n
    <3>1. i \in 1 .. n /\ i + 1 \in 1 .. n /\ i \in 1 .. n - 1 /\ i < Len(t) /\ n # 0
      BY <1>1, <1>4, <1>5, <2>1
    <3>2. Fit(first[i], first[i + 1], e)
      BY <1>3, <1>4, <3>1 DEF Fills, n
    <3>3. QED
      BY <1>5, <3>1, <3>2
  <2>2. CASE i = n
    <3>1. i \in 1 .. n /\ n # 0 /\ n \in 1 .. n
      BY <1>4, <2>2
    <3>2. (\A b : Fit(o, b, e) => Fit(first[n], b, e)) /\ (Ends(o) => Ends(first[n]))
      BY <1>3, <1>4, <3>1 DEF Fills, n
    <3>3. IF 1 < Len(s) THEN Fit(o, s[1 + 1], e) ELSE Ends(o)
      BY <1>1, <1>2 DEF o, s
    <3>4. CASE i < Len(t)
      <4>1. 1 < Len(s) /\ n + 1 \in n + 1 .. Len(t) /\ (n + 1) + 1 - n = 1 + 1
        BY <1>1, <1>4, <1>5, <2>2, <3>4
      <4>2. t[n + 1] = s[1 + 1] /\ t[n] = first[n]
        BY <1>5, <3>1, <4>1
      <4>3. QED
        BY <2>2, <3>2, <3>3, <3>4, <4>1, <4>2
    <3>5. CASE ~(i < Len(t))
      <4>1. ~(1 < Len(s))
        BY <1>1, <1>4, <1>5, <2>2, <3>5
      <4>2. t[n] = first[n]
        BY <1>5, <3>1
      <4>3. QED
        BY <2>2, <3>2, <3>3, <3>5, <4>1, <4>2
    <3>6. QED
      BY <3>4, <3>5
  <2>3. CASE n < i
    <3> DEFINE m == i + 1 - n
    <3>1. i \in n + 1 .. Len(t)
      BY <1>4, <1>5, <2>3
    <3>2. m \in 2 .. Len(s) /\ t[i] = s[m] /\ m \in 1 .. Len(s)
      BY <1>1, <1>5, <3>1
    <3>3. IF m < Len(s) THEN Fit(s[m], s[m + 1], e) ELSE Ends(s[m])
      BY <1>2, <3>2
    <3>4. CASE i < Len(t)
      <4>1. i + 1 \in n + 1 .. Len(t) /\ (i + 1) + 1 - n = m + 1 /\ m < Len(s)
        BY <1>1, <1>4, <1>5, <3>1, <3>2, <3>4
      <4>2. t[i + 1] = s[m + 1]
        BY <1>5, <4>1
      <4>3. QED
        BY <3>2, <3>3, <3>4, <4>1, <4>2
    <3>5. CASE ~(i < Len(t))
      <4>1. ~(m < Len(s))
        BY <1>1, <1>4, <1>5, <3>1, <3>5
      <4>2. QED
        BY <3>2, <3>3, <3>5, <4>1
    <3>6. QED
      BY <3>4, <3>5
  <2>4. QED
    BY <1>1, <1>4, <2>1, <2>2, <2>3
<1>8. ASSUME NEW i \in 1 .. Len(t), NEW k \in 1 .. Len(t), i < k
      PROVE  Apart(t[i], t[k], e)
  <2>1. \A h \in 1 .. n : /\ ~Opens(first[h]) /\ first[h].op \notin {"look", "ready", "setLog"}
                          /\ \A j \in Nat : Tells(first[h], j) => j = e + 2
                          /\ first[h].op = "say" => first[h].msg = e + 2
    <3>1. CASE n = 0
      BY <3>1
    <3>2. CASE n # 0
      BY <1>3, <1>4, <3>2 DEF Fills, n
    <3>3. QED
      BY <3>1, <3>2
  <2>2. \/ i \in 1 .. n /\ t[i] = first[i]
        \/ \E h \in 2 .. Len(s), m \in 2 .. Len(s) : h < m /\ t[i] = s[h] /\ t[k] = s[m]
    <3>1. i \in 1 .. Len(t) /\ k \in 1 .. Len(t) /\ i < k
      BY <1>8
    <3>2. s \in Seq(AnyStep) /\ first \in Seq(AnyStep) /\ t \in Seq(AnyStep) /\ Replaces(s, first, t)
      BY <1>1
    <3>3. QED
      BY <3>1, <3>2, Pairs DEF n
  <2>3. CASE i \in 1 .. n /\ t[i] = first[i]
    <3>1. /\ ~Opens(t[i]) /\ (\A j \in Nat : Tells(t[i], j) => j = e + 2) /\ (t[i].op = "say" => t[i].msg = e + 2)
      BY <2>1, <2>3
    <3>2. e + 2 <= e + 2 /\ e + 2 <= e + 3
      OBVIOUS
    <3>3. QED
      BY <3>1, <3>2 DEF Apart
  <2>4. CASE \E h \in 2 .. Len(s), m \in 2 .. Len(s) : h < m /\ t[i] = s[h] /\ t[k] = s[m]
    <3>1. PICK h \in 2 .. Len(s), m \in 2 .. Len(s) : h < m /\ t[i] = s[h] /\ t[k] = s[m]
      BY <2>4
    <3>2. h \in 1 .. Len(s) /\ m \in 1 .. Len(s)
      BY <1>1
    <3>3. QED
      BY <1>2, <3>1, <3>2
  <2>5. QED
    BY <2>2, <2>3, <2>4
<1>9. QED
  BY <1>6, <1>7, <1>8 DEF Fitting, t

\* Rank q has logged message n, or is going to.
Will(q, n) == n \in told[q] \/ \E i \in 1 .. Len(todo[q]) : todo[q][i].op = "say" /\ todo[q][i].msg = n

\* What a rank will still log after a step.
LEMMA WillSteps ==
  ASSUME StartTyped, NEW q \in Ranks, Handling(q), NEW first, Does(q, first), NEW n \in Nat
  PROVE  /\ Will(q, n) => Will(q, n)'
         /\ Will(q, n)' => Will(q, n) \/ (todo[q][1].op = "look" /\ n = todo[q][1].warning /\ first # << >>)
<1> DEFINE s == todo[q]
           t == todo'[q]
           o == todo[q][1]
<1>1. /\ Len(s) \in Nat /\ 1 \in 1 .. Len(s) /\ Len(first) \in 0 .. 5 /\ (first # << >> => Brings(o, first))
      /\ \A m \in 2 .. Len(s) : m \in 1 .. Len(s)
      /\ \A i \in 1 .. Len(t) : \/ i \in 1 .. Len(first) /\ t[i] = first[i]
                                \/ \E m \in 2 .. Len(s) : t[i] = s[m]
      /\ \A m \in 2 .. Len(s) : \E i \in 1 .. Len(t) : t[i] = s[m]
  BY DoesFacts DEF Handling
<1>2. told'[q] = IF o.op = "say" THEN told[q] \cup {o.msg} ELSE told[q]
  BY DEF Does
<1>3. \A i \in 1 .. Len(s) : i = 1 \/ i \in 2 .. Len(s)
  OBVIOUS
<1>4. Will(q, n) => Will(q, n)'
  <2>1. ASSUME NEW i \in 1 .. Len(s), s[i].op = "say", s[i].msg = n
        PROVE  Will(q, n)'
    <3>1. CASE i = 1
      BY <1>2, <2>1, <3>1 DEF Will
    <3>2. CASE i \in 2 .. Len(s)
      <4>1. PICK k \in 1 .. Len(t) : t[k] = s[i]
        BY <1>1, <3>2
      <4>2. QED
        BY <2>1, <4>1 DEF Will
    <3>3. QED
      BY <1>3, <3>1, <3>2
  <2>2. QED
    BY <1>2, <2>1 DEF Will
<1>5. ASSUME NEW i \in 1 .. Len(t), t[i].op = "say", t[i].msg = n
      PROVE  Will(q, n) \/ (o.op = "look" /\ n = o.warning /\ first # << >>)
  <2>1. CASE i \in 1 .. Len(first) /\ t[i] = first[i]
    <3>1. Brings(o, first) /\ first # << >>
      BY <1>1, <2>1
    <3>2. o.op = "look" /\ first[i] = Say(o.warning)
      BY <1>1, <1>5, <2>1, <3>1, BringsFacts
    <3>3. QED
      BY <1>5, <2>1, <3>2 DEF Say
  <2>2. CASE \E m \in 2 .. Len(s) : t[i] = s[m]
    BY <1>1, <1>5, <2>2 DEF Will
  <2>3. QED
    BY <1>1, <2>1, <2>2
<1>6. 1 \in 1 .. Len(s)
  BY <1>1
<1>7. n \in told'[q] => Will(q, n)
  BY <1>2, <1>6 DEF Will
<1>8. QED
  BY <1>4, <1>5, <1>7 DEF Will

\* The course of rank q: what it logs and when it writes it at once, and the ranks'
\* meeting before the options.
Course(q, e) ==
  LET s == todo[q]
  IN  /\ Fitting(q, e)
      /\ Has(q, "ready") \/ ready[q]
      /\ Has(q, "setLog") \/ locked[q]
      /\ (\E i \in 1 .. Len(s) : Opens(s[i])) => \A n \in told[q] : n <= e + 3
      /\ \A n \in 1 .. Len(calls) : n # e + 2 /\ q \in calls[n].comm => Will(q, n)
      /\ e + 3 \in told[q] => saved[q] = << >> \/ Has(q, "flush")
      /\ \A i \in 2 .. Len(s) : Opens(s[i]) /\ (\A k \in 1 .. i - 1 : s[k].op \in {"sync", "gather"}) => comm[q] = World

\* A rank keeps its course.
LEMMA CourseKept ==
  ASSUME StartTyped, calls # << >>, calls' = calls, mode = "engine", NEW q \in Ranks, Telling(q), Handling(q),
         NEW first, Does(q, first), NEW e \in Nat, Course(q, e)
  PROVE  Course(q, e)'
<1> DEFINE s == todo[q]
           t == todo'[q]
           o == todo[q][1]
           n == Len(first)
<1>1. /\ s \in Seq(AnyStep) /\ s # << >> /\ Len(s) \in Nat /\ 1 \in 1 .. Len(s) /\ o \in AnyStep
      /\ first \in Seq(AnyStep) /\ Len(first) \in 0 .. 5 /\ (first # << >> => Brings(o, first))
      /\ t \in Seq(AnyStep) /\ Len(t) \in Nat /\ Replaces(s, first, t)
      /\ \A m \in 2 .. Len(s) : m \in 1 .. Len(s)
      /\ \A i \in 1 .. Len(t) : \/ i \in 1 .. Len(first) /\ t[i] = first[i]
                                \/ \E m \in 2 .. Len(s) : t[i] = s[m]
  BY DoesFacts DEF Handling
<1>2. /\ Fitting(q, e)
      /\ Has(q, "ready") \/ ready[q]
      /\ Has(q, "setLog") \/ locked[q]
      /\ (\E i \in 1 .. Len(s) : Opens(s[i])) => \A k \in told[q] : k <= e + 3
      /\ \A k \in 1 .. Len(calls) : k # e + 2 /\ q \in calls[k].comm => Will(q, k)
      /\ e + 3 \in told[q] => saved[q] = << >> \/ Has(q, "flush")
      /\ \A i \in 2 .. Len(s) : Opens(s[i]) /\ (\A k \in 1 .. i - 1 : s[k].op \in {"sync", "gather"}) => comm[q] = World
  BY DEF Course
<1>3. /\ \A i \in 1 .. Len(s) : s[i].op = "look" => s[i].warning = e + 2
      /\ \A i \in 1 .. Len(s) : IF i < Len(s) THEN Fit(s[i], s[i + 1], e) ELSE Ends(s[i])
      /\ \A i, k \in 1 .. Len(s) : i < k => Apart(s[i], s[k], e)
  BY <1>2 DEF Fitting
<1>4. first # << >> => Fills(o, first, e)
  BY <1>1, <1>3, FirstFits
<1>5. /\ \A op : Has(q, op) <=> o.op = op \/ Later(q, op)
      /\ \A op : Has(q, op)' <=> HasOp(first, op) \/ Later(q, op)
      /\ \A op : Later(q, op) => MayPrecede(o.op, op)
  BY LaterFacts
<1>6. /\ told'[q] = IF o.op = "say" THEN told[q] \cup {o.msg} ELSE told[q]
      /\ comm'[q] = IF o.op = "setComm" THEN o.comm ELSE comm[q]
      /\ saved'[q] = IF o.op = "say" /\ first = << >> THEN Append(saved[q], o.msg)
                     ELSE IF o.op = "pop" THEN Tail(saved[q]) ELSE saved[q]
      /\ locked'[q] = (locked[q] \/ (o.op = "setLog" /\ mode # "off"))
      /\ ready'[q] = (ready[q] \/ o.op = "ready")
      /\ o.op = "say" => (first = << >> <=> ~locked[q] \/ (mode = "engine" /\ ~ready[q]))
      /\ o.op = "flush" => IF saved[q] = << >> THEN first = << >>
                           ELSE first = <<Deliver(Head(saved[q])), Op("pop"), Op("flush")>>
  BY DEF Does
<1>7. n \in Nat /\ (first = << >> <=> n = 0)
  BY <1>1, EmptySeq
<1>8. \A h \in 1 .. n : ~Opens(first[h]) /\ (first[h].op \in {"sync", "gather"} => o.op = "setComm")
  BY <1>4, <1>7 DEF Fills
<1>9. o.op = "say" => o.msg \in Nat /\ Tells(o, o.msg)
  BY <1>1, StepCases DEF Tells
<1>10. \A m \in 2 .. Len(s) : Apart(o, s[m], e) /\ m \in 1 .. Len(s)
  BY <1>1, <1>3, SMTT(30)
<1>11. ready[q] \in BOOLEAN /\ locked[q] \in BOOLEAN
  BY DEF StartTyped
<1>12. Fitting(q, e)'
  BY <1>2, FittingKept
<1>13. (Has(q, "ready")' \/ ready'[q]) /\ (Has(q, "setLog")' \/ locked'[q])
  BY <1>2, <1>5, <1>6, <1>11
<1>14. ASSUME NEW i \in 1 .. Len(t), Opens(t[i])
       PROVE  \A k \in told'[q] : k <= e + 3
  <2>1. PICK m \in 2 .. Len(s) : t[i] = s[m]
    BY <1>1, <1>8, <1>14
  <2>2. \A k \in told[q] : k <= e + 3
    BY <1>2, <1>10, <1>14, <2>1
  <2>3. o.op = "say" => o.msg <= e + 3
    BY <1>9, <1>10, <1>14, <2>1 DEF Apart
  <2>4. QED
    BY <1>6, <2>2, <2>3
<1>15. \A k \in 1 .. Len(calls) : k # e + 2 /\ q \in calls[k].comm => Will(q, k)'
  BY <1>2, WillSteps
<1>16. ASSUME o.op = "say", e + 3 <= o.msg
       PROVE  Has(q, "flush")'
  <2>1. ~Later(q, "ready") /\ ~Later(q, "setLog")
    <3>1. \A m \in 2 .. Len(s) : s[m].op \in {"ready", "setLog"} => o.msg <= e + 2
      BY <1>10, <1>16 DEF Apart
    <3>2. ~(o.msg <= e + 2)
      BY <1>9, <1>16
    <3>3. QED
      BY <3>1, <3>2 DEF Later
  <2>2. ready[q] /\ locked[q]
    BY <1>2, <1>5, <1>16, <2>1
  <2>3. first # << >>
    BY <1>6, <1>16, <2>2
  <2>4. Len(first) = 2 /\ first[1].op = "flush"
    BY <1>1, <1>16, <2>3 DEF Brings
  <2>5. QED
    BY <1>5, <2>4 DEF HasOp
<1>17. ASSUME e + 3 \in told'[q]
       PROVE  saved'[q] = << >> \/ Has(q, "flush")'
  <2>1. CASE o.op = "say"
    <3>1. e + 3 <= o.msg
      <4>1. e + 3 \in told[q] => e + 3 < o.msg
        <5>1. \A i \in 1 .. Len(s), p \in Nat : Tells(s[i], p) => \A k \in told[q] : k < p
          BY DEF Telling
        <5>2. \A k \in told[q] : k < o.msg
          BY <1>1, <1>9, <2>1, <5>1
        <5>3. QED
          BY <5>2
      <4>2. QED
        BY <1>6, <1>9, <1>17, <2>1, <4>1
    <3>2. QED
      BY <1>16, <2>1, <3>1
  <2>2. CASE o.op = "pop"
    <3>1. saved[q] # << >>
      BY <1>1, <2>2 DEF Handling, HasOp
    <3>2. QED
      BY <1>2, <1>5, <1>6, <1>17, <2>2, <3>1
  <2>3. CASE o.op = "flush" /\ first # << >>
    <3>1. Len(first) = 3 /\ first[3].op = "flush"
      BY <1>1, <2>3 DEF Brings
    <3>2. QED
      BY <1>5, <3>1 DEF HasOp
  <2>4. CASE o.op = "flush" /\ first = << >>
    BY <1>6, <2>4
  <2>5. CASE o.op \notin {"say", "pop", "flush"}
    BY <1>2, <1>5, <1>6, <1>17, <2>5
  <2>6. QED
    BY <2>1, <2>2, <2>3, <2>4, <2>5
<1>18. ASSUME NEW i \in 2 .. Len(t), Opens(t[i]), \A k \in 1 .. i - 1 : t[k].op \in {"sync", "gather"}
       PROVE  comm'[q] = World
  <2> DEFINE m == i + 1 - n
  <2>1. i \in 1 .. Len(t) /\ ~(i \in 1 .. n)
    <3>1. i \in 1 .. Len(t)
      BY <1>1
    <3>2. i \in 1 .. n => t[i] = first[i]
      BY <1>1 DEF Replaces
    <3>3. QED
      BY <1>8, <1>18, <3>1, <3>2
  <2>2. i \in n + 1 .. Len(t)
    BY <1>7, <2>1
  <2>3. m \in 2 .. Len(s) /\ t[i] = s[m] /\ m \in 1 .. Len(s)
    BY <1>1, <2>2 DEF Replaces
  <2>4. \A h \in 2 .. m - 1 : h \in 2 .. Len(s) /\ s[h].op \in {"sync", "gather"}
    <3>1. ASSUME NEW h \in 2 .. m - 1
          PROVE  h \in 2 .. Len(s) /\ n + h - 1 \in 1 .. i - 1
      BY <1>1, <1>7, <2>2, <2>3, SMTT(30)
    <3>2. \A h \in 2 .. m - 1 : t[n + h - 1] = s[h]
      BY <1>1, <3>1 DEF Replaces
    <3>3. QED
      BY <1>18, <3>1, <3>2
  <2> HIDE DEF m
  <2>5. CASE o.op \in {"sync", "gather"}
    <3>1. \A h \in 1 .. m - 1 : h = 1 \/ h \in 2 .. m - 1
      OBVIOUS
    <3>2. \A h \in 1 .. m - 1 : s[h].op \in {"sync", "gather"}
      BY <2>4, <2>5, <3>1
    <3>3. comm[q] = World
      BY <1>2, <1>18, <2>3, <3>2
    <3>4. QED
      BY <1>6, <2>5, <3>3
  <2>6. CASE o.op \notin {"sync", "gather"}
    <3>1. 1 < Len(s) /\ Fit(o, s[1 + 1], e)
      BY <1>1, <1>3, <2>3
    <3>2. m = 2
      <4>1. ASSUME m # 2
            PROVE  FALSE
        <5>1. 2 \in 2 .. m - 1
          BY <2>3, <4>1
        <5>2. s[1 + 1].op \in {"sync", "gather"}
          BY <2>4, <5>1
        <5>3. QED
          BY <2>6, <3>1, <5>2 DEF Fit
      <4>2. QED
        BY <4>1
    <3>3. o.op = "setComm" /\ o.comm = World
      BY <1>18, <2>3, <2>6, <3>1, <3>2 DEF Fit
    <3>4. QED
      BY <1>6, <3>3
  <2>7. QED
    BY <2>5, <2>6
<1>19. QED
  BY <1>12, <1>13, <1>14, <1>15, <1>17, <1>18 DEF Course

-----------------------------------------------------------------------------
(* The ranks together.                                                     *)

\* Rank q has the number of message n, has seen that the directory exists, and
\* has still to meet the others.
Passed(q, n) == n \in told[q] /\ ~Waits(q, n)
Warned(q, e) == Will(q, e + 2) /\ ~Has(q, "castDir")
Before(q) == \E i \in 2 .. Len(todo[q]) : Opens(todo[q][i])

\* What holds of one rank.
Orderly(q) == Telling(q) /\ Handling(q) /\ Places(q) /\ Prepared(q) /\ Queued(q) /\ Served(q)

\* A rank gets the number of a message when the ranks agree on it.
LEMMA PassedSteps ==
  ASSUME StartTyped, StartTyped', calls # << >>, calls' = calls, mode' = mode, mode = "engine", NEW q \in Ranks,
         Orderly(q), NEW first, Does(q, first)
  PROVE  LET o == todo[q][1]
         IN  /\ \A n : Passed(q, n) => Passed(q, n)'
             /\ \A n : Passed(q, n)' /\ ~Passed(q, n) /\ ~calls[n].black =>
                  o.op = "sync" /\ Later(q, "name") /\ n = taken[q]
             /\ o.op = "sync" /\ Later(q, "name") => Passed(q, taken[q])'
<1> DEFINE o == todo[q][1]
<1>1. /\ \A n : Waits(q, n)' => Waits(q, n) \/ (o.op = "say" /\ n = o.msg)
      /\ \A n : o.op = "say" /\ n = o.msg => Waits(q, n)'
      /\ \A n : Waits(q, n) /\ ~Waits(q, n)' =>
           \/ o.op = "deliver" /\ n = o.msg
           \/ o.op = "sync" /\ n = taken[q] /\ Later(q, "name")
      /\ \A n : o.op = "deliver" /\ n = o.msg /\ ~calls[n].black /\ mode = "engine" => Waits(q, n)'
  BY WaitsSteps DEF Orderly, Places
<1>2. told'[q] = IF o.op = "say" THEN told[q] \cup {o.msg} ELSE told[q]
  BY DEF Does
<1>3. o.op = "say" => \A n \in told[q] : n # o.msg
  <2>1. ASSUME o.op = "say"
        PROVE  o.msg \in Nat /\ Tells(todo[q][1], o.msg) /\ 1 \in 1 .. Len(todo[q])
    BY <2>1, DoesFacts, StepCases DEF Tells, Orderly, Handling
  <2>2. told[q] \subseteq Nat
    BY DEF StartTyped
  <2>3. \A i \in 1 .. Len(todo[q]), p \in Nat : Tells(todo[q][i], p) => \A k \in told[q] : k < p
    BY DEF Orderly, Telling
  <2>4. QED
    BY <2>1, <2>2, <2>3
<1>4. o.op = "sync" /\ Later(q, "name") => Passed(q, taken[q])'
  <2> SUFFICES ASSUME o.op = "sync", Later(q, "name")
               PROVE  taken'[q] \in told'[q] /\ ~Waits(q, taken[q])'
    BY DEF Passed
  <2>1. PICK m \in 2 .. Len(todo[q]) : todo[q][m].op = "name"
    BY DEF Later
  <2>2. m \in 1 .. Len(todo[q])
    BY <2>1, DoesFacts DEF Orderly, Handling
  <2>3. taken[q] \in told[q] /\ Working(q)
    BY <2>1, <2>2 DEF Orderly, Handling, Working, Has, HasOp
  <2>4. taken'[q] = taken[q] /\ taken[q] \in Nat
    BY DEF Does, StartTyped
  <2>5. ~Later(q, "name")'
    BY NameSteps DEF Orderly
  <2>6. (\A n : Delivers(q, n)' <=> Delivers(q, n)) /\ Held(q)' = Held(q)
    BY DeliversSteps, HeldSteps DEF Orderly
  <2>7. \A n : Keeps(q, n) \/ Delivers(q, n) => taken[q] < n
    BY <2>3 DEF Orderly, Queued
  <2>8. ~Keeps(q, taken[q])' /\ ~Delivers(q, taken[q])'
    <3>1. ~(taken[q] < taken[q])
      BY <2>4
    <3>2. \A n : Keeps(q, n)' <=> Keeps(q, n)
      BY <2>6 DEF Keeps
    <3> DEFINE x == taken[q]
    <3> HIDE DEF x
    <3>3. ~Keeps(q, x) /\ ~Delivers(q, x)
      BY <2>7, <3>1 DEF x
    <3>4. taken'[q] = x
      BY <2>4 DEF x
    <3>5. (taken[q])' = x
      BY <3>4
    <3>6. QED
      BY <2>6, <3>2, <3>3, <3>4, <3>5
  <2>9. QED
    BY <1>2, <2>3, <2>4, <2>5, <2>8 DEF Waits
<1> HIDE DEF o
<1>5. \A n : Passed(q, n) <=> n \in told[q] /\ ~Waits(q, n)
  BY DEF Passed
<1>6. \A n : Passed(q, n)' <=> n \in told'[q] /\ ~Waits(q, n)'
  BY DEF Passed
<1>7. \A n : Passed(q, n) => Passed(q, n)'
  BY <1>1, <1>2, <1>3, <1>5, <1>6
<1>8. \A n : Passed(q, n)' /\ ~Passed(q, n) /\ ~calls[n].black =>
              o.op = "sync" /\ Later(q, "name") /\ n = taken[q]
  <2> SUFFICES ASSUME NEW n, Passed(q, n)', ~Passed(q, n), ~calls[n].black
               PROVE  o.op = "sync" /\ Later(q, "name") /\ n = taken[q]
    OBVIOUS
  <2>1. n \in told'[q] /\ ~Waits(q, n)'
    BY <1>6
  <2>2. n \in told[q]
    BY <1>1, <1>2, <2>1
  <2>3. Waits(q, n)
    BY <1>5, <2>2
  <2>4. QED
    BY <1>1, <2>1, <2>3
<1>9. QED
  BY <1>4, <1>7, <1>8 DEF o

\* A rank that is not on the way to its meeting never is again.
LEMMA BeforeSteps ==
  ASSUME StartTyped, NEW q \in Ranks, Handling(q), NEW first, Does(q, first), NEW e \in Nat, Course(q, e)
  PROVE  /\ Before(q)' => Before(q)
         /\ Before(q) /\ ~Before(q)' => todo[q][1].op = "sync" /\ Opens(todo[q][2])
         /\ todo[q][1].op = "sync" /\ Opens(todo[q][2]) => ~Before(q)'
<1> DEFINE s == todo[q]
           t == todo'[q]
           o == todo[q][1]
           n == Len(first)
<1>1. /\ s \in Seq(AnyStep) /\ s # << >> /\ Len(s) \in Nat /\ 1 \in 1 .. Len(s)
      /\ first \in Seq(AnyStep) /\ Len(first) \in 0 .. 5 /\ (first # << >> => Brings(o, first))
      /\ t \in Seq(AnyStep) /\ Len(t) \in Nat /\ Replaces(s, first, t)
      /\ \A m \in 2 .. Len(s) : m \in 1 .. Len(s)
      /\ \A i \in 1 .. Len(t) : \/ i \in 1 .. Len(first) /\ t[i] = first[i]
                                \/ \E m \in 2 .. Len(s) : t[i] = s[m]
  BY DoesFacts DEF Handling
<1>2. Fitting(q, e)
  BY DEF Course
<1>3. /\ \A i \in 1 .. Len(s) : s[i].op = "look" => s[i].warning = e + 2
      /\ \A i \in 1 .. Len(s) : IF i < Len(s) THEN Fit(s[i], s[i + 1], e) ELSE Ends(s[i])
      /\ \A i, k \in 1 .. Len(s) : i < k => Apart(s[i], s[k], e)
  BY <1>2 DEF Fitting
<1>4. first # << >> => Fills(o, first, e)
  BY <1>1, <1>3, FirstFits
<1>5. n \in Nat /\ (first = << >> <=> n = 0)
  BY <1>1, EmptySeq
<1>6. \A h \in 1 .. n : ~Opens(first[h])
  BY <1>4, <1>5 DEF Fills
<1>7. o.op = "setComm" => (o.sync <=> first # << >> /\ first[Len(first)] = Sync)
  BY DEF Does
<1>8. /\ Before(q) <=> \E m \in 2 .. Len(s) : Opens(s[m])
      /\ Before(q)' <=> \E i \in 2 .. Len(t) : Opens(t[i])
  BY DEF Before
<1> HIDE DEF s, t, o, n
<1>9. Before(q)' => Before(q)
  <2>1. ASSUME NEW i \in 2 .. Len(t), Opens(t[i])
        PROVE  \E m \in 2 .. Len(s) : Opens(s[m])
    <3>1. i \in 1 .. Len(t)
      BY <1>1
    <3>2. QED
      BY <1>1, <1>6, <2>1, <3>1 DEF n
  <2>2. QED
    BY <1>8, <2>1
<1>10. ASSUME NEW m \in 2 .. Len(s), Opens(s[m]), ~Before(q)'
       PROVE  o.op = "sync" /\ Opens(s[2])
  <2>1. n + m - 1 \in 1 .. Len(t) /\ t[n + m - 1] = s[m]
    BY <1>1, <1>5 DEF Replaces, n
  <2>2. ~(n + m - 1 \in 2 .. Len(t))
    BY <1>8, <1>10, <2>1
  <2>3. n = 0 /\ m = 2 /\ 1 < Len(s)
    BY <1>1, <1>5, <2>1, <2>2
  <2>4. Fit(o, s[1 + 1], e)
    BY <1>1, <1>3, <2>3 DEF o, s
  <2>5. o.op = "sync" \/ (o.op = "setComm" /\ o.sync)
    BY <1>10, <2>3, <2>4 DEF Fit
  <2>6. QED
    BY <1>5, <1>7, <1>10, <2>3, <2>5
<1>11. ASSUME o.op = "sync", Opens(s[2])
       PROVE  ~Before(q)'
  <2>1. first = << >>
    BY <1>1, <1>11 DEF Brings
  <2>2. ASSUME NEW i \in 2 .. Len(t), Opens(t[i])
        PROVE  FALSE
    <3>1. n = 0 /\ i \in n + 1 .. Len(t)
      BY <1>5, <2>1
    <3>2. i + 1 - n \in 2 .. Len(s) /\ t[i] = s[i + 1 - n]
      BY <1>1, <3>1 DEF Replaces, n
    <3>3. i + 1 \in 1 .. Len(s) /\ 2 \in 1 .. Len(s) /\ 2 < i + 1 /\ t[i] = s[i + 1]
      BY <1>1, <3>1, <3>2
    <3>4. Apart(s[2], s[i + 1], e)
      BY <1>3, <3>3
    <3>5. QED
      BY <1>11, <2>2, <3>3, <3>4 DEF Apart
  <2>3. QED
    BY <1>8, <2>2
<1>12. QED
  BY <1>8, <1>9, <1>10, <1>11 DEF s, o

\* Ranks that see the directory wait for each other, and are not surprised again.
LEMMA WarnedSteps ==
  ASSUME StartTyped, NEW q \in Ranks, Telling(q), Handling(q), NEW first, Does(q, first), NEW e \in Nat, Course(q, e)
  PROVE  /\ Warned(q, e) => Warned(q, e)'
         /\ Warned(q, e)' /\ ~Warned(q, e) => todo[q][1].op = "castDir"
         /\ todo[q][1].op = "castDir" => Warned(q, e)'
<1> DEFINE s == todo[q]
           t == todo'[q]
           o == todo[q][1]
<1>1. /\ s \in Seq(AnyStep) /\ s # << >> /\ Len(s) \in Nat /\ 1 \in 1 .. Len(s)
      /\ first \in Seq(AnyStep) /\ Len(first) \in 0 .. 5 /\ (first # << >> => Brings(o, first))
      /\ t \in Seq(AnyStep) /\ Len(t) \in Nat /\ Replaces(s, first, t)
      /\ \A m \in 2 .. Len(s) : m \in 1 .. Len(s)
  BY DoesFacts DEF Handling
<1>2. /\ \A i \in 1 .. Len(s) : s[i].op = "look" => s[i].warning = e + 2
      /\ \A i \in 1 .. Len(s) : IF i < Len(s) THEN Fit(s[i], s[i + 1], e) ELSE Ends(s[i])
  BY DEF Course, Fitting
<1>3. e + 2 \in Nat
  OBVIOUS
<1>4. /\ Will(q, e + 2) => Will(q, e + 2)'
      /\ Will(q, e + 2)' => Will(q, e + 2) \/ (o.op = "look" /\ e + 2 = o.warning /\ first # << >>)
  BY <1>3, WillSteps
<1>5. /\ \A op : Has(q, op) <=> o.op = op \/ Later(q, op)
      /\ \A op : Has(q, op)' <=> HasOp(first, op) \/ Later(q, op)
      /\ \A op : Later(q, op) => MayPrecede(o.op, op)
  BY LaterFacts
<1>6. HasOp(first, "castDir") => o.op = "look"
  <2>1. ASSUME NEW i \in 1 .. Len(first), first[i].op = "castDir"
        PROVE  o.op = "look"
    <3>1. Brings(o, first)
      BY <1>1, <2>1
    <3>2. QED
      BY <1>1, <2>1, <3>1, BringsFacts
  <2>2. QED
    BY <2>1 DEF HasOp
<1>7. o.op = "look" => ~Will(q, e + 2)
  <2> SUFFICES ASSUME o.op = "look", Will(q, e + 2)
               PROVE  FALSE
    OBVIOUS
  <2>1. Tells(o, e + 2) /\ o = s[1]
    BY <1>1, <1>2 DEF Tells
  <2>2. /\ \A i \in 1 .. Len(s), p \in Nat : Tells(s[i], p) => \A k \in told[q] : k < p
        /\ \A i, k \in 1 .. Len(s), m, p \in Nat : i < k /\ Tells(s[i], m) /\ Tells(s[k], p) => m < p
    BY DEF Telling
  <2>3. ~(e + 2 < e + 2)
    OBVIOUS
  <2>4. e + 2 \notin told[q]
    BY <1>1, <1>3, <2>1, <2>2, <2>3
  <2>5. PICK i \in 1 .. Len(s) : s[i].op = "say" /\ s[i].msg = e + 2
    BY <2>4 DEF Will
  <2>6. i # 1 /\ 1 < i /\ Tells(s[i], e + 2)
    BY <2>5 DEF Tells
  <2>7. QED
    BY <1>1, <1>3, <2>1, <2>2, <2>3, <2>6
<1>8. o.op = "look" /\ first # << >> => HasOp(first, "castDir")
  <2>1. ASSUME o.op = "look", first # << >>
        PROVE  Len(first) = 2 /\ first[1].op = "castDir"
    BY <1>1, <2>1 DEF Brings
  <2>2. QED
    BY <2>1 DEF HasOp
<1>9. ASSUME o.op = "castDir"
      PROVE  Will(q, e + 2)' /\ ~Has(q, "castDir")'
  <2>1. first = << >> /\ Len(first) = 0
    BY <1>1, <1>9 DEF Brings
  <2>2. ~Has(q, "castDir")'
    BY <1>5, <1>9, <2>1 DEF MayPrecede, HasOp
  <2>3. 1 < Len(s) /\ s[1 + 1] = Say(e + 2)
    BY <1>1, <1>2, <1>9 DEF Fit, Ends
  <2>4. 1 \in 1 .. Len(t) /\ t[1] = Say(e + 2)
    BY <1>1, <2>1, <2>3 DEF Replaces
  <2>5. t[1].op = "say" /\ t[1].msg = e + 2
    BY <2>4 DEF Say
  <2>6. QED
    BY <2>2, <2>4, <2>5 DEF Will
<1> HIDE DEF o
<1>10. /\ Warned(q, e) <=> Will(q, e + 2) /\ ~Has(q, "castDir")
       /\ Warned(q, e)' <=> Will(q, e + 2)' /\ ~Has(q, "castDir")'
  BY DEF Warned
<1>11. QED
  BY <1>4, <1>5, <1>6, <1>7, <1>8, <1>9, <1>10 DEF o

\* A rank at an agreement on numbers is there for the message it has taken, or for the meeting.
LEMMA SyncFacts ==
  ASSUME StartTyped, NEW q \in Ranks, Orderly(q), NEW e \in Nat, Course(q, e), Doing(q, "sync")
  PROVE  /\ Later(q, "name") => /\ comm[q] = calls[taken[q]].comm /\ taken[q] \in 1 .. Len(calls)
                                /\ q \in calls[taken[q]].comm /\ taken[q] \in told[q] /\ ~calls[taken[q]].black
                                /\ Waits(q, taken[q]) /\ \A n : Waits(q, n) /\ n # taken[q] => taken[q] < n
         /\ ~Later(q, "name") => /\ 2 \in 1 .. Len(todo[q]) /\ Opens(todo[q][2]) /\ comm[q] = World
                                 /\ \A n : ~Delivers(q, n)
                                 /\ ~Has(q, "flush") /\ ~Has(q, "pop")
         /\ Opens(todo[q][2]) => ~Later(q, "name")
<1> DEFINE s == todo[q]
<1>1. s \in Seq(AnyStep) /\ s # << >> /\ s[1].op = "sync" /\ Len(s) \in Nat /\ 1 \in 1 .. Len(s)
  BY DoingStep, LenProperties DEF StartTyped
<1>2. \A i \in 1 .. Len(s) : IF i < Len(s) THEN Fit(s[i], s[i + 1], e) ELSE Ends(s[i])
  BY DEF Course, Fitting
<1>3. 1 < Len(s) /\ (s[1 + 1].op = "name" \/ Opens(s[1 + 1]))
  BY <1>1, <1>2 DEF Fit, Ends, Agrees
<1>4. 2 \in 1 .. Len(s) /\ 2 \in 2 .. Len(s) /\ (s[2].op = "name" \/ Opens(s[2])) /\ \A i \in 2 .. Len(s) : i \in 1 .. Len(s)
  BY <1>1, <1>3
<1>5. InTurn(s)
  BY DEF Orderly, Handling
<1>6. ASSUME Opens(s[2])
      PROVE  \A i \in 1 .. Len(s) : s[i].op \notin {"name", "deliver", "flush", "pop"}
  <2> SUFFICES ASSUME NEW i \in 1 .. Len(s)
               PROVE  s[i].op \notin {"name", "deliver", "flush", "pop"}
    OBVIOUS
  <2>1. CASE i = 1 \/ i = 2
    BY <1>1, <1>6, <2>1 DEF Opens
  <2>2. CASE 2 < i
    <3>1. MayPrecede("write", s[i].op)
      BY <1>4, <1>5, <1>6, <2>2 DEF InTurn, Opens
    <3>2. QED
      BY <3>1 DEF MayPrecede, Wild
  <2>3. QED
    BY <2>1, <2>2
<1>7. Opens(s[2]) => ~Later(q, "name")
  BY <1>4, <1>6 DEF Later
<1>8. ASSUME Later(q, "name")
      PROVE  /\ comm[q] = calls[taken[q]].comm /\ taken[q] \in 1 .. Len(calls)
             /\ q \in calls[taken[q]].comm /\ taken[q] \in told[q] /\ ~calls[taken[q]].black
             /\ Waits(q, taken[q]) /\ \A n : Waits(q, n) /\ n # taken[q] => taken[q] < n
  <2>1. s[2].op = "name"
    BY <1>4, <1>7, <1>8
  <2>2. taken[q] \in told[q] /\ ~calls[taken[q]].black
    BY <1>4, <2>1 DEF Orderly, Handling
  <2>3. taken[q] \in 1 .. Len(calls) /\ q \in calls[taken[q]].comm
    BY <2>2 DEF Orderly, Telling
  <2>4. Working(q)
    BY <1>4, <2>1 DEF Working, Has, HasOp
  <2>5. \A n : Keeps(q, n) \/ Delivers(q, n) => taken[q] < n
    BY <2>4 DEF Orderly, Queued
  <2>6. comm[q] = calls[taken[q]].comm
    <3>1. \/ 2 = 1
          \/ 2 = 2 /\ s[1] = SetComm(calls[taken[q]].comm, TRUE)
          \/ 2 = 2 /\ s[1] = Sync /\ comm[q] = calls[taken[q]].comm
          \/ 2 = 3 /\ s[1] = Gather /\ s[2] = Sync /\ comm[q] = calls[taken[q]].comm
      BY <1>4, <2>1 DEF Orderly, Prepared
    <3>2. s[1] # SetComm(calls[taken[q]].comm, TRUE)
      BY <1>1 DEF SetComm
    <3>3. ~(2 = 1) /\ ~(2 = 3)
      OBVIOUS
    <3>4. QED
      BY <3>1, <3>2, <3>3, Zenon
  <2>7. QED
    BY <1>8, <2>2, <2>3, <2>5, <2>6 DEF Waits
<1>9. ASSUME ~Later(q, "name")
      PROVE  /\ 2 \in 1 .. Len(s) /\ Opens(s[2]) /\ comm[q] = World
             /\ \A n : ~Delivers(q, n)
             /\ ~Has(q, "flush") /\ ~Has(q, "pop")
  <2>1. Opens(s[2])
    BY <1>4, <1>9 DEF Later
  <2>2. \A k \in 1 .. 2 - 1 : s[k].op \in {"sync", "gather"}
    BY <1>1
  <2>3. comm[q] = World
    BY <1>4, <2>1, <2>2 DEF Course
  <2>4. QED
    BY <1>4, <1>6, <2>1, <2>3 DEF Delivers, Deliver, Has, HasOp
<1>10. QED
  BY <1>7, <1>8, <1>9

\* At the meeting a rank has the numbers of all messages from before.
LEMMA AllSaid ==
  ASSUME StartTyped, calls # << >>, NEW q \in Ranks, Orderly(q), NEW e \in Nat, Course(q, e), Doing(q, "sync"),
         ~Later(q, "name"), Will(q, e + 3), NEW n \in Nat, n <= e + 3, Will(q, n)
  PROVE  Passed(q, n)
<1> DEFINE s == todo[q]
<1>1. s[1].op = "sync" /\ Len(s) \in Nat
  BY DoingStep, LenProperties DEF StartTyped
<1>2. /\ 2 \in 1 .. Len(s) /\ Opens(s[2]) /\ \A k : ~Delivers(q, k)
      /\ ~Has(q, "flush") /\ ~Has(q, "pop")
  BY SyncFacts
<1>3. \A i, k \in 1 .. Len(s) : i < k => Apart(s[i], s[k], e)
  BY DEF Course, Fitting
<1>4. \A k \in Nat : k <= e + 3 /\ Will(q, k) => k \in told[q]
  <2> SUFFICES ASSUME NEW k \in Nat, k <= e + 3, NEW i \in 1 .. Len(s), s[i].op = "say", s[i].msg = k
               PROVE  FALSE
    BY DEF Will
  <2>1. i # 1 /\ i # 2
    BY <1>1, <1>2 DEF Opens
  <2>2. Apart(s[2], s[i], e)
    BY <1>2, <1>3, <2>1
  <2>3. e + 3 < k
    BY <1>2, <2>2 DEF Apart, Tells
  <2>4. QED
    BY <2>3
<1>5. e + 3 \in told[q] /\ n \in told[q]
  BY <1>4
<1>6. saved[q] = << >>
  BY <1>2, <1>5 DEF Course
<1>7. Held(q) = << >> /\ Len(<< >>) = 0
  BY <1>2, <1>6, HeldIs
<1>8. \A i \in 1 .. 0 : FALSE
  OBVIOUS
<1>9. ~Keeps(q, n)
  BY <1>7, <1>8 DEF Keeps, Among
<1>10. QED
  BY <1>2, <1>5, <1>9 DEF Passed, Waits

\* The ranks go the same way.
Abreast(e) ==
  /\ e + 3 \in 1 .. Len(calls) /\ calls[e + 2].comm = World /\ calls[e + 3].comm = World
  /\ \A p, q \in Ranks : (Before(p) => Before(q)) /\ (Warned(p, e) => Warned(q, e))
  /\ \A n \in 1 .. Len(calls) : ~calls[n].black =>
       \A p, q \in calls[n].comm : Passed(p, n) => Passed(q, n)

\* What one rank has logged the others have logged, or are going to.
LEMMA WillToo ==
  ASSUME StartTyped, NEW p \in Ranks, NEW q \in Ranks, Telling(p), NEW e \in Nat, Course(p, e), Course(q, e),
         Abreast(e), NEW m \in told[p], q \in calls[m].comm
  PROVE  Will(q, m)
<1>1. m \in Nat /\ m \in 1 .. Len(calls)
  BY DEF StartTyped, Telling
<1>2. Will(q, m)
  <2>1. CASE m # e + 2
    BY <1>1, <2>1 DEF Course
  <2>2. CASE m = e + 2
    <3>1. ~Has(p, "castDir")
      <4>1. ASSUME NEW i \in 1 .. Len(todo[p]), todo[p][i].op = "castDir"
            PROVE  FALSE
        <5>1. IF i < Len(todo[p]) THEN Fit(todo[p][i], todo[p][i + 1], e) ELSE Ends(todo[p][i])
          BY DEF Course, Fitting
        <5>2. i < Len(todo[p]) /\ todo[p][i + 1] = Say(e + 2)
          BY <4>1, <5>1 DEF Fit, Ends
        <5>3. Len(todo[p]) \in Nat
          BY LenProperties DEF StartTyped
        <5>4. i + 1 \in 1 .. Len(todo[p]) /\ Tells(todo[p][i + 1], m)
          BY <2>2, <5>2, <5>3 DEF Tells, Say
        <5>5. \A k \in told[p] : k < m
          BY <1>1, <5>4 DEF Telling
        <5>6. m < m
          BY <5>5
        <5>7. QED
          BY <1>1, <5>6
      <4>2. QED
        BY <4>1 DEF Has, HasOp
    <3>2. Warned(p, e)
      BY <2>2, <3>1 DEF Warned, Will
    <3>3. QED
      BY <2>2, <3>2 DEF Abreast, Warned
  <2>3. QED
    BY <2>1, <2>2
<1>3. QED
  BY <1>2

\* A rank that has logged a later message has logged it.
LEMMA LoggedToo ==
  ASSUME StartTyped, NEW p \in Ranks, NEW q \in Ranks, Telling(p), Telling(q), NEW e \in Nat, Course(p, e), Course(q, e),
         Abreast(e), NEW m \in told[p], NEW n \in told[q], m < n, q \in calls[m].comm
  PROVE  m \in told[q]
<1>1. m \in Nat /\ n \in Nat
  BY DEF StartTyped
<1>2. Will(q, m)
  BY WillToo
<1>3. ASSUME NEW i \in 1 .. Len(todo[q]), todo[q][i].op = "say", todo[q][i].msg = m
      PROVE  FALSE
  <2>1. Tells(todo[q][i], m)
    BY <1>3 DEF Tells
  <2>2. \A k \in told[q] : k < m
    BY <1>1, <2>1 DEF Telling
  <2>3. n < m
    BY <2>2
  <2>4. QED
    BY <1>1, <2>3
<1>4. QED
  BY <1>2, <1>3 DEF Will

\* Ranks that agree on a number agree on that of the same message.
LEMMA SameSync ==
  ASSUME StartTyped, calls # << >>, NEW e \in Nat, Abreast(e), NEW p \in Ranks, NEW q \in Ranks,
         Orderly(p), Orderly(q), Course(p, e), Course(q, e), Doing(p, "sync"), Doing(q, "sync"),
         comm[p] = comm[q], p \in comm[p], q \in comm[p], Later(p, "name")
  PROVE  Later(q, "name") /\ taken[q] = taken[p]
<1> DEFINE m == taken[p]
           x == taken[q]
<1>1. /\ comm[p] = calls[m].comm /\ m \in 1 .. Len(calls) /\ m \in told[p] /\ ~calls[m].black
      /\ Waits(p, m) /\ \A n : Waits(p, n) /\ n # m => m < n
  BY SyncFacts
<1>2. Telling(p) /\ Telling(q) /\ m \in Nat /\ x \in Nat
  BY DEF Orderly, StartTyped
<1>3. \A n \in 1 .. Len(calls) : ~calls[n].black => \A r, s \in calls[n].comm : Passed(r, n) => Passed(s, n)
  BY DEF Abreast
<1> HIDE DEF m, x
<1>4. Later(q, "name")
  <2> SUFFICES ASSUME ~Later(q, "name")
               PROVE  FALSE
    OBVIOUS
  <2>1. 2 \in 1 .. Len(todo[q]) /\ Opens(todo[q][2])
    BY SyncFacts
  <2>2. Before(q)
    <3>1. 2 \in 2 .. Len(todo[q])
      BY <2>1
    <3>2. QED
      BY <2>1, <3>1 DEF Before
  <2>3. Before(p)
    BY <2>2 DEF Abreast
  <2>4. \E i \in 1 .. Len(todo[p]) : Opens(todo[p][i])
    BY <2>3 DEF Before
  <2>5. m <= e + 3
    BY <1>1, <2>4 DEF Course
  <2>6. Will(q, m)
    BY <1>1, <1>2, WillToo
  <2>7. Will(q, e + 3)
    <3>1. e + 3 # e + 2 /\ q \in World
      BY DEF World
    <3>2. e + 3 \in 1 .. Len(calls) /\ q \in calls[e + 3].comm
      BY <3>1 DEF Abreast
    <3>3. QED
      BY <3>1, <3>2 DEF Course
  <2>8. Passed(q, m)
    BY <1>2, <2>5, <2>6, <2>7, AllSaid
  <2>9. Passed(p, m)
    BY <1>1, <1>3, <2>8
  <2>10. QED
    BY <1>1, <2>9 DEF Passed
<1>5. /\ comm[q] = calls[x].comm /\ x \in 1 .. Len(calls) /\ x \in told[q] /\ ~calls[x].black
      /\ Waits(q, x) /\ \A n : Waits(q, n) /\ n # x => x < n
  BY <1>4, SyncFacts DEF x
<1>6. ~(x < m)
  <2> SUFFICES ASSUME x < m
               PROVE  FALSE
    OBVIOUS
  <2>1. x \in told[p]
    BY <1>1, <1>2, <1>5, LoggedToo
  <2>2. ~Waits(p, x)
    BY <1>1, <1>2
  <2>3. Passed(q, x)
    BY <1>1, <1>3, <1>5, <2>1, <2>2 DEF Passed
  <2>4. QED
    BY <1>5, <2>3 DEF Passed
<1>7. ~(m < x)
  <2> SUFFICES ASSUME m < x
               PROVE  FALSE
    OBVIOUS
  <2>1. m \in told[q]
    BY <1>1, <1>2, <1>5, LoggedToo
  <2>2. ~Waits(q, m)
    BY <1>2, <1>5
  <2>3. Passed(p, m)
    BY <1>1, <1>3, <1>5, <2>1, <2>2 DEF Passed
  <2>4. QED
    BY <1>1, <2>3 DEF Passed
<1>8. QED
  BY <1>2, <1>4, <1>6, <1>7 DEF m, x

-----------------------------------------------------------------------------
(* Steps of all ranks.                                                     *)

\* As long as nothing is refused ranks go on alone, but for the agreement on a number and
\* that on the directory.
LEMMA QuietSteps ==
  ASSUME StartTyped, calls # << >>, Books, [SNext]_svars, refused' = 0
  PROVE  \/ \E c \in AllComms : DoSync(c) /\ TogetherDo(c)
         \/ AllDoing("castDir") /\ TogetherDo(World)
         \/ \A q \in Ranks : Same(q) \/ (todo[q][1].op \notin {"sync", "castDir"} /\ \E first : Does(q, first))
<1>1. ASSUME NEW r \in Ranks, RankStep(r), Alone(r)
      PROVE  \A q \in Ranks : Same(q) \/ (todo[q][1].op \notin {"sync", "castDir"} /\ \E first : Does(q, first))
  <2>1. todo[r][1].op \notin {"sync", "castDir"}
    BY <1>1 DEF RankStep, EngineStep, LoggerStep, DoSetComm, DoName, DoWrite, DoSay, DoFlush, DoPop, DoDeliver,
                DoWriteLog, DoLine, DoSet, DoLook, DoMakeDir, DoAsk, DoPoll, DoTimeout, Doing
  <2>2. QED
    BY <1>1, <2>1 DEF Alone
<1>2. CASE \E r \in Ranks : RefuseLog(r) /\ Refuses(r)
  BY <1>2 DEF Refuses, StartTyped
<1>3. ASSUME NEW c \in AllComms, Collective(c), TogetherDo(c)
      PROVE  \/ DoSync(c) /\ TogetherDo(c)
             \/ \A q \in Ranks : Same(q) \/ (todo[q][1].op \notin {"sync", "castDir"} /\ \E first : Does(q, first))
  <2>1. CASE DoGather(c)
    <3>1. \A q \in c : todo[q][1].op = "gather"
      BY <2>1 DEF DoGather, Together, Doing
    <3>2. QED
      BY <1>3, <3>1 DEF TogetherDo
  <2>2. QED
    BY <1>3, <2>1 DEF Collective
<1>4. CASE (CastDir \/ Meet \/ CastAnswer) /\ TogetherDo(World)
  <2>1. CASE CastDir
    BY <1>4, <2>1 DEF CastDir
  <2>2. CASE Meet \/ CastAnswer
    <3>1. \A q \in Ranks : todo[q][1].op \notin {"sync", "castDir"}
      BY <2>2 DEF Meet, CastAnswer, AllDoing, Doing, World
    <3>2. QED
      BY <1>4, <3>1 DEF TogetherDo, World
  <2>3. QED
    BY <1>4, <2>1, <2>2
<1>5. CASE ReaderAnswers
  <2>1. UNCHANGED <<todo, taken, comm, id, saved, told, printed, locked, ready>>
    BY <1>5 DEF ReaderAnswers, logger, vars, engine, files
  <2>2. QED
    BY <2>1 DEF Same
<1>6. CASE UNCHANGED svars
  BY <1>6 DEF svars, vars, app, engine, logger, files, Same
<1>7. Steps
  BY StepEffects
<1>8. QED
  BY <1>1, <1>2, <1>3, <1>4, <1>5, <1>6, <1>7 DEF Steps

\* What holds of a rank still holds when nothing happens to it.
LEMMA SameKeeps ==
  ASSUME StartTyped, calls # << >>, calls' = calls, mode' = mode, NEW q \in Ranks, Same(q)
  PROVE  /\ \A n : (Passed(q, n)' <=> Passed(q, n)) /\ (Waits(q, n)' <=> Waits(q, n))
         /\ Before(q)' <=> Before(q)
         /\ \A e : (Warned(q, e)' <=> Warned(q, e)) /\ (Course(q, e) => Course(q, e)')
         /\ Prepared(q) => Prepared(q)'
         /\ Queued(q) => Queued(q)'
         /\ Served(q) => Served(q)'
<1>1. /\ todo'[q] = todo[q] /\ taken'[q] = taken[q] /\ comm'[q] = comm[q]
      /\ saved'[q] = saved[q] /\ told'[q] = told[q] /\ printed'[q] = printed[q]
      /\ locked'[q] = locked[q] /\ ready'[q] = ready[q]
  BY DEF Same
<1>2. Held(q)' = Held(q)
  BY <1>1 DEF Held, Past
<1>3. \A n : /\ Keeps(q, n)' <=> Keeps(q, n)
             /\ Delivers(q, n)' <=> Delivers(q, n)
             /\ Will(q, n)' <=> Will(q, n)
  BY <1>1, <1>2 DEF Keeps, Delivers, Will
<1>4. \A op : (Later(q, op)' <=> Later(q, op)) /\ (Has(q, op)' <=> Has(q, op))
  BY <1>1 DEF Later, Has
<1>5. \A n : (Passed(q, n)' <=> Passed(q, n)) /\ (Waits(q, n)' <=> Waits(q, n))
  BY <1>1, <1>3, <1>4 DEF Passed, Waits
<1>6. Before(q)' <=> Before(q)
  BY <1>1 DEF Before
<1>7. \A e : Warned(q, e)' <=> Warned(q, e)
  BY <1>3, <1>4 DEF Warned
<1>8. ASSUME NEW e, Course(q, e)
      PROVE  Course(q, e)'
  <2>1. Fitting(q, e)'
    BY <1>1, <1>8 DEF Course, Fitting
  <2>2. QED
    BY <1>1, <1>3, <1>4, <1>8, <2>1 DEF Course
<1>9. Prepared(q) => Prepared(q)'
  BY <1>1 DEF Prepared
<1>10. Queued(q) => Queued(q)'
  <2>1. Working(q)' <=> Working(q)
    BY <1>4 DEF Working
  <2>2. \A i : Ahead(q, i)' <=> Ahead(q, i)
    BY <1>1 DEF Ahead
  <2>3. QED
    BY <1>1, <1>2, <1>3, <2>1, <2>2 DEF Queued
<1>11. Served(q) => Served(q)'
  BY <1>1, <1>4, <1>5 DEF Served
<1>12. QED
  BY <1>5, <1>6, <1>7, <1>8, <1>9, <1>10, <1>11

-----------------------------------------------------------------------------
(* The ranks go on together.                                               *)

\* The ranks are on their way, and nothing is refused.
Going(e) ==
  /\ StartTyped /\ calls # << >> /\ mode = "engine" /\ Books /\ e \in Nat /\ Abreast(e)
  /\ \A q \in Ranks : Orderly(q) /\ Course(q, e)

\* The members of c agree on the number of message n.
AgreedOn(c, n) ==
  /\ n \in 1 .. Len(calls) /\ calls[n].comm = c /\ ~calls[n].black
  /\ \A q \in c : /\ Later(q, "name") /\ taken[q] = n /\ n \in told[q] /\ Waits(q, n)
                  /\ \A m : Waits(q, m) /\ m # n => n < m

\* All ranks meet before the options.
Gathered(c) == c = World /\ \A q \in c : ~Later(q, "name") /\ Opens(todo[q][2])

\* When ranks agree on a number they do so for the same message, or all ranks meet.
LEMMA SyncCases ==
  ASSUME NEW e, Going(e), NEW c \in AllComms, DoSync(c)
  PROVE  Gathered(c) \/ \E n : AgreedOn(c, n)
<1> DEFINE p == Root(c)
<1>1. c \subseteq Ranks /\ p \in c
  BY RootFacts, CommFacts
<1>2. StartTyped /\ calls # << >> /\ e \in Nat /\ Abreast(e)
  BY DEF Going
<1>3. \A q \in c : q \in Ranks /\ Doing(q, "sync") /\ comm[q] = c /\ Orderly(q) /\ Course(q, e)
  BY <1>1 DEF DoSync, Together, Going
<1> HIDE DEF p
<1>4. \A q, r \in c : Later(q, "name") => Later(r, "name") /\ taken[r] = taken[q]
  BY <1>2, <1>3, SameSync
<1>5. CASE Later(p, "name")
  <2>1. AgreedOn(c, taken[p])
    <3>1. \A q \in c : /\ Later(q, "name") /\ taken[q] = taken[p]
                       /\ comm[q] = calls[taken[q]].comm /\ taken[q] \in 1 .. Len(calls)
                       /\ taken[q] \in told[q] /\ ~calls[taken[q]].black
                       /\ Waits(q, taken[q]) /\ \A n : Waits(q, n) /\ n # taken[q] => taken[q] < n
      <4> SUFFICES ASSUME NEW q \in c
                   PROVE  /\ Later(q, "name") /\ taken[q] = taken[p]
                          /\ comm[q] = calls[taken[q]].comm /\ taken[q] \in 1 .. Len(calls)
                          /\ taken[q] \in told[q] /\ ~calls[taken[q]].black
                          /\ Waits(q, taken[q]) /\ \A n : Waits(q, n) /\ n # taken[q] => taken[q] < n
        OBVIOUS
      <4>1. Later(q, "name") /\ taken[q] = taken[p]
        BY <1>1, <1>4, <1>5
      <4>2. q \in Ranks /\ Doing(q, "sync") /\ Orderly(q) /\ Course(q, e)
        BY <1>3
      <4>3. /\ comm[q] = calls[taken[q]].comm /\ taken[q] \in 1 .. Len(calls)
            /\ taken[q] \in told[q] /\ ~calls[taken[q]].black
            /\ Waits(q, taken[q]) /\ \A n : Waits(q, n) /\ n # taken[q] => taken[q] < n
        BY <1>2, <4>1, <4>2, SyncFacts
      <4>4. QED
        BY <4>1, <4>3
    <3>2. QED
      BY <1>1, <1>3, <3>1 DEF AgreedOn
  <2>2. QED
    BY <2>1
<1>6. CASE ~Later(p, "name")
  <2>1. \A q \in c : ~Later(q, "name")
    BY <1>1, <1>4, <1>6
  <2>2. \A q \in c : Opens(todo[q][2]) /\ comm[q] = World
    BY <1>2, <1>3, <2>1, SyncFacts
  <2>3. c = World
    BY <1>1, <1>3, <2>2
  <2>4. QED
    BY <2>1, <2>2, <2>3 DEF Gathered
<1>7. QED
  BY <1>5, <1>6

\* Ranks stay together.
LEMMA AbreastKept ==
  ASSUME NEW e, Going(e), [SNext]_svars, refused' = 0
  PROVE  Abreast(e)'
<1>1. /\ StartTyped /\ calls # << >> /\ mode = "engine" /\ Books /\ e \in Nat /\ Abreast(e)
      /\ \A q \in Ranks : Orderly(q) /\ Course(q, e) /\ Telling(q) /\ Handling(q)
  BY DEF Going, Orderly
<1>2. StartTyped' /\ calls' = calls /\ mode' = mode
  BY <1>1, StepEffects
<1>3. /\ e + 3 \in 1 .. Len(calls) /\ calls[e + 2].comm = World /\ calls[e + 3].comm = World
      /\ \A p, q \in Ranks : (Before(p) => Before(q)) /\ (Warned(p, e) => Warned(q, e))
      /\ \A n \in 1 .. Len(calls) : ~calls[n].black => \A p, q \in calls[n].comm : Passed(p, n) => Passed(q, n)
  BY <1>1 DEF Abreast
<1>4. \A n \in 1 .. Len(calls) : calls[n].comm \in AllComms /\ calls[n].comm \subseteq Ranks
  BY <1>1, CommOfMessage, CommFacts

\* what the steps of a rank do to it
<1>5. ASSUME NEW q \in Ranks, NEW first, Does(q, first)
      PROVE  /\ \A n : Passed(q, n) => Passed(q, n)'
             /\ \A n : Passed(q, n)' /\ ~Passed(q, n) /\ ~calls[n].black =>
                  todo[q][1].op = "sync" /\ Later(q, "name") /\ n = taken[q]
             /\ Before(q)' => Before(q)
             /\ Before(q) /\ ~Before(q)' => todo[q][1].op = "sync" /\ Opens(todo[q][2])
             /\ Warned(q, e) => Warned(q, e)'
             /\ Warned(q, e)' /\ ~Warned(q, e) => todo[q][1].op = "castDir"
  <2>1. Orderly(q) /\ Course(q, e) /\ Telling(q) /\ Handling(q)
    BY <1>1
  <2>2. /\ \A n : Passed(q, n) => Passed(q, n)'
        /\ \A n : Passed(q, n)' /\ ~Passed(q, n) /\ ~calls[n].black =>
             todo[q][1].op = "sync" /\ Later(q, "name") /\ n = taken[q]
    BY <1>1, <1>2, <1>5, <2>1, PassedSteps
  <2>3. /\ Before(q)' => Before(q)
        /\ Before(q) /\ ~Before(q)' => todo[q][1].op = "sync" /\ Opens(todo[q][2])
    BY <1>1, <1>5, <2>1, BeforeSteps
  <2>4. /\ Warned(q, e) => Warned(q, e)'
        /\ Warned(q, e)' /\ ~Warned(q, e) => todo[q][1].op = "castDir"
    BY <1>1, <1>5, <2>1, WarnedSteps
  <2>5. QED
    BY <2>2, <2>3, <2>4
<1>6. ASSUME NEW q \in Ranks, Same(q)
      PROVE  /\ \A n : Passed(q, n)' <=> Passed(q, n)
             /\ Before(q)' <=> Before(q)
             /\ Warned(q, e)' <=> Warned(q, e)
  BY <1>1, <1>2, <1>6, SameKeeps

\* the cases of the step
<1>7. /\ \A p, q \in Ranks : (Before(p)' => Before(q)') /\ (Warned(p, e)' => Warned(q, e)')
      /\ \A n \in 1 .. Len(calls) : ~calls[n].black => \A p, q \in calls[n].comm : Passed(p, n)' => Passed(q, n)'
  <2>1. ASSUME NEW c \in AllComms, DoSync(c), TogetherDo(c)
        PROVE  /\ \A p, q \in Ranks : (Before(p)' => Before(q)') /\ (Warned(p, e)' => Warned(q, e)')
               /\ \A n \in 1 .. Len(calls) : ~calls[n].black => \A p, q \in calls[n].comm : Passed(p, n)' => Passed(q, n)'
    <3>1. c \subseteq Ranks /\ \A q \in c : Does(q, << >>) /\ todo[q][1].op = "sync"
      BY <2>1, CommFacts DEF DoSync, Together, Doing, TogetherDo
    <3>2. \A q \in Ranks \ c : Same(q)
      BY <2>1 DEF TogetherDo
    <3>3. \A q \in Ranks : Warned(q, e)' <=> Warned(q, e)
      BY <1>5, <1>6, <3>1, <3>2
    <3>4. CASE Gathered(c)
      <4>1. c = World /\ World = Ranks /\ \A q \in c : ~Later(q, "name") /\ Opens(todo[q][2])
        BY <3>4 DEF Gathered, World
      <4>2. ASSUME NEW q \in Ranks
            PROVE  ~Before(q)'
        <5>1. Does(q, << >>) /\ todo[q][1].op = "sync" /\ Opens(todo[q][2]) /\ Handling(q) /\ Course(q, e)
          BY <1>1, <3>1, <4>1
        <5>2. QED
          BY <1>1, <5>1, BeforeSteps
      <4>3. \A n \in 1 .. Len(calls) : ~calls[n].black => \A q \in Ranks : Passed(q, n)' <=> Passed(q, n)
        BY <1>5, <3>1, <4>1
      <4>4. QED
        BY <1>3, <1>4, <3>3, <4>2, <4>3
    <3>5. ASSUME NEW n, AgreedOn(c, n)
          PROVE  /\ \A p, q \in Ranks : (Before(p)' => Before(q)') /\ (Warned(p, e)' => Warned(q, e)')
                 /\ \A m \in 1 .. Len(calls) : ~calls[m].black => \A p, q \in calls[m].comm : Passed(p, m)' => Passed(q, m)'
      <4>1. /\ n \in 1 .. Len(calls) /\ calls[n].comm = c /\ ~calls[n].black
            /\ \A q \in c : Later(q, "name") /\ taken[q] = n
        BY <3>5 DEF AgreedOn
      <4>2. ASSUME NEW q \in c
            PROVE  Passed(q, n)' /\ ~Opens(todo[q][2])
        <5>1. q \in Ranks /\ Does(q, << >>) /\ todo[q][1].op = "sync" /\ Later(q, "name") /\ taken[q] = n
              /\ Orderly(q) /\ Course(q, e)
          BY <1>1, <3>1, <4>1
        <5>2. taken'[q] = taken[q]
          BY <5>1 DEF Does
        <5>3. Passed(q, taken[q])'
          BY <1>1, <1>2, <5>1, PassedSteps
        <5>4. Doing(q, "sync")
          BY <2>1 DEF DoSync, Together
        <5>5. ~Opens(todo[q][2])
          BY <1>1, <5>1, <5>4, SyncFacts
        <5>6. Passed(q, n)'
          BY <5>1, <5>2, <5>3
        <5>7. QED
          BY <5>5, <5>6
      <4>3. \A q \in Ranks : Before(q)' <=> Before(q)
        BY <1>5, <1>6, <3>1, <3>2, <4>2
      <4>4. ASSUME NEW m \in 1 .. Len(calls), m # n, ~calls[m].black, NEW q \in Ranks
            PROVE  Passed(q, m)' <=> Passed(q, m)
        BY <1>5, <1>6, <3>1, <3>2, <4>1, <4>4
      <4>5. QED
        BY <1>3, <1>4, <3>3, <4>1, <4>2, <4>3, <4>4
    <3>6. QED
      BY <2>1, <3>4, <3>5, SyncCases
  <2>2. CASE AllDoing("castDir") /\ TogetherDo(World)
    <3>1. World = Ranks /\ \A q \in Ranks : Does(q, << >>) /\ todo[q][1].op = "castDir"
      BY <2>2 DEF AllDoing, Doing, World, TogetherDo
    <3>2. ASSUME NEW q \in Ranks
          PROVE  Warned(q, e)'
      <4>1. Does(q, << >>) /\ todo[q][1].op = "castDir" /\ Telling(q) /\ Handling(q) /\ Course(q, e)
        BY <1>1, <3>1
      <4>2. QED
        BY <1>1, <4>1, WarnedSteps
    <3>3. \A q \in Ranks : Before(q)' <=> Before(q)
      BY <1>5, <3>1
    <3>4. \A n \in 1 .. Len(calls) : ~calls[n].black => \A q \in Ranks : Passed(q, n)' <=> Passed(q, n)
      BY <1>5, <3>1
    <3>5. QED
      BY <1>3, <1>4, <3>2, <3>3, <3>4
  <2>3. CASE \A q \in Ranks : Same(q) \/ (todo[q][1].op \notin {"sync", "castDir"} /\ \E first : Does(q, first))
    <3>1. \A q \in Ranks : (Before(q)' <=> Before(q)) /\ (Warned(q, e)' <=> Warned(q, e))
      BY <1>5, <1>6, <2>3
    <3>2. \A n \in 1 .. Len(calls) : ~calls[n].black => \A q \in Ranks : Passed(q, n)' <=> Passed(q, n)
      BY <1>5, <1>6, <2>3
    <3>3. QED
      BY <1>3, <1>4, <3>1, <3>2
  <2>4. QED
    BY <1>1, <2>1, <2>2, <2>3, QuietSteps
<1>8. Abreast(e)'
  BY <1>2, <1>3, <1>7 DEF Abreast
<1>9. QED
  BY <1>8

-----------------------------------------------------------------------------
(* The numbers.                                                            *)

\* Message n is written with number u, or the root of its communicator is to do so.
Stamp(n, u) ==
  LET c == calls[n].comm
      r == Root(c)
  IN  \/ \E i \in Logs(c) : stream[c][i].call = n /\ stream[c][i].jid = u
      \/ taken[r] = n /\ todo[r] # << >> /\ todo[r][1].op = "name" /\ u = id[r] + 1
      \/ taken[r] = n /\ todo[r] # << >> /\ todo[r][1].op = "writeLog" /\ u = id[r]

\* The ranks of a message with a number have passed it, and of two messages with a rank
\* in common the later one has no smaller number.
Stamps ==
  \A n \in 1 .. Len(calls), u \in Int : Stamp(n, u) =>
    /\ \A q \in calls[n].comm : Passed(q, n) /\ u <= id[q] + 1
    /\ \A p \in 1 .. Len(calls), v \in Int : Stamp(p, v) /\ n < p /\ calls[n].comm \cap calls[p].comm # {} => u <= v

\* A number is agreed on, then taken, then written.
LEMMA HeadSteps ==
  ASSUME StartTyped, NEW q \in Ranks, Handling(q), Prepared(q), NEW e \in Nat, Course(q, e), NEW first, Does(q, first),
         todo'[q] # << >>
  PROVE  /\ todo'[q][1].op = "name" => todo[q][1].op = "sync" /\ Later(q, "name")
         /\ todo'[q][1].op = "writeLog" => todo[q][1].op = "name"
<1> DEFINE s == todo[q]
           t == todo'[q]
           o == todo[q][1]
<1>1. /\ s \in Seq(AnyStep) /\ s # << >> /\ Len(s) \in Nat /\ 1 \in 1 .. Len(s)
      /\ first \in Seq(AnyStep) /\ Len(first) \in 0 .. 5 /\ (first # << >> => Brings(o, first))
      /\ t \in Seq(AnyStep) /\ Len(t) \in Nat /\ Replaces(s, first, t)
  BY DoesFacts DEF Handling
<1>2. \A i \in 1 .. Len(s) : IF i < Len(s) THEN Fit(s[i], s[i + 1], e) ELSE Ends(s[i])
  BY DEF Course, Fitting
<1>3. 1 \in 1 .. Len(t)
  BY <1>1, EmptySeq
<1>4. CASE first # << >>
  <2>1. Brings(o, first) /\ 1 \in 1 .. Len(first)
    BY <1>1, <1>4, EmptySeq
  <2>2. first[1].op \notin {"name", "writeLog"}
    BY <2>1 DEF Brings, Deliver
  <2>3. t[1] = first[1]
    BY <1>1, <2>1 DEF Replaces
  <2>4. QED
    BY <2>2, <2>3
<1>5. CASE first = << >>
  <2>1. Len(first) = 0
    BY <1>5
  <2>2. 1 < Len(s) /\ t[1] = s[2]
    BY <1>1, <1>3, <2>1 DEF Replaces
  <2>3. 2 \in 1 .. Len(s) /\ 2 \in 2 .. Len(s) /\ Fit(s[1], s[1 + 1], e) /\ 1 + 1 = 2
    BY <1>1, <1>2, <2>2
  <2>4. s[2].op = "writeLog" => o.op = "name"
    BY <2>3 DEF Fit
  <2>5. ASSUME s[2].op = "name"
        PROVE  o.op = "sync" /\ Later(q, "name")
    <3>1. \/ 2 = 1
          \/ 2 = 2 /\ s[1] = SetComm(calls[taken[q]].comm, TRUE)
          \/ 2 = 2 /\ s[1] = Sync /\ comm[q] = calls[taken[q]].comm
          \/ 2 = 3 /\ s[1] = Gather /\ s[2] = Sync /\ comm[q] = calls[taken[q]].comm
      BY <2>3, <2>5 DEF Prepared
    <3>2. s[1] = SetComm(calls[taken[q]].comm, TRUE) \/ s[1] = Sync
      <4>1. ~(2 = 1) /\ ~(2 = 3)
        OBVIOUS
      <4>2. QED
        BY <3>1, <4>1, Zenon
    <3>3. s[1] # SetComm(calls[taken[q]].comm, TRUE)
      <4>1. o.op = "setComm" => ~o.sync
        BY <1>5 DEF Does
      <4>2. QED
        BY <4>1 DEF SetComm
    <3>4. o.op = "sync"
      <4>1. s[1] = Sync
        BY <3>2, <3>3
      <4>2. QED
        BY <4>1 DEF Sync
    <3>5. Later(q, "name")
      BY <2>3, <2>5 DEF Later
    <3>6. QED
      BY <3>4, <3>5
  <2>6. QED
    BY <2>2, <2>4, <2>5
<1>6. QED
  BY <1>4, <1>5

\* Where the engine is when a rank numbers or writes a message.
LEMMA OnMessage ==
  ASSUME StartTyped, NEW q \in Ranks, Telling(q), Handling(q), todo[q] # << >>, todo[q][1].op \in {"name", "writeLog"}
  PROVE  /\ comm[q] = calls[taken[q]].comm /\ taken[q] \in told[q] /\ taken[q] \in 1 .. Len(calls)
         /\ ~calls[taken[q]].black
<1> DEFINE s == todo[q]
<1>1. 1 \in 1 .. Len(s)
  BY LenProperties, EmptySeq DEF StartTyped
<1>2. OnlyOn(s, comm[q], calls[taken[q]].comm, {"name", "writeLog"})
  BY DEF Handling
<1>3. comm[q] = calls[taken[q]].comm
  BY <1>1, <1>2 DEF OnlyOn
<1>4. taken[q] \in told[q] /\ ~calls[taken[q]].black
  BY <1>1 DEF Handling
<1>5. taken[q] \in 1 .. Len(calls)
  BY <1>4 DEF Telling
<1>6. QED
  BY <1>3, <1>4, <1>5

\* A message gets its number when its ranks agree on one.
LEMMA StampSteps ==
  ASSUME NEW e, Going(e), [SNext]_svars, refused' = 0, NEW n \in 1 .. Len(calls), NEW u, Stamp(n, u)'
  PROVE  Stamp(n, u) \/ \E c \in AllComms : DoSync(c) /\ TogetherDo(c) /\ AgreedOn(c, n) /\ u = Agreed(c) + 1
<1>1. /\ StartTyped /\ calls # << >> /\ mode = "engine" /\ Books /\ e \in Nat /\ Abreast(e)
      /\ \A q \in Ranks : Orderly(q) /\ Course(q, e) /\ Telling(q) /\ Handling(q) /\ Prepared(q)
  BY DEF Going, Orderly
<1>2. StartTyped' /\ calls' = calls /\ mode' = mode
  BY <1>1, StepEffects
<1>a. calls[n].comm \in AllComms
  BY <1>1, CommOfMessage
<1>b. PICK c \in AllComms : c = calls[n].comm
  BY <1>a
<1> DEFINE r == Root(c)
<1>3. c \in AllComms /\ r \in Ranks /\ r \in c /\ c = calls[n].comm /\ c = calls'[n].comm
  BY <1>2, <1>b, RootFacts
<1>4. \/ \E i \in Logs(c)' : stream'[c][i].call = n /\ stream'[c][i].jid = u
      \/ taken'[r] = n /\ todo'[r] # << >> /\ todo'[r][1].op = "name" /\ u = id'[r] + 1
      \/ taken'[r] = n /\ todo'[r] # << >> /\ todo'[r][1].op = "writeLog" /\ u = id'[r]
  BY <1>3 DEF Stamp
<1>5. CASE \E i \in Logs(c)' : stream'[c][i].call = n /\ stream'[c][i].jid = u
  <2>1. CASE LogKept(c)
    BY <1>3, <1>5, <2>1 DEF LogKept, Stamp
  <2>2. ASSUME NEW p, Adds(p, c)
        PROVE  Stamp(n, u)
    <3>1. p = r /\ todo[r][1].op = "writeLog" /\ c = calls[taken[r]].comm
      BY <2>2 DEF Adds
    <3>2. PICK first : Does(r, first)
      BY <2>2, <3>1 DEF Adds
    <3>3. todo[r] # << >>
      BY <3>2 DEF Does
    <3>4. comm[r] = c
      BY <1>1, <1>3, <3>1, <3>3, OnMessage
    <3> DEFINE x == [jid |-> id[r], node |-> "log", call |-> taken[r]]
    <3>5. stream'[c] = Append(stream[c], x)
      BY <1>1, <1>3, <3>1, <3>2, <3>4, ZenonT(40) DEF Does, StartTyped
    <3>6. x \in Entry /\ x.node = "log" /\ x.call = taken[r] /\ x.jid = id[r]
      BY <1>1, <1>3 DEF Entry, StartTyped
    <3> HIDE DEF x
    <3>a. StartTyped /\ c \in AllComms /\ x \in Entry
      BY <1>1, <1>3, <3>6
    <3>b. /\ Logs(c)' = Logs(c) \cup IF x.node = "log" THEN {Len(stream[c]) + 1} ELSE {}
          /\ stream'[c][Len(stream[c]) + 1] = x
          /\ \A i \in Logs(c) : stream'[c][i] = stream[c][i]
      BY <3>a, <3>5, LongerStream
    <3>7. /\ Logs(c)' = Logs(c) \cup {Len(stream[c]) + 1}
          /\ stream'[c][Len(stream[c]) + 1] = x
          /\ \A i \in Logs(c) : stream'[c][i] = stream[c][i]
      BY <3>6, <3>b
    <3>8. PICK i \in Logs(c)' : stream'[c][i].call = n /\ stream'[c][i].jid = u
      BY <1>5
    <3>9. CASE i \in Logs(c)
      BY <1>3, <3>7, <3>8, <3>9 DEF Stamp
    <3>10. CASE i = Len(stream[c]) + 1
      <4>1. n = taken[r] /\ u = id[r]
        BY <3>6, <3>7, <3>8, <3>10
      <4>2. QED
        BY <1>3, <3>1, <3>3, <4>1 DEF Stamp
    <3>11. QED
      BY <3>7, <3>8, <3>9, <3>10
  <2>3. QED
    BY <1>1, <1>3, <2>1, <2>2, NewMessages
<1>6. CASE /\ taken'[r] = n /\ todo'[r] # << >>
           /\ (todo'[r][1].op = "name" /\ u = id'[r] + 1) \/ (todo'[r][1].op = "writeLog" /\ u = id'[r])
  <2>1. CASE Same(r)
    BY <1>3, <1>6, <2>1 DEF Same, Stamp
  <2>2. ASSUME NEW first, Does(r, first)
        PROVE  /\ todo'[r][1].op = "name" => todo[r][1].op = "sync" /\ Later(r, "name") /\ taken[r] = n
               /\ todo'[r][1].op = "writeLog" => Stamp(n, u)
    <3>1. /\ todo'[r][1].op = "name" => todo[r][1].op = "sync" /\ Later(r, "name")
          /\ todo'[r][1].op = "writeLog" => todo[r][1].op = "name"
      BY <1>1, <1>3, <1>6, <2>2, HeadSteps
    <3>2. todo[r][1].op \in {"sync", "name"} => taken[r] = n
      BY <1>6, <2>2 DEF Does
    <3>3. todo[r] # << >>
      BY <2>2 DEF Does
    <3>4. ASSUME todo[r][1].op = "name"
          PROVE  id'[r] = id[r] + 1
      <4>1. comm[r] = c
        BY <1>1, <1>3, <3>2, <3>3, <3>4, OnMessage
      <4>2. QED
        BY <2>2, <3>4, <4>1 DEF Does
    <3>5. QED
      BY <1>3, <1>6, <3>1, <3>2, <3>3, <3>4 DEF Stamp
  <2>3. ASSUME NEW d \in AllComms, DoSync(d), TogetherDo(d)
        PROVE  Stamp(n, u) \/ \E k \in AllComms : DoSync(k) /\ TogetherDo(k) /\ AgreedOn(k, n) /\ u = Agreed(k) + 1
    <3>1. CASE r \in d
      <4>1. Does(r, << >>) /\ todo[r][1].op = "sync" /\ id'[r] = Agreed(d)
        BY <1>3, <2>3, <3>1 DEF DoSync, Together, Doing, TogetherDo
      <4>2. CASE todo'[r][1].op = "writeLog"
        BY <2>2, <4>1, <4>2
      <4>3. CASE todo'[r][1].op = "name"
        <5>1. Later(r, "name") /\ taken[r] = n /\ u = Agreed(d) + 1
          BY <1>6, <2>2, <4>1, <4>3
        <5>2. ~Gathered(d)
          BY <3>1, <5>1 DEF Gathered
        <5>3. PICK k : AgreedOn(d, k)
          BY <2>3, <5>2, SyncCases
        <5>4. k = n
          BY <3>1, <5>1, <5>3 DEF AgreedOn
        <5>5. QED
          BY <2>3, <5>1, <5>3, <5>4
      <4>4. QED
        BY <1>6, <4>2, <4>3
    <3>2. CASE r \notin d
      BY <1>3, <2>1, <2>3, <3>2 DEF TogetherDo
    <3>3. QED
      BY <3>1, <3>2
  <2>4. CASE AllDoing("castDir") /\ TogetherDo(World)
    <3>1. Does(r, << >>) /\ todo[r][1].op = "castDir"
      BY <1>3, <2>4 DEF AllDoing, Doing, World, TogetherDo
    <3>2. QED
      BY <1>6, <2>2, <3>1
  <2>5. CASE \A q \in Ranks : Same(q) \/ (todo[q][1].op \notin {"sync", "castDir"} /\ \E first : Does(q, first))
    BY <1>3, <1>6, <2>1, <2>2, <2>5
  <2>6. QED
    BY <1>1, <2>3, <2>4, <2>5, QuietSteps
<1>7. QED
  BY <1>4, <1>5, <1>6

\* Numbers grow.
LEMMA IdsGrow ==
  ASSUME StartTyped, StartTyped', calls # << >>, Books, [SNext]_svars, refused' = 0
  PROVE  \A q \in Ranks : id[q] \in Nat /\ id'[q] \in Nat /\ id[q] <= id'[q]
<1>1. \A q \in Ranks : id[q] \in Nat /\ id'[q] \in Nat
  BY DEF StartTyped
<1>2. \A q \in Ranks : Same(q) => id'[q] = id[q]
  BY DEF Same
<1>3. \A q \in Ranks : \A first : Does(q, first) /\ todo[q][1].op # "sync" => id[q] <= id'[q]
  <2> SUFFICES ASSUME NEW q \in Ranks, NEW first, Does(q, first), todo[q][1].op # "sync"
               PROVE  id[q] <= id'[q]
    OBVIOUS
  <2>1. /\ todo[q][1].op \notin {"sync", "ask", "write"} => id'[q] = id[q] + 1 \/ id'[q] = id[q]
        /\ todo[q][1].op \in {"ask", "write"} => id'[q] >= id[q]
    BY DEF Does
  <2>2. QED
    BY <1>1, <2>1
<1>4. ASSUME NEW c \in AllComms, DoSync(c), TogetherDo(c)
      PROVE  \A q \in Ranks : id[q] <= id'[q]
  <2>1. \A q \in c : q \in Ranks /\ id'[q] = Agreed(c) /\ id[q] <= Agreed(c)
    BY <1>4, AgreedFacts, CommFacts DEF DoSync, StartTyped
  <2>2. \A q \in Ranks \ c : id'[q] = id[q]
    BY <1>2, <1>4 DEF TogetherDo
  <2>3. QED
    BY <1>1, <2>1, <2>2
<1>5. CASE AllDoing("castDir") /\ TogetherDo(World)
  <2>1. \A q \in Ranks : Does(q, << >>) /\ todo[q][1].op = "castDir"
    BY <1>5 DEF AllDoing, Doing, World, TogetherDo
  <2>2. QED
    BY <1>1, <1>3, <2>1
<1>6. CASE \A q \in Ranks : Same(q) \/ (todo[q][1].op \notin {"sync", "castDir"} /\ \E first : Does(q, first))
  BY <1>1, <1>2, <1>3, <1>6
<1>7. \/ \E c \in AllComms : DoSync(c) /\ TogetherDo(c)
      \/ AllDoing("castDir") /\ TogetherDo(World)
      \/ \A q \in Ranks : Same(q) \/ (todo[q][1].op \notin {"sync", "castDir"} /\ \E first : Does(q, first))
  BY QuietSteps
<1>8. \A q \in Ranks : id[q] <= id'[q]
  BY <1>4, <1>5, <1>6, <1>7, Zenon
<1>9. QED
  BY <1>1, <1>8

\* Every step keeps the numbers of the messages that have one.
LEMMA StampsKept ==
  ASSUME NEW e, Going(e), Stamps, [SNext]_svars, refused' = 0
  PROVE  Stamps'
<1>1. /\ StartTyped /\ calls # << >> /\ mode = "engine" /\ Books /\ e \in Nat /\ Abreast(e)
      /\ \A q \in Ranks : Orderly(q) /\ Course(q, e) /\ Telling(q) /\ Handling(q) /\ Served(q)
  BY DEF Going, Orderly
<1>2. StartTyped' /\ calls' = calls /\ mode' = mode
  BY <1>1, StepEffects
<1>3. \A n \in 1 .. Len(calls) : calls[n].comm \in AllComms /\ calls[n].comm \subseteq Ranks
  BY <1>1, CommOfMessage, CommFacts
<1>4. \A q \in Ranks : id[q] \in Nat /\ id'[q] \in Nat /\ id[q] <= id'[q]
  BY <1>1, <1>2, IdsGrow
<1>5. ASSUME NEW q \in Ranks, NEW n, Passed(q, n)
      PROVE  Passed(q, n)'
  <2>1. CASE Same(q)
    BY <1>1, <1>2, <1>5, <2>1, SameKeeps
  <2>2. ASSUME NEW first, Does(q, first)
        PROVE  Passed(q, n)'
    <3>1. Orderly(q)
      BY <1>1
    <3>2. QED
      BY <1>1, <1>2, <1>5, <2>2, <3>1, PassedSteps
  <2>3. refused = 0 /\ (Same(q) \/ \E first : Does(q, first))
    BY <1>1, QuietStep
  <2>4. QED
    BY <2>1, <2>2, <2>3
<1>6. \A n \in 1 .. Len(calls), u \in Int : Stamp(n, u) =>
        /\ \A q \in calls[n].comm : Passed(q, n) /\ u <= id[q] + 1
        /\ \A p \in 1 .. Len(calls), v \in Int : Stamp(p, v) /\ n < p /\ calls[n].comm \cap calls[p].comm # {} => u <= v
  BY DEF Stamps

\* a number that is new
<1>7. ASSUME NEW c \in AllComms, DoSync(c), TogetherDo(c), NEW n, AgreedOn(c, n)
      PROVE  /\ Agreed(c) \in Nat
             /\ \A q \in c : /\ q \in Ranks /\ comm[q] = c /\ id'[q] = Agreed(c) /\ id[q] <= Agreed(c)
                             /\ taken[q] = n /\ Waits(q, n) /\ Passed(q, n)'
  <2>1. Agreed(c) \in Nat /\ c \subseteq Ranks /\ \A q \in c : id'[q] = Agreed(c) /\ id[q] <= Agreed(c)
    BY <1>1, <1>7, AgreedFacts, CommFacts DEF DoSync, StartTyped
  <2>2. ASSUME NEW q \in c
        PROVE  q \in Ranks /\ comm[q] = c /\ taken[q] = n /\ Waits(q, n) /\ Passed(q, n)'
    <3>1. q \in Ranks /\ comm[q] = c /\ taken[q] = n /\ Waits(q, n) /\ Later(q, "name") /\ Does(q, << >>)
          /\ todo[q][1].op = "sync" /\ Orderly(q)
      BY <1>1, <1>7, <2>1 DEF AgreedOn, TogetherDo, DoSync, Together, Doing
    <3>2. Passed(q, taken[q])'
      BY <1>1, <1>2, <3>1, PassedSteps
    <3>3. taken'[q] = taken[q]
      BY <3>1 DEF Does
    <3>4. Passed(q, n)'
      BY <3>1, <3>2, <3>3
    <3>5. QED
      BY <3>1, <3>4
  <2>3. QED
    BY <2>1, <2>2
<1>8. \A n \in 1 .. Len(calls), u \in Int : Stamp(n, u)' =>
        Stamp(n, u) \/ \E c \in AllComms : DoSync(c) /\ TogetherDo(c) /\ AgreedOn(c, n) /\ u = Agreed(c) + 1
  BY StampSteps
<1>9. ASSUME NEW n \in 1 .. Len(calls), NEW u \in Int, Stamp(n, u)'
      PROVE  /\ \A q \in calls[n].comm : Passed(q, n)' /\ u <= id'[q] + 1
             /\ \A p \in 1 .. Len(calls), v \in Int :
                  Stamp(p, v)' /\ n < p /\ calls[n].comm \cap calls[p].comm # {} => u <= v
  <2>1. CASE Stamp(n, u)
    <3>1. \A q \in calls[n].comm : q \in Ranks /\ Passed(q, n) /\ u <= id[q] + 1
      BY <1>3, <1>6, <2>1
    <3>2. \A q \in calls[n].comm : Passed(q, n)' /\ u <= id'[q] + 1
      BY <1>4, <1>5, <3>1
    <3>3. ASSUME NEW p \in 1 .. Len(calls), NEW v \in Int, Stamp(p, v)', n < p, NEW q \in calls[n].comm \cap calls[p].comm
          PROVE  u <= v
      <4>1. CASE Stamp(p, v)
        BY <1>6, <2>1, <3>3, <4>1
      <4>2. ASSUME NEW c \in AllComms, DoSync(c), TogetherDo(c), AgreedOn(c, p), v = Agreed(c) + 1
            PROVE  u <= v
        <5>1. calls[p].comm = c
          BY <4>2 DEF AgreedOn
        <5>2. id[q] <= Agreed(c) /\ Agreed(c) \in Nat
          BY <1>7, <3>3, <4>2, <5>1
        <5>3. u <= id[q] + 1 /\ id[q] \in Nat
          BY <1>4, <3>1, <3>3
        <5>4. QED
          BY <4>2, <5>2, <5>3
      <4>3. QED
        BY <1>8, <3>3, <4>1, <4>2
    <3>4. QED
      BY <3>2, <3>3
  <2>2. ASSUME NEW c \in AllComms, DoSync(c), TogetherDo(c), AgreedOn(c, n), u = Agreed(c) + 1
        PROVE  /\ \A q \in calls[n].comm : Passed(q, n)' /\ u <= id'[q] + 1
               /\ \A p \in 1 .. Len(calls), v \in Int :
                    Stamp(p, v)' /\ n < p /\ calls[n].comm \cap calls[p].comm # {} => u <= v
    <3>1. calls[n].comm = c
      BY <2>2 DEF AgreedOn
    <3>2. /\ Agreed(c) \in Nat
          /\ \A q \in c : /\ q \in Ranks /\ comm[q] = c /\ id'[q] = Agreed(c) /\ taken[q] = n /\ Waits(q, n) /\ Passed(q, n)'
      BY <1>7, <2>2
    <3>3. \A q \in calls[n].comm : Passed(q, n)' /\ u <= id'[q] + 1
      BY <2>2, <3>1, <3>2
    <3>4. ASSUME NEW p \in 1 .. Len(calls), NEW v \in Int, Stamp(p, v)', n < p, NEW q \in calls[n].comm \cap calls[p].comm
          PROVE  FALSE
      <4>1. q \in Ranks /\ comm[q] = c /\ taken[q] = n /\ Waits(q, n)
        BY <3>1, <3>2, <3>4
      <4>2. CASE Stamp(p, v)
        <5>1. Passed(q, p)
          BY <1>6, <3>4, <4>2
        <5>2. \A m \in told[q] : \A k : ~Waits(q, m) /\ Waits(q, k) => m < k
          BY <1>1, <4>1 DEF Served
        <5>3. p < n
          BY <4>1, <5>1, <5>2 DEF Passed
        <5>4. QED
          BY <3>4, <5>3
      <4>3. ASSUME NEW d \in AllComms, DoSync(d), TogetherDo(d), AgreedOn(d, p), v = Agreed(d) + 1
            PROVE  FALSE
        <5>1. calls[p].comm = d
          BY <4>3 DEF AgreedOn
        <5>2. taken[q] = p
          BY <1>7, <3>4, <4>3, <5>1
        <5>3. QED
          BY <3>4, <4>1, <5>2
      <4>4. QED
        BY <1>8, <3>4, <4>2, <4>3
    <3>5. QED
      BY <3>3, <3>4
  <2>3. QED
    BY <1>8, <1>9, <2>1, <2>2
<1>10. QED
  BY <1>2, <1>9 DEF Stamps

\* A stream has its messages in order, and those before the one that is being written.
Flow ==
  \A c \in AllComms :
    /\ \A i, k \in Logs(c) : i < k => stream[c][i].call < stream[c][k].call
    /\ Has(Root(c), "writeLog") /\ calls[taken[Root(c)]].comm = c =>
         \A i \in Logs(c) : stream[c][i].call < taken[Root(c)]

\* What is in a stream the root of its communicator has passed.
LEMMA LoggedPassed ==
  ASSUME StartTyped, Streams, Stamps, NEW c \in AllComms, NEW i \in Logs(c)
  PROVE  Passed(Root(c), stream[c][i].call) /\ stream[c][i].call \in Nat
<1> DEFINE n == stream[c][i].call
           u == stream[c][i].jid
<1>1. n \in 1 .. Len(calls) /\ calls[n].comm = c /\ Root(c) \in c
  BY RootFacts DEF Streams
<1>2. stream[c][i] \in Entry
  <2>1. stream[c] \in Seq(Entry) /\ i \in DOMAIN stream[c] /\ DOMAIN stream[c] = 1 .. Len(stream[c])
    BY DEF StartTyped, Logs
  <2>2. QED
    BY <2>1, ElementOfSeq
<1>3. u \in Int /\ n \in Nat
  BY <1>2 DEF Entry
<1>4. Stamp(n, u)
  BY <1>1 DEF Stamp
<1>5. \A q \in calls[n].comm : Passed(q, n)
  BY <1>1, <1>3, <1>4 DEF Stamps
<1>6. QED
  BY <1>1, <1>3, <1>5

\* Every step keeps the order of these numbers.
LEMMA FlowKept ==
  ASSUME NEW e, Going(e), Streams, Stamps, Flow, [SNext]_svars, refused' = 0
  PROVE  Flow'
<1>1. /\ StartTyped /\ calls # << >> /\ mode = "engine" /\ Books
      /\ \A q \in Ranks : Handling(q) /\ Served(q)
  BY DEF Going, Orderly
<1>2. StartTyped' /\ calls' = calls /\ mode' = mode
  BY <1>1, StepEffects
<1>3. ASSUME NEW c \in AllComms
      PROVE  /\ \A i, k \in Logs(c)' : i < k => stream'[c][i].call < stream'[c][k].call
             /\ Has(Root(c), "writeLog")' /\ calls[taken'[Root(c)]].comm = c =>
                  \A i \in Logs(c)' : stream'[c][i].call < taken'[Root(c)]
  <2> DEFINE r == Root(c)
  <2>1. r \in Ranks
    BY RootFacts
  <2>2. /\ \A i, k \in Logs(c) : i < k => stream[c][i].call < stream[c][k].call
        /\ Has(r, "writeLog") /\ calls[taken[r]].comm = c => \A i \in Logs(c) : stream[c][i].call < taken[r]
    BY DEF Flow
  <2>3. \A i \in Logs(c) : Passed(r, stream[c][i].call) /\ stream[c][i].call \in Nat
    BY <1>1, LoggedPassed
  <2>4. \A m \in told[r] : \A n : ~Waits(r, m) /\ Waits(r, n) => m < n
    BY <1>1, <2>1 DEF Served
  <2> HIDE DEF r
  <2>5. ASSUME Has(r, "writeLog")', calls[taken'[r]].comm = c
        PROVE  \A i \in Logs(c) : stream[c][i].call < taken'[r]
    <3>1. CASE Same(r)
      <4>1. todo'[r] = todo[r] /\ taken'[r] = taken[r]
        BY <3>1 DEF Same
      <4>2. Has(r, "writeLog") /\ calls[taken[r]].comm = c
        BY <2>5, <4>1 DEF Has
      <4>3. QED
        BY <2>2, <4>1, <4>2
    <3>2. ASSUME NEW first, Does(r, first)
          PROVE  \A i \in Logs(c) : stream[c][i].call < taken'[r]
      <4>1. /\ \A op : Has(r, op) <=> todo[r][1].op = op \/ Later(r, op)
            /\ \A op : Has(r, op)' <=> HasOp(first, op) \/ Later(r, op)
            /\ \A op : Later(r, op) => MayPrecede(todo[r][1].op, op)
            /\ \A op \in {"line", "name", "writeLog"} : HasOp(first, op) => todo[r][1].op = "deliver"
            /\ todo[r][1] \in AnyStep /\ todo[r] \in Seq(AnyStep) /\ todo[r] # << >>
        BY <1>1, <2>1, <3>2, LaterFacts
      <4>2. CASE HasOp(first, "writeLog")
        <5>1. todo[r][1].op = "deliver"
          BY <4>1, <4>2
        <5>2. taken'[r] = todo[r][1].msg
          BY <3>2, <5>1 DEF Does
        <5>3. todo[r][1] = Deliver(todo[r][1].msg)
          BY <4>1, <5>1, StepCases
        <5>4. 1 \in 1 .. Len(todo[r])
          BY <4>1, LenProperties, EmptySeq
        <5>5. Waits(r, todo[r][1].msg)
          BY <5>3, <5>4 DEF Waits, Delivers
        <5>6. QED
          BY <2>3, <2>4, <5>2, <5>5 DEF Passed
      <4>3. CASE Later(r, "writeLog")
        <5>1. MayPrecede(todo[r][1].op, "writeLog") /\ Has(r, "writeLog")
          BY <4>1, <4>3
        <5>2. taken'[r] = taken[r]
          BY <3>2, <5>1 DEF Does, MayPrecede, Wild
        <5>3. QED
          BY <2>2, <2>5, <5>1, <5>2
      <4>4. QED
        BY <2>5, <4>1, <4>2, <4>3
    <3>3. Same(r) \/ \E first : Does(r, first)
      BY <1>1, <2>1, QuietStep
    <3>4. QED
      BY <3>1, <3>2, <3>3
  <2>6. CASE LogKept(c)
    BY <2>2, <2>5, <2>6 DEF LogKept, r
  <2>7. ASSUME NEW p, Adds(p, c)
        PROVE  /\ \A i, k \in Logs(c)' : i < k => stream'[c][i].call < stream'[c][k].call
               /\ ~Has(r, "writeLog")'
    <3>1. p = r /\ todo[r][1].op = "writeLog" /\ c = calls[taken[r]].comm
      BY <2>7 DEF Adds, r
    <3>2. PICK first : Does(r, first)
      BY <2>7, <3>1 DEF Adds
    <3>3. PICK jid : stream'[c] = Append(stream[c], [jid |-> jid, node |-> "log", call |-> taken[r]])
      BY <2>7, <3>1 DEF Adds
    <3>4. /\ \A op : Has(r, op) <=> todo[r][1].op = op \/ Later(r, op)
          /\ \A op : Has(r, op)' <=> HasOp(first, op) \/ Later(r, op)
          /\ \A op : Later(r, op) => MayPrecede(todo[r][1].op, op)
          /\ \A op \in {"line", "name", "writeLog"} : HasOp(first, op) => todo[r][1].op = "deliver"
      BY <1>1, <2>1, <3>2, LaterFacts
    <3>5. ~Has(r, "writeLog")' /\ Has(r, "writeLog")
      BY <3>1, <3>4 DEF MayPrecede, Wild
    <3>6. \A i \in Logs(c) : stream[c][i].call < taken[r]
      BY <2>2, <3>1, <3>5
    <3> DEFINE x == [jid |-> jid, node |-> "log", call |-> taken[r]]
               s == stream[c]
    <3>7. s \in Seq(Entry) /\ Len(s) \in Nat /\ stream'[c] \in Seq(Entry) /\ DOMAIN s = 1 .. Len(s)
      BY <1>1, <1>2, LenProperties DEF StartTyped
    <3>8. x.node = "log" /\ x.call = taken[r] /\ stream'[c] = Append(s, x)
      BY <3>3
    <3> HIDE DEF x
    <3>9. x \in Entry
      <4>1. Len(stream'[c]) = Len(s) + 1 /\ stream'[c][Len(s) + 1] = x
        BY <3>7, <3>8
      <4>2. Len(s) + 1 \in 1 .. Len(stream'[c])
        BY <3>7, <4>1
      <4>3. QED
        BY <3>7, <4>1, <4>2, ElementOfSeq
    <3>10. /\ Logs(c)' = Logs(c) \cup IF x.node = "log" THEN {Len(s) + 1} ELSE {}
           /\ stream'[c][Len(s) + 1] = x
           /\ \A i \in Logs(c) : stream'[c][i] = s[i]
      BY <1>1, <3>8, <3>9, LongerStream
    <3>11. \A i \in Logs(c) : i \in 1 .. Len(s)
      BY <3>7 DEF Logs
    <3>12. \A i \in Logs(c)' : i \in Logs(c) \/ i = Len(s) + 1
      BY <3>8, <3>10
    <3>13. ASSUME NEW i \in Logs(c)', NEW k \in Logs(c)', i < k
           PROVE  stream'[c][i].call < stream'[c][k].call
      <4>1. i \in Logs(c)
        <5>1. k \in 1 .. Len(s) + 1 /\ ~(Len(s) + 1 < k)
          BY <3>7, <3>11, <3>12, <3>13
        <5>2. QED
          BY <3>12, <3>13, <5>1
      <4>2. stream'[c][i] = s[i]
        BY <3>10, <4>1
      <4>3. CASE k \in Logs(c)
        <5>1. stream'[c][k] = s[k]
          BY <3>10, <4>3
        <5>2. QED
          BY <2>2, <3>13, <4>1, <4>2, <4>3, <5>1
      <4>4. CASE k = Len(s) + 1
        BY <3>6, <3>8, <3>10, <4>1, <4>2, <4>4
      <4>5. QED
        BY <3>12, <4>3, <4>4
    <3>14. QED
      BY <3>5, <3>13
  <2>8. CASE \E p : Adds(p, c)
    BY <2>7, <2>8 DEF r
  <2>9. LogKept(c) \/ \E p : Adds(p, c)
    BY <1>1, NewMessages
  <2>10. QED
    BY <2>6, <2>8, <2>9
<1>4. QED
  BY <1>2, <1>3 DEF Flow

-----------------------------------------------------------------------------
(* The beginning.                                                          *)

\* At the beginning nothing waits and nothing is written.
LEMMA BegunQueues == Begun => \A q \in Ranks : Prepared(q) /\ Queued(q) /\ Served(q)
<1> SUFFICES ASSUME Begun, NEW q \in Ranks
             PROVE  Prepared(q) /\ Queued(q) /\ Served(q)
  OBVIOUS
<1>1. StartTyped /\ Len(<< >>) = 0
  BY DEF Begun
<1>2. told[q] = {} /\ saved[q] = << >> /\ printed[q] = << >>
  BY DEF Begun
<1>3. todo[q] \in Seq(AnyStep) /\ calls \in Seq([comm : AllComms, black : BOOLEAN])
  BY <1>1 DEF StartTyped
<1>4. Len(todo[q]) \in Nat /\ Len(calls) \in Nat
  BY <1>3, LenProperties
<1>5. \A i \in 1 .. Len(todo[q]) : todo[q][i].op \notin {"deliver", "line", "pop", "name", "writeLog"}
  <2>1. PICK e \in Nat, a \in Nat, k \in Nat : Program(todo[q], q, calls, e, a, k)
    BY DEF Begun
  <2>2. \A i \in 1 .. Len(todo[q]) : Stands(todo[q][i], i, e, a, k, Len(calls))
    BY <1>3, <1>4, <2>1, PlacesOf
  <2>3. QED
    BY <2>2 DEF Stands
<1>6. ~Has(q, "pop") /\ ~Working(q) /\ ~Has(q, "line") /\ \A n : ~Delivers(q, n)
  BY <1>5 DEF Has, HasOp, Working, Delivers, Deliver
<1>7. Held(q) = << >>
  <2>1. calls # << >>
    <3>1. Len(calls) # 0
      BY <1>4 DEF Begun
    <3>2. QED
      BY <1>1, <3>1
  <2>2. QED
    BY <1>1, <1>2, <1>6, <2>1, HeldIs
<1>8. \A n : ~Keeps(q, n) /\ ~Among(printed[q], n)
  BY <1>1, <1>2, <1>7 DEF Keeps, Among
<1>9. Rising(Held(q)) /\ Rising(printed[q])
  BY <1>1, <1>2, <1>7 DEF Rising
<1>10. Prepared(q)
  BY <1>5 DEF Prepared
<1>11. Queued(q)
  BY <1>5, <1>6, <1>9 DEF Queued
<1>12. Served(q)
  BY <1>2, <1>8, <1>9 DEF Served
<1>13. QED
  BY <1>10, <1>11, <1>12

\* At the beginning a rank is on its course.
LEMMA BegunCourse ==
  ASSUME Begun, NEW e \in Nat, e + 3 <= Len(calls), \A n \in e + 1 .. e + 3 : calls[n] = OwnMessage, NEW q \in Ranks,
         NEW a \in Nat, NEW k \in Nat, Program(todo[q], q, calls, e, a, k)
  PROVE  Course(q, e) /\ Before(q) /\ ~Warned(q, e)
<1> DEFINE p == todo[q]
<1>1. p \in Seq(AnyStep) /\ Len(p) \in Nat /\ Len(calls) \in Nat /\ a + 10 <= k /\ k + 4 <= Len(p)
  BY LenProperties DEF Begun, StartTyped, Program
<1>2. told[q] = {} /\ saved[q] = << >>
  BY DEF Begun
<1>3. \A i \in 1 .. Len(p) : /\ Stands(p[i], i, e, a, k, Len(calls))
                             /\ \A n : Tells(p[i], n) => Speaks(p[i], i, e, a, k, Len(calls), n)
  BY <1>1, PlacesOf
<1>4. \A i \in 1 .. Len(p) :
        /\ p[i].op = "setLog" => i = a + 1
        /\ p[i].op = "look" => i = a + 3
        /\ p[i].op = "ready" => i = a + 7
        /\ p[i].op \notin {"castDir", "name", "writeLog", "sync", "gather"}
  BY <1>3 DEF Stands
<1>5. \A i \in 1 .. Len(p) : (Agrees(p[i]) => i = a + 9) /\ (Opens(p[i]) => i = a + 10)
  BY <1>3, <1>4 DEF Stands, Agrees, Opens
<1>6. /\ p[a + 1] = Op("setLog") /\ p[a + 2] = Say(e + 1) /\ p[a + 3] = [op |-> "look", warning |-> e + 2]
      /\ p[a + 7] = Op("ready") /\ p[a + 8] = Say(e + 3)
      /\ p[a + 9] = SetComm(World, TRUE) /\ p[a + 10] = Write("packageOptionsStarted")
  BY DEF Program
<1>7. /\ p[a + 1].op = "setLog" /\ p[a + 2].op = "say" /\ p[a + 2].msg = e + 1
      /\ p[a + 3].op = "look" /\ p[a + 3].warning = e + 2 /\ p[a + 7].op = "ready"
      /\ p[a + 8].op = "say" /\ p[a + 8].msg = e + 3
      /\ p[a + 9].op = "setComm" /\ p[a + 9].sync /\ p[a + 9].comm = World
  BY <1>6 DEF Op, Say, SetComm
<1>8. Opens(p[a + 10])
  BY <1>6 DEF Write, Opens
<1>9. /\ a + 1 \in 1 .. Len(p) /\ a + 2 \in 1 .. Len(p) /\ a + 3 \in 1 .. Len(p) /\ a + 7 \in 1 .. Len(p)
      /\ a + 8 \in 1 .. Len(p) /\ a + 9 \in 1 .. Len(p) /\ a + 10 \in 2 .. Len(p)
  BY <1>1
<1> HIDE DEF p
<1>10. \A i \in 1 .. Len(p) : IF i < Len(p) THEN Fit(p[i], p[i + 1], e) ELSE Ends(p[i])
  <2> SUFFICES ASSUME NEW i \in 1 .. Len(p)
               PROVE  IF i < Len(p) THEN Fit(p[i], p[i + 1], e) ELSE Ends(p[i])
    OBVIOUS
  <2>1. CASE i < Len(p)
    <3>1. i + 1 \in 1 .. Len(p)
      BY <1>1, <2>1
    <3>2. Agrees(p[i]) => Opens(p[i + 1])
      <4>1. i = a + 9 => i + 1 = a + 10
        OBVIOUS
      <4>2. QED
        BY <1>5, <1>8, <4>1
    <3>3. Opens(p[i + 1]) => p[i].op = "setComm" /\ p[i].sync /\ p[i].comm = World
      <4>1. i + 1 = a + 10 => i = a + 9
        BY <1>1
      <4>2. QED
        BY <1>5, <1>7, <3>1, <4>1
    <3>4. p[i].op \notin {"castDir", "name"} /\ p[i + 1].op \notin {"writeLog", "gather", "sync"}
      BY <1>4, <3>1
    <3>5. Fit(p[i], p[i + 1], e)
      BY <3>2, <3>3, <3>4 DEF Fit
    <3>6. QED
      BY <2>1, <3>5
  <2>2. CASE ~(i < Len(p))
    <3>1. i # a + 9
      BY <1>1, <2>2
    <3>2. Ends(p[i])
      BY <1>4, <1>5, <3>1 DEF Ends
    <3>3. QED
      BY <2>2, <3>2
  <2>3. QED
    BY <2>1, <2>2
<1>11. \A i, m \in 1 .. Len(p) : i < m => Apart(p[i], p[m], e)
  <2> SUFFICES ASSUME NEW i \in 1 .. Len(p), NEW m \in 1 .. Len(p), i < m
               PROVE  Apart(p[i], p[m], e)
    OBVIOUS
  <2>1. \A n : Tells(p[i], n) => Speaks(p[i], i, e, a, k, Len(calls), n)
    BY <1>3 DEF p
  <2>2. \A n : Tells(p[m], n) => Speaks(p[m], m, e, a, k, Len(calls), n)
    BY <1>3 DEF p
  <2>3. ASSUME p[i].op = "say", p[m].op \in {"ready", "setLog"}
        PROVE  p[i].msg <= e + 2
    <3>1. i < a + 7
      <4>1. m = a + 1 \/ m = a + 7
        BY <1>4, <2>3
      <4>2. QED
        BY <4>1
    <3>2. Speaks(p[i], i, e, a, k, Len(calls), p[i].msg)
      BY <2>1, <2>3 DEF Tells
    <3>3. QED
      BY <1>1, <3>1, <3>2 DEF Speaks
  <2>4. ASSUME Opens(p[m]), NEW n \in Nat, Tells(p[i], n)
        PROVE  n <= e + 3
    <3>1. i < a + 10
      BY <1>5, <2>4
    <3>2. Speaks(p[i], i, e, a, k, Len(calls), n)
      BY <2>1, <2>4
    <3>3. QED
      BY <1>1, <3>1, <3>2 DEF Speaks
  <2>5. Opens(p[i]) => ~Opens(p[m])
    BY <1>1, <1>5
  <2>6. ASSUME Opens(p[i]), NEW n \in Nat, Tells(p[m], n)
        PROVE  e + 3 < n
    <3>1. a + 10 < m
      BY <1>5, <2>6
    <3>2. Speaks(p[m], m, e, a, k, Len(calls), n)
      BY <2>2, <2>6
    <3>3. QED
      BY <1>1, <3>1, <3>2 DEF Speaks
  <2>7. QED
    BY <2>3, <2>4, <2>5, <2>6 DEF Apart
<1>12. \A i \in 1 .. Len(p) : p[i].op = "look" => p[i].warning = e + 2
  BY <1>4, <1>7
<1>13. Fitting(q, e)
  BY <1>10, <1>11, <1>12 DEF Fitting, p
<1>14. Has(q, "ready") /\ Has(q, "setLog")
  BY <1>7, <1>9 DEF Has, HasOp, p
<1>15. \A n \in 1 .. Len(calls) : n # e + 2 /\ q \in calls[n].comm => Will(q, n)
  <2> SUFFICES ASSUME NEW n \in 1 .. Len(calls), n # e + 2, q \in calls[n].comm
               PROVE  \E i \in 1 .. Len(p) : p[i].op = "say" /\ p[i].msg = n
    BY DEF Will, p
  <2>1. CASE n \in 1 .. e
    <3>1. PICK i \in 1 .. a : p[i] = Say(n)
      BY <2>1 DEF Program, p
    <3>2. i \in 1 .. Len(p)
      BY <1>1
    <3>3. QED
      BY <3>1, <3>2 DEF Say
  <2>2. CASE n = e + 1
    BY <1>7, <1>9, <2>2
  <2>3. CASE n = e + 3
    BY <1>7, <1>9, <2>3
  <2>4. CASE n \in e + 4 .. Len(calls)
    <3>1. PICK i \in k + 5 .. Len(p) : p[i] = Say(n)
      BY <2>4 DEF Program, p
    <3>2. i \in 1 .. Len(p)
      BY <1>1
    <3>3. QED
      BY <3>1, <3>2 DEF Say
  <2>5. QED
    BY <1>1, <2>1, <2>2, <2>3, <2>4, SMTT(30)
<1>16. \A i \in 2 .. Len(p) : Opens(p[i]) /\ (\A m \in 1 .. i - 1 : p[m].op \in {"sync", "gather"}) => FALSE
  <2> SUFFICES ASSUME NEW i \in 2 .. Len(p), Opens(p[i]), \A m \in 1 .. i - 1 : p[m].op \in {"sync", "gather"}
               PROVE  FALSE
    OBVIOUS
  <2>1. i \in 1 .. Len(p)
    BY <1>1
  <2>2. i = a + 10
    BY <1>5, <2>1
  <2>3. a + 9 \in 1 .. i - 1
    BY <2>2
  <2>4. QED
    BY <1>7, <2>3
<1>17. Course(q, e)
  BY <1>2, <1>13, <1>14, <1>15, <1>16 DEF Course, p
<1>18. Before(q)
  BY <1>8, <1>9 DEF Before, p
<1>19. ~Will(q, e + 2)
  <2> SUFFICES ASSUME NEW i \in 1 .. Len(p), p[i].op = "say", p[i].msg = e + 2
               PROVE  FALSE
    BY <1>2 DEF Will, p
  <2>1. Speaks(p[i], i, e, a, k, Len(calls), e + 2)
    BY <1>3 DEF Tells, p
  <2>2. i = a + 3
    BY <1>1, <2>1 DEF Speaks
  <2>3. QED
    BY <1>7, <2>2
<1>20. QED
  BY <1>17, <1>18, <1>19 DEF Warned

\* At the beginning no message has a number.
LEMMA BegunGoing == Begun /\ mode = "engine" => Stamps /\ Flow /\ \E e \in Nat : Going(e)
<1> SUFFICES ASSUME Begun, mode = "engine"
             PROVE  Stamps /\ Flow /\ \E e \in Nat : Going(e)
  OBVIOUS
<1>1. PICK e \in Nat :
        /\ e + 3 <= Len(calls) /\ \A n \in e + 1 .. e + 3 : calls[n] = OwnMessage
        /\ \A r \in Ranks : \E a, k \in Nat : Program(todo[r], r, calls, e, a, k)
  BY DEF Begun
<1>2. StartTyped /\ Books /\ \A q \in Ranks : Places(q)
  BY BegunPlaces DEF Order
<1>3. \A q \in Ranks : Course(q, e) /\ Before(q) /\ ~Warned(q, e)
  BY <1>1, BegunCourse
<1>4. calls # << >> /\ e + 3 \in 1 .. Len(calls)
  <2>1. Len(calls) \in Nat /\ Len(<< >>) = 0
    BY <1>2, LenProperties DEF StartTyped
  <2>2. Len(calls) # 0 /\ e + 3 \in 1 .. Len(calls)
    BY <1>1, <2>1
  <2>3. QED
    BY <2>1, <2>2
<1>5. \A q \in Ranks : told[q] = {} /\ taken[q] = 0
  BY DEF Begun
<1>6. \A q \in Ranks : \A n : ~Passed(q, n)
  BY <1>5 DEF Passed
<1>7. \A n \in 1 .. Len(calls) : calls[n].comm \in AllComms /\ calls[n].comm \subseteq Ranks
  BY <1>2, CommOfMessage, CommFacts
<1>8. Abreast(e)
  <2>1. calls[e + 2].comm = World /\ calls[e + 3].comm = World
    BY <1>1 DEF OwnMessage
  <2>2. QED
    BY <1>3, <1>4, <1>6, <1>7, <2>1 DEF Abreast
<1>9. Going(e)
  BY <1>2, <1>3, <1>4, <1>8, BegunQueues DEF Going, Orderly, Books
<1>10. \A c \in AllComms : Logs(c) = {}
  <2>1. \A c \in AllComms : stream[c] = << >>
    BY DEF Begun
  <2>2. QED
    BY <2>1 DEF Logs
<1>11. \A n \in 1 .. Len(calls) : \A u : ~Stamp(n, u)
  <2> SUFFICES ASSUME NEW n \in 1 .. Len(calls), NEW u, Stamp(n, u)
               PROVE  FALSE
    OBVIOUS
  <2>1. Logs(calls[n].comm) = {} /\ Root(calls[n].comm) \in Ranks
    BY <1>7, <1>10, RootFacts
  <2>2. taken[Root(calls[n].comm)] = n
    BY <2>1 DEF Stamp
  <2>3. n = 0
    BY <1>5, <2>1, <2>2
  <2>4. QED
    BY <2>3
<1>12. Stamps
  BY <1>11 DEF Stamps
<1>13. Flow
  BY <1>5, <1>10, RootFacts DEF Flow, Has, HasOp
<1>14. QED
  BY <1>9, <1>12, <1>13

-----------------------------------------------------------------------------
(* The invariant.                                                          *)

\* What holds as long as nothing is refused.
Undisturbed ==
  refused = 0 =>
    /\ \A q \in Ranks : Prepared(q) /\ Queued(q) /\ Served(q)
    /\ mode = "engine" => Stamps /\ Flow /\ \E e \in Nat : Going(e)

\* The invariant: nothing is chosen, or one place, and order as long as nothing is refused.
OrderTogether == SInit \/ (calls # << >> /\ Order /\ Undisturbed)

\* Every step keeps what holds as long as nothing is refused.
LEMMA UndisturbedKept ==
  ASSUME calls # << >>, Order, Undisturbed, [SNext]_svars
  PROVE  Undisturbed'
<1> SUFFICES ASSUME refused' = 0
             PROVE  /\ \A q \in Ranks : Prepared(q)' /\ Queued(q)' /\ Served(q)'
                    /\ mode' = "engine" => Stamps' /\ Flow' /\ \E e \in Nat : Going(e)'
  BY DEF Undisturbed
<1>1. StartTyped /\ Books /\ Streams /\ \A q \in Ranks : Places(q) /\ Telling(q) /\ Handling(q)
  BY DEF Order, Books
<1>2. StartTyped' /\ calls' = calls /\ mode' = mode /\ Books'
  BY <1>1, StepEffects, BooksKept
<1>3. refused = 0 /\ \A q \in Ranks : Same(q) \/ \E first : Does(q, first)
  BY <1>1, QuietStep
<1>4. \A q \in Ranks : Prepared(q) /\ Queued(q) /\ Served(q)
  BY <1>3 DEF Undisturbed
<1>5. \A q \in Ranks : Places(q)'
  BY <1>1, <1>2, <1>3, PlacesKept, PlacesStay
<1>6. ASSUME NEW q \in Ranks
      PROVE  Prepared(q)' /\ Queued(q)' /\ Served(q)'
  <2>1. CASE Same(q)
    BY <1>1, <1>2, <1>4, <2>1, SameKeeps
  <2>2. ASSUME NEW first, Does(q, first)
        PROVE  Prepared(q)' /\ Queued(q)' /\ Served(q)'
    <3>1. Telling(q) /\ Handling(q) /\ Places(q) /\ Prepared(q) /\ Queued(q) /\ Served(q)
      BY <1>1, <1>4
    <3>2. Prepared(q)'
      BY <1>1, <1>2, <2>2, <3>1, PreparedKept
    <3>3. Queued(q)'
      BY <1>1, <1>2, <2>2, <3>1, QueuedKept
    <3>4. Served(q)'
      BY <1>1, <1>2, <2>2, <3>1, ServedKept
    <3>5. QED
      BY <3>2, <3>3, <3>4
  <2>3. QED
    BY <1>3, <2>1, <2>2
<1>7. ASSUME mode = "engine"
      PROVE  Stamps' /\ Flow' /\ \E e \in Nat : Going(e)'
  <2>1. PICK e \in Nat : Going(e)
    BY <1>3, <1>7 DEF Undisturbed
  <2>2. Stamps /\ Flow
    BY <1>3, <1>7 DEF Undisturbed
  <2>3. Stamps' /\ Flow'
    BY <1>1, <2>1, <2>2, StampsKept, FlowKept
  <2>4. Abreast(e)'
    BY <2>1, AbreastKept
  <2>5. ASSUME NEW q \in Ranks
        PROVE  Course(q, e)'
    <3>1. Course(q, e)
      BY <2>1 DEF Going
    <3>2. QED
      BY <1>1, <1>2, <1>3, <1>7, <3>1, CourseKept, SameKeeps
  <2>6. \A q \in Ranks : Orderly(q)'
    BY <1>2, <1>5, <1>6 DEF Orderly, Books
  <2>7. Going(e)'
    BY <1>2, <1>7, <2>4, <2>5, <2>6 DEF Going
  <2>8. QED
    BY <2>3, <2>7
<1>8. QED
  BY <1>2, <1>6, <1>7

\* The invariant is inductive.
LEMMA TogetherKept == OrderTogether /\ [SNext]_svars => OrderTogether'
<1>0. (Begun => Order /\ Undisturbed)'
  <2>1. Begun => Order /\ Undisturbed
    BY BegunPlaces, BegunQueues, BegunGoing DEF Undisturbed
  <2>2. QED
    BY <2>1, PTL
<1> SUFFICES ASSUME OrderTogether, [SNext]_svars
             PROVE  OrderTogether'
  OBVIOUS
<1>1. CASE SInit
  <2>1. CASE Start
    BY <1>0, <1>1, <2>1, StartBegins DEF OrderTogether
  <2>2. CASE UNCHANGED svars
    <3>1. SInit'
      BY <1>1, <2>2 DEF SInit, svars, vars, app, engine, logger, files, reader
    <3>2. QED
      BY <3>1 DEF OrderTogether
  <2>3. QED
    BY <1>1, <2>1, <2>2, OnlyStart
<1>2. CASE calls # << >> /\ Order /\ Undisturbed
  <2>1. Undisturbed'
    BY <1>2, UndisturbedKept
  <2>2. Order'
    BY <1>2, OrderKept
  <2>3. calls' = calls
    BY <1>2, StepEffects DEF Order
  <2>4. QED
    BY <1>2, <2>1, <2>2, <2>3 DEF OrderTogether
<1>3. QED
  BY <1>1, <1>2 DEF OrderTogether

\* It is enough for the order.
LEMMA TogetherInOrder == OrderTogether => ProgramOrder
<1> SUFFICES ASSUME OrderTogether, refused = 0
             PROVE  /\ \A r \in Ranks : InOrder(printed[r])
                    /\ \A c, d \in AllComms : \A i \in Logs(c), k \in Logs(d) :
                         LET x == stream[c][i]
                             y == stream[d][k]
                         IN  /\ c \cap d # {} /\ x.call < y.call => x.jid <= y.jid
                             /\ c = d /\ i < k => x.call < y.call
  BY DEF ProgramOrder
<1>1. CASE SInit
  <2>1. \A r \in Ranks : printed[r] = << >>
    BY <1>1 DEF SInit
  <2>2. \A c \in AllComms : stream[c] = << >>
    BY <1>1 DEF SInit
  <2>3. QED
    BY <2>1, <2>2 DEF InOrder, Logs
<1>2. CASE calls # << >> /\ Order /\ Undisturbed
  <2>1. StartTyped /\ Streams
    BY <1>2 DEF Order
  <2>2. \A r \in Ranks : InOrder(printed[r])
    <3>1. \A r \in Ranks : Rising(printed[r]) /\ DOMAIN printed[r] = 1 .. Len(printed[r])
      BY <1>2, <2>1 DEF Undisturbed, Served, StartTyped
    <3>2. QED
      BY <3>1 DEF InOrder, Rising
  <2>3. ASSUME NEW c \in AllComms, NEW d \in AllComms, NEW i \in Logs(c), NEW k \in Logs(d)
        PROVE  /\ c \cap d # {} /\ stream[c][i].call < stream[d][k].call => stream[c][i].jid <= stream[d][k].jid
               /\ c = d /\ i < k => stream[c][i].call < stream[d][k].call
    <3>1. mode = "engine"
      BY <2>1, <2>3 DEF Streams
    <3>2. Stamps /\ Flow
      BY <1>2, <3>1 DEF Undisturbed
    <3>3. ASSUME NEW b \in AllComms, NEW j \in Logs(b)
          PROVE  /\ stream[b][j].call \in 1 .. Len(calls) /\ calls[stream[b][j].call].comm = b /\ stream[b][j].jid \in Int
                 /\ Stamp(stream[b][j].call, stream[b][j].jid)
      <4>1. stream[b][j].call \in 1 .. Len(calls) /\ calls[stream[b][j].call].comm = b
        BY <2>1, <3>3 DEF Streams
      <4>2. stream[b][j] \in Entry
        <5>1. stream[b] \in Seq(Entry) /\ j \in DOMAIN stream[b] /\ DOMAIN stream[b] = 1 .. Len(stream[b])
          BY <2>1, <3>3 DEF StartTyped, Logs
        <5>2. QED
          BY <5>1, ElementOfSeq
      <4>3. QED
        BY <3>3, <4>1, <4>2 DEF Entry, Stamp
    <3>4. c = d /\ i < k => stream[c][i].call < stream[d][k].call
      BY <2>3, <3>2 DEF Flow
    <3>5. c \cap d # {} /\ stream[c][i].call < stream[d][k].call => stream[c][i].jid <= stream[d][k].jid
      BY <2>3, <3>2, <3>3 DEF Stamps
    <3>6. QED
      BY <3>4, <3>5
  <2>4. QED
    BY <2>2, <2>3
<1>3. QED
  BY <1>1, <1>2 DEF OrderTogether

\* Each message that the program logs is in one place, and as long as nothing is refused
\* messages keep their order, in files and streams, and their numbers keep it on all ranks.
THEOREM StartLogsOnce == SSpec => []LoggedOnce
<1>1. SInit => OrderTogether
  BY DEF OrderTogether
<1>2. OrderTogether => OnePlace
  <2>1. SInit => OnePlace
    <3>1. DOMAIN << >> = {}
      OBVIOUS
    <3>2. QED
      BY <3>1 DEF SInit, OnePlace
  <2>2. QED
    BY <2>1, OrderLogsOnce DEF OrderTogether
<1>3. OrderTogether => LoggedOnce
  BY <1>2, TogetherInOrder DEF LoggedOnce
<1>4. QED
  BY <1>1, <1>3, TogetherKept, PTL DEF SSpec
===============================================================================
