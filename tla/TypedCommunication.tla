-------------------------- MODULE TypedCommunication --------------------------
(***************************************************************************)
(* Typed values over a communicator (Communication.cpp, ICommunicator.cpp, *)
(* the reducers of BasicReducers.cpp): values are packed into buffers, the *)
(* buffers go through MPI, and values are unpacked again.                  *)
(*                                                                         *)
(* A buffer is a sequence of words of eight bytes.  A value of a data type *)
(* with maxSize 8 * W takes W words, which only make sense together and in *)
(* order; a key takes one.  Ranks are 0 .. S - 1, and what every rank      *)
(* passes to a collective is a function of its rank.                       *)
(***************************************************************************)
EXTENDS Integers, Sequences, SequencesExt, FiniteSetsExt

CONSTANTS
  Wild,       \* what comes out of bytes that are not a packed value
  Thrown,     \* the call throws
  NullData    \* a null pointer

Key(k) == <<[val |-> k, part |-> 0]>>
Pack(v, W) == [i \in 1 .. W |-> [val |-> v, part |-> i]]

\* unpack, from the words after position `at`; past the end of the buffer anything
\* may be read.
Unpack(buf, at, W) ==
  IF /\ at + W <= Len(buf)
     /\ \A i \in 1 .. W : buf[at + i] = [val |-> buf[at + 1].val, part |-> i]
  THEN buf[at + 1].val ELSE Wild

PackAll(data, W) == FlattenSeq([i \in 1 .. Len(data) |-> Pack(data[i], W)])

UnpackAll(buf, count, W) == [i \in 1 .. count |-> Unpack(buf, (i - 1) * W, W)]

-----------------------------------------------------------------------------
(* Point to point: each element carries the key of its data type.          *)

\* The message of Send: the key of the first element goes with every element.
SendBuffer(data, key, W) ==
  FlattenSeq([i \in 1 .. Len(data) |-> Key(key) \o Pack(data[i], W)])

\* Mutant of RecvCount: the key is not skipped.
RecvCountNoSkip(message, count, W) ==
  [i \in 1 .. count |-> Unpack(message, (i - 1) * (W + 1), W)]

\* Recv with a count and a type that are known.
RecvCount(message, count, W) ==
  [i \in 1 .. count |-> Unpack(message, (i - 1) * (W + 1) + 1, W)]

\* Recv of whatever arrives: the type is in the message, and sizes[type] its W.
RecvAny(message, sizes) ==
  IF message = << >> THEN << >>
  ELSE IF Len(message) = 1 THEN Thrown
  ELSE LET W == sizes[message[1].val]
       IN  IF Len(message) % (W + 1) # 0 THEN Thrown
           ELSE RecvCount(message, Len(message) \div (W + 1), W)

\* IRecv, Wait and IRequest::unpack, whose stride leaves out the key.
IRecvUnpack(message, count, W) ==
  [i \in 1 .. count |-> Unpack(message, (i - 1) * W + 1, W)]

-----------------------------------------------------------------------------
(* Collectives; data[r] is what rank r passes, S the number of ranks.      *)

RankOrder(S) == [i \in 1 .. S |-> i - 1]

Concat(data, S, W) == FlattenSeq([i \in 1 .. S |-> PackAll(data[RankOrder(S)[i]], W)])

\* BroadCast, on rank r: the buffer of every rank is as large as its own data.
BroadCast(data, root, r, count, W) ==
  IF count > Len(data[r]) THEN [i \in 1 .. count |-> Wild]
  ELSE UnpackAll(PackAll(data[root], W), count, W)

\* BroadCast with allToAll, on rank r: block r of every rank's data.
AllToAll(data, S, r, count, W) ==
  UnpackAll(FlattenSeq([i \in 1 .. S |-> SubSeq(PackAll(data[i - 1], W), r * count * W + 1, (r + 1) * count * W)]),
            S * count, W)

\* Gather, on the root: as many results as the data of one rank has bytes.
Gather(data, S, W) ==
  UnpackAll(Concat(data, S, W), 8 * W * Len(data[0]), W)

\* Scatter, on rank r: the root packs its data only if their number is not the one
\* the ranks expect; without a buffer MPI has nothing to scatter.
Scatter(data, S, root, r, count, W) ==
  IF Len(data[root]) = count * S THEN [i \in 1 .. count |-> Wild]
  ELSE UnpackAll(SubSeq(PackAll(data[root], W), r * count * W + 1, (r + 1) * count * W), count, W)

\* WaitAll, TestAll, WaitAny: the vector of MPI requests starts with as many empty
\* entries as there are requests, and MPI is given only these.
RequestsGiven(requests) ==
  SubSeq([i \in 1 .. Len(requests) |-> NullData] \o requests, 1, Len(requests))

-----------------------------------------------------------------------------
(* Reductions.                                                             *)

Reducers == {"sum", "prod", "min", "max", "sqrsum"}

\* IReduction::reduce of the registered reducers, for numbers.
ReduceTwo(reducer, in, out) ==
  CASE reducer = "sum" -> out + in
    [] reducer = "prod" -> out * in
    [] reducer = "min" -> IF out < in THEN out ELSE in
    [] reducer = "max" -> IF out > in THEN out ELSE in
    [] reducer = "sqrsum" -> out * out + in * in

\* Mutant of ReduceLocalVec: the first element is reduced twice.
ReduceLocalVecFromOne(data, reducer) ==
  FoldLeft(LAMBDA result, v : ReduceTwo(reducer, v, result), data[1], data)

\* ReduceLocalVec, of a vector that is not empty.
ReduceLocalVec(data, reducer) ==
  FoldLeft(LAMBDA result, v : ReduceTwo(reducer, v, result), data[1], Tail(data))

\* OpTypeEncodedReduction as MPI may call it: `in` is what the ranks of a first part
\* have come to, and `out` what the others have.  The reducers say they commute, so
\* MPI may take any rank first.
RECURSIVE Reduced(_, _)
Reduced(vals, reducer) ==
  IF Cardinality(DOMAIN vals) = 1 THEN {vals[r] : r \in DOMAIN vals}
  ELSE UNION {{ReduceTwo(reducer, in, out) : in \in Reduced([r \in part |-> vals[r]], reducer),
                                              out \in Reduced([r \in DOMAIN vals \ part |-> vals[r]], reducer)}
              : part \in (SUBSET DOMAIN vals) \ {{}, DOMAIN vals}}

\* ReduceMultiple: what element e of the result may be on the root.
ReduceMultiple(data, e, reducer) == Reduced([r \in DOMAIN data |-> data[r][e]], reducer)

\* Mutant of ReduceVector: only the first element of every rank is reduced.
ReduceVectorFirst(data, reducer) == ReduceMultiple(data, 1, reducer)

\* ReduceVector: the vector of every rank first, then across the ranks.
ReduceVector(data, reducer) ==
  ReduceMultiple([r \in DOMAIN data |-> <<ReduceLocalVec(data[r], reducer)>>], 1, reducer)
=============================================================================
