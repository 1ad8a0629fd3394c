----------------------------- MODULE GlobalArrays -----------------------------
(***************************************************************************)
(* The arrays a test writes from all ranks of its communicator             *)
(* (IOutputEngine.h): each Put_ method is a BaseAction that tells how many *)
(* elements a rank has and where they go in the global array;              *)
(* PutGlobalArray (streamtemplate.h) gathers the elements on the engine's  *)
(* root with GatherV and writes one node.                                  *)
(*                                                                         *)
(* A Put is described by the blocks of the ranks: block[r] is              *)
(*   [gsizes, sizes, offsets, data]                                        *)
(* as rank r passes them to PutGlobalArray.  Ranks are 0 .. S - 1.         *)
(***************************************************************************)
EXTENDS TypedCommunication

EngineRoot == 0           \* IOutputEngine::getRoot

Product(s) == FoldLeft(LAMBDA a, b : a * b, 1, s)

Block(gsizes, sizes, offsets, data) ==
  [gsizes |-> gsizes, sizes |-> sizes, offsets |-> offsets, data |-> data]

-----------------------------------------------------------------------------
(* DataTypeCommunication::GatherV.                                         *)

\* Mutant of Multipliers: the sizes of the dimensions before, not after.
MultipliersForward(gsizes) ==
  [i \in 1 .. Len(gsizes) |-> Product(SubSeq(gsizes, 1, i - 1))]

\* The stride of each dimension: row major.
Multipliers(gsizes) ==
  [i \in 1 .. Len(gsizes) |-> Product(SubSeq(gsizes, i + 1, Len(gsizes)))]

\* The iteration counters after one more element: the last dimension first, with a
\* carry where a counter goes back to 0.
NextIters(iters, sizes) ==
  LET dim == Len(iters)
      Carry(j) == \A k \in (j + 1) .. dim : iters[k] + 1 = sizes[k]
  IN  [j \in 1 .. dim |-> IF Carry(j) THEN (iters[j] + 1) % sizes[j] ELSE iters[j]]

\* The places in the global array of the elements of a block, in their order.
RECURSIVE Places(_, _, _, _)
Places(block, gsizes, iters, left) ==
  IF left = 0 THEN << >>
  ELSE LET mult == Multipliers(gsizes)
           at == [j \in 1 .. Len(iters) |-> (block.offsets[j] + iters[j]) * mult[j]]
       IN  <<FoldLeft(LAMBDA a, b : a + b, 0, at)>>
             \o Places(block, gsizes, NextIters(iters, block.sizes), left - 1)

\* The array on the root, which uses its own gsizes: the elements of the ranks are
\* put in one after the other.  Out of its bounds nothing is defined.
GatherV(block, S) ==
  LET gsizes == block[EngineRoot].gsizes
      total == Product(gsizes)
      PutBlock(array, r) ==
        LET b == block[r]
            places == Places(b, gsizes, [j \in 1 .. Len(gsizes) |-> 0], Len(b.data))
        IN  FoldLeft(LAMBDA a, k : IF a = Wild \/ places[k] >= total THEN Wild
                                   ELSE [a EXCEPT ![places[k] + 1] = b.data[k]],
                     array, [k \in 1 .. Len(b.data) |-> k])
  IN  FoldLeft(PutBlock, [i \in 1 .. total |-> NullData], RankOrder(S))

-----------------------------------------------------------------------------
(* The actions: what rank r passes to PutGlobalArray.                      *)

IsSource(rank, r) == r = (IF rank < 0 THEN EngineRoot ELSE rank)

\* ScalarAction: Put_Rank.
PutRank(size, rank, r, data) ==
  LET n == IF IsSource(rank, r) THEN size ELSE 0
  IN  Block(<<size>>, <<n>>, <<0>>, SubSeq(data, 1, n))

\* Mutant of PutVector: the offset does not count the size.
PutVectorByRank(size, S, r, data) == Block(<<size * S>>, <<size>>, <<r>>, data)

\* VectorAction: Put_Vector.
PutVector(size, S, r, data) == Block(<<size * S>>, <<size>>, <<size * r>>, data)

\* MatrixAction: Put_Matrix of x by y blocks in ymax columns.  Both conditions of the
\* error have to hold for it to be reported.
MatrixRefused(x, y, ymax, S) == ymax % y # 0 /\ S % (ymax \div y) # 0

PutMatrix(x, y, ymax, S, r, data) ==
  Block(<<(x * y * S) \div ymax, ymax>>, <<x, y>>,
        <<(r * x * y) \div ymax, (r * y) % ymax>>, data)

\* flatten: the rows of a matrix, one after the other.
Flatten(rows) == FlattenSeq(rows)

\* GlobalArrayAction: Put_Matrix with the sizes and offsets of the caller.
PutArray(gsizes, sizes, offsets, data) == Block(gsizes, sizes, offsets, data)

\* The action writes `result` from the one rank that has it.
FromOne(rank, r, result) ==
  Block(<<Len(result)>>, <<IF IsSource(rank, r) THEN Len(result) ELSE 0>>, <<0>>,
        IF IsSource(rank, r) THEN result ELSE << >>)

\* ReductionAction, ElementWiseReductionAction and SingleProcessorReductionAction;
\* result is what the reduction gave on the rank it goes to.
PutReduced(rank, r, result) == FromOne(rank, r, result)

\* ProcessorWiseReductionAction: one value of every rank.
PutReducedRankWise(S, r, data, reducer) ==
  Block(<<S>>, <<1>>, <<r>>, <<ReduceLocalVec(data, reducer)>>)

-----------------------------------------------------------------------------
(* The node: PutGlobalArray.                                               *)

HalfWord == 16             \* bound: stands for 2^32, the values of half a long

\* A data type of class `class` as GenericDataType stores it, read by the engine.
\* The registered integers are read through a pointer to long: an int is read with
\* the enumerator after it, LONG = 1, as the upper half.
AsWritten(class, v) ==
  IF class = "int" THEN HalfWord + (v % HalfWord) ELSE v

\* WriteDataJson: an element gives one child for each of its parameters, with all the
\* parameter's values.
WriteDataJson(params, array) ==
  [i \in DOMAIN array |->
     IF array[i] = NullData THEN {}
     ELSE {[name |-> p, value |-> [k \in 1 .. params[p].count |-> <<array[i], p, k>>]] : p \in DOMAIN params}]

\* The children of the node for elements whose data type has the parameters
\* params[p] = [dims, count].  A data type with one parameter of at most one dimension
\* gives its first value only; an element no rank gave is the zero of its type.
NodeChildren(params, array) ==
  IF array = Wild THEN Wild
  ELSE IF Cardinality(DOMAIN params) # 1 \/ \E p \in DOMAIN params : params[p].dims > 1
  THEN IF DOMAIN params = {} THEN << >> ELSE WriteDataJson(params, array)
  ELSE [i \in DOMAIN array |->
          IF array[i] = NullData THEN 0 ELSE <<array[i], CHOOSE p \in DOMAIN params : TRUE, 1>>]

\* The same for the registered numbers, which are their only value.
PutGlobalArray(block, S, class) ==
  LET array == GatherV(block, S)
  IN  IF array = Wild THEN Wild
      ELSE [i \in DOMAIN array |-> IF array[i] = NullData THEN 0 ELSE AsWritten(class, array[i])]
=============================================================================
