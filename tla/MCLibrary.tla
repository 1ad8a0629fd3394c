------------------------------ MODULE MCLibrary ------------------------------
(***************************************************************************)
(* The pure algorithms of the tool kit, called again and again on every    *)
(* input within small bounds.  `call` is the call that is being made; each *)
(* property compares what the code's algorithm gives for it with a         *)
(* definition of what it is for.                                           *)
(***************************************************************************)
EXTENDS CommMapper, GlobalArrays, Configuration, CommunicatorIds, Registration

VARIABLE call

None == [kind |-> "none"]

-----------------------------------------------------------------------------
(* Communicators.                                                          *)

\* One unique id is one set of processes, so no two are equal.
Logged(f) == \A i, j \in DOMAIN f : i # j => f[i] # f[j]

\* Communicators made by splitting communicators: two of them are nested or apart.
FromSplits(f) == \A i, j \in DOMAIN f : f[i] \subseteq f[j] \/ f[j] \subseteq f[i] \/ f[i] \cap f[j] = {}

\* Bounds: the world and up to three other communicators with ids 0 .. 3 in any order,
\* of three processes or, when they come from splits, four.
Families ==
  UNION {{f \in [0 .. (n - 1) -> (SUBSET (0 .. last)) \ {{}}] :
            Logged(f) /\ (last < 3 \/ FromSplits(f)) /\ \E i \in DOMAIN f : f[i] = 0 .. last}
         : n \in 1 .. 4, last \in 2 .. 3}

MapComms ==
  /\ call = None
  /\ \E f \in Families : call' = [kind |-> "comms", comms |-> f]

\* The communicators right below i.
Below(f, i) ==
  {j \in DOMAIN f : /\ f[j] \subseteq f[i] /\ j # i
                    /\ ~ \E k \in DOMAIN f \ {i, j} : f[j] \subseteq f[k] /\ f[k] \subseteq f[i]}

\* The graph built from the gathered ids is the inclusion order of the communicators,
\* whatever order their ids have: a link leads from a communicator to one right below
\* it, the roots are in no other, and the chain search finds every communicator that
\* shares a process.  This is so whenever the construction has a defined outcome, and
\* it has one for communicators that come from splits.
MapIsInclusion ==
  call.kind = "comms" =>
    LET f == call.comms
        procs == UNION {f[i] : i \in DOMAIN f}
        s == GatherCommInformation([p \in procs |-> {i \in DOMAIN f : p \in f[i]}])
    IN  /\ FromSplits(f) => s.ok
        /\ s.ok =>
             /\ DOMAIN s.g = DOMAIN f
             /\ \A i \in DOMAIN f :
                  /\ s.g[i].contents = f[i]
                  /\ s.g[i].children = Below(f, i)
                  /\ s.g[i].parents = {j \in DOMAIN f : i \in Below(f, j)}
                  /\ \A j \in DOMAIN f : f[i] \cap f[j] # {} => InCommChain(s.g, i, j, {})
             /\ RootComms(s.g) = {i \in DOMAIN f : f[i] = procs}

\* The world of n ranks and what is made of it: two splits, of the world or of the first
\* split, a duplicate, and a group of ranks of the first in descending order.  Each
\* rank knows the communicators it is in, and gives them to the tool kit in its own order.
SplitKeys(n, up) == [r \in 0 .. (n - 1) |-> IF up THEN r ELSE n - r]

Made(c, r) ==
  LET n == Cardinality(DOMAIN c.first)
      world == [i \in 1 .. n |-> i - 1]
      one == Split(world, c.first, SplitKeys(n, c.up[1]), r)
      two == Split(IF c.nested THEN one ELSE world, c.second, SplitKeys(n, c.up[2]), r)
      chosen == {k \in 0 .. (Len(one) - 1) : c.second[one[k + 1]] = c.second[r]}
      all == <<world, one, two, Duplicate(two), Create(one, SetToSortSeq(chosen, >))>>
  IN  [i \in DOMAIN all |-> all[c.order[r][i]]]

\* Bounds: two to four ranks, two colors, keys that keep or turn round the order; three
\* orders in which a rank gives the communicators to the tool kit, of which the last
\* three of four ranks have the same.
Orders == {<<1, 2, 3, 4, 5>>, <<5, 4, 3, 2, 1>>, <<3, 1, 5, 2, 4>>}

MakeComms ==
  /\ call = None
  /\ \E n \in 2 .. 4, up \in [1 .. 2 -> BOOLEAN], nested \in BOOLEAN :
       \E first, second \in [0 .. (n - 1) -> 0 .. 1], order \in [0 .. (n - 1) -> Orders] :
         /\ n = 4 => order[2] = order[1] /\ order[3] = order[1]
         /\ call' = [kind |-> "ids", first |-> first, second |-> second, up |-> up, nested |-> nested, order |-> order]

\* Of all communicators on all ranks, two with one id have the same members.  Two
\* with the same members have one id on one rank, whatever order their ranks have and
\* in whatever order they are set, and on two ranks that first saw those members in the
\* same order.  What a rank finds again under the id of a communicator has the
\* members of that communicator.
\* (Ranks that first saw the same members in different orders give them different ids,
\* because the id is made from the rank's own first list: MPICommunicator.cpp:263-288.)
IdsIdentify ==
  call.kind = "ids" =>
    LET ranks == DOMAIN call.first
        n == Cardinality(ranks)
        Known(r, i) ==
          LET groups == Made(call, r)
              alike == SelectSeq(groups, LAMBDA g : Members(g) = Members(groups[i]))
          IN  [rank |-> r, id |-> SetAll(groups, r, n).ids[i], members |-> Members(groups[i]),
               found |-> Custom(groups, r, n, i), first |-> alike[1]]
        known == {Known(r, i) : r \in ranks, i \in 1 .. 5}
    IN  \A x \in known :
          /\ Members(x.found) = x.members
          /\ \A y \in known :
               /\ x.id = y.id => x.members = y.members
               /\ x.members = y.members /\ (x.rank = y.rank \/ x.first = y.first) => x.id = y.id

-----------------------------------------------------------------------------
(* Values sent.                                                            *)

\* Bounds: values of one or two words, vectors of up to three, three ranks.
Sizes == [double |-> 1, pair |-> 2]
SomeData == UNION {[1 .. n -> 1 .. 2] : n \in 1 .. 3}

SendData ==
  /\ call = None
  /\ \E type \in DOMAIN Sizes, data \in SomeData :
       call' = [kind |-> "send", type |-> type, data |-> data]

Collect ==
  /\ call = None
  /\ \E type \in DOMAIN Sizes, S \in 1 .. 3, n \in 1 .. 2, root \in 0 .. 2 :
       /\ root < S
       /\ \E data \in [0 .. (S - 1) -> [1 .. (n * S) -> 1 .. 2]] :
            /\ S = 3 => n = 1
            /\ call' = [kind |-> "collective", type |-> type, n |-> n, root |-> root, data |-> data]

\* Typed values arrive as they were sent: by Recv with and without the type and,
\* for a single element, by IRecv and unpack; AllToAll delivers block r of every rank
\* to rank r; BroadCast the root's data to every rank that has as much; Gather the
\* data of the ranks in their order, as far as it looks; Scatter block r to rank r
\* when the root has data to spare.
ReceivedAsSent ==
  /\ call.kind = "send" =>
       LET W == Sizes[call.type]
           message == SendBuffer(call.data, call.type, W)
       IN  /\ RecvCount(message, Len(call.data), W) = call.data
           /\ RecvAny(message, Sizes) = call.data
           /\ IRecvUnpack(message, 1, W) = <<call.data[1]>>
  /\ call.kind = "collective" =>
       LET W == Sizes[call.type]
           S == Cardinality(DOMAIN call.data)
           n == call.n
           all == FlattenSeq([i \in 1 .. S |-> call.data[i - 1]])
           Part(r, s, k) == SubSeq(call.data[s], r * k + 1, (r + 1) * k)
       IN  \A r \in DOMAIN call.data :
             /\ AllToAll(call.data, S, r, n, W) = FlattenSeq([i \in 1 .. S |-> Part(r, i - 1, n)])
             /\ BroadCast(call.data, call.root, r, n, W) = Part(0, call.root, n)
             /\ \A i \in 1 .. Len(Gather(call.data, S, W)) : i <= Len(all) => Gather(call.data, S, W)[i] = all[i]
             /\ n > 1 => Scatter(call.data, S, call.root, r, n - 1, W) = Part(r, call.root, n - 1)

-----------------------------------------------------------------------------
(* Reductions.                                                             *)

ReduceData ==
  /\ call = None
  /\ \E reducer \in Reducers \ {"sqrsum"}, S \in 1 .. 3, n \in 1 .. 2 :
       \E data \in [0 .. (S - 1) -> [1 .. n -> -1 .. 2]] :
         /\ S = 3 => \A r \in 0 .. 2 : data[r][1] <= data[r][n]
         /\ call' = [kind |-> "reduce", reducer |-> reducer, data |-> data]

\* What the reducer makes of a set of numbers with their places.
Total(reducer, places, v(_)) ==
  CASE reducer = "sum" -> FoldSet(LAMBDA p, t : t + v(p), 0, places)
    [] reducer = "prod" -> FoldSet(LAMBDA p, t : t * v(p), 1, places)
    [] reducer = "min" -> Min({v(p) : p \in places})
    [] reducer = "max" -> Max({v(p) : p \in places})

\* A reduction gives one result whatever tree MPI reduces along and whichever rank it
\* takes first, and it is the sum, product, least or greatest of all values that were
\* passed: of the whole distributed vector, or of each element across the ranks.
ReductionIsOfAll ==
  call.kind = "reduce" =>
    LET ranks == DOMAIN call.data
        n == Len(call.data[0])
        V(p) == call.data[p[1]][p[2]]
    IN  /\ ReduceVector(call.data, call.reducer) = {Total(call.reducer, ranks \X (1 .. n), V)}
        /\ \A e \in 1 .. n :
             ReduceMultiple(call.data, e, call.reducer) = {Total(call.reducer, ranks \X {e}, V)}

-----------------------------------------------------------------------------
(* Global arrays.                                                          *)

\* Element k of rank r.
Tag(r, k) == 10 * (r + 1) + k
Tags(r, n) == [k \in 1 .. n |-> Tag(r, k)]

PutOne ==
  /\ call = None
  /\ \E S \in 1 .. 3, n \in 0 .. 2, rank \in -1 .. 2 :
       /\ rank < S
       /\ call' = [kind |-> "put", how |-> "rank", S |-> S, n |-> n, rank |-> rank]

PutRow ==
  /\ call = None
  /\ \E S \in 1 .. 4, n \in 0 .. 3 : call' = [kind |-> "put", how |-> "vector", S |-> S, n |-> n]

\* Blocks of one row, or one column of blocks.
PutBlocks ==
  /\ call = None
  /\ \E x \in 1 .. 3, y \in 1 .. 3, cols \in 1 .. 4, rows \in 1 .. 3 :
       /\ x = 1 \/ cols = 1
       /\ call' = [kind |-> "put", how |-> "matrix", S |-> rows * cols, x |-> x, y |-> y, cols |-> cols]

\* The array is cut across each dimension; a rank has one box of the grid.
Cuts(n) == {<<n>>} \cup {<<i, n - i>> : i \in 0 .. n}

PutBoxes ==
  /\ call = None
  /\ \E gsizes \in {<<3, 2>>, <<2, 3>>, <<2, 2, 2>>, <<1, 3, 2>>} :
       \E cut \in [1 .. Len(gsizes) -> Cuts(1) \cup Cuts(2) \cup Cuts(3)] :
         /\ \A d \in DOMAIN gsizes : cut[d] \in Cuts(gsizes[d])
         /\ call' = [kind |-> "put", how |-> "array", gsizes |-> gsizes, cut |-> cut]

\* Elements of a data type with up to two parameters, one of them not given.
PutShapes ==
  /\ call = None
  /\ \E P \in SUBSET {"a", "b"}, dims \in 0 .. 2, count \in 1 .. 2, n \in 1 .. 2 :
       /\ dims = 0 => count = 1
       /\ call' = [kind |-> "shape", params |-> [p \in P |-> [dims |-> dims, count |-> count]],
                   array |-> [i \in 1 .. (n + 1) |-> IF i <= n THEN i ELSE NullData]]

\* The box of rank r, ranks counting along the last dimension first.
BoxOf(cut, r) ==
  [d \in DOMAIN cut |->
     1 + ((r \div Product([k \in 1 .. (Len(cut) - d) |-> Len(cut[d + k])])) % Len(cut[d]))]

BlockOf(c, r) ==
  CASE c.how = "rank" -> PutRank(c.n, c.rank, r, Tags(r, c.n))
    [] c.how = "vector" -> PutVector(c.n, c.S, r, Tags(r, c.n))
    [] c.how = "matrix" -> PutMatrix(c.x, c.y, c.y * c.cols, c.S, r, Tags(r, c.x * c.y))
    [] c.how = "array" ->
         LET box == BoxOf(c.cut, r)
             sizes == [d \in DOMAIN box |-> c.cut[d][box[d]]]
             offsets == [d \in DOMAIN box |-> IF box[d] = 1 THEN 0 ELSE c.cut[d][1]]
         IN  PutArray(c.gsizes, sizes, offsets, Tags(r, Product(sizes)))

RanksOf(c) == IF c.how = "array" THEN Product([d \in DOMAIN c.cut |-> Len(c.cut[d])]) ELSE c.S

\* The coordinates of place p of an array, and the place of coordinates.
Coordinates(p, sizes) ==
  [d \in DOMAIN sizes |-> (p \div Product(SubSeq(sizes, d + 1, Len(sizes)))) % sizes[d]]

\* Where element k of rank r belongs.
Belongs(c, r, k) ==
  CASE c.how = "rank" -> <<k - 1>>
    [] c.how = "vector" -> <<r * c.n + k - 1>>
    [] c.how = "matrix" ->
         <<((r \div c.cols) * c.x) + ((k - 1) \div c.y), ((r % c.cols) * c.y) + ((k - 1) % c.y)>>
    [] c.how = "array" ->
         LET b == BlockOf(c, r)
             at == Coordinates(k - 1, b.sizes)
         IN  [d \in DOMAIN at |-> at[d] + b.offsets[d]]

\* Every element a rank puts is in the written array exactly where it belongs, and
\* nothing else is.  Of an element with several parameters, or one of two dimensions,
\* the node has every value of every parameter.
ElementsAreInPlace ==
  /\ call.kind = "shape" =>
       LET node == NodeChildren(call.params, call.array)
           Values(i) == UNION {ToSet(c.value) : c \in node[i]}
           all == {<<p, k>> : p \in DOMAIN call.params, k \in 1 .. 2}
       IN  (Cardinality(DOMAIN call.params) = 2 \/ \E p \in DOMAIN call.params : call.params[p].dims = 2) =>
             \A i \in DOMAIN node : call.array[i] # NullData =>
               Values(i) = {<<call.array[i], e[1], e[2]>> : e \in {d \in all : d[2] <= call.params[d[1]].count}}
  /\ call.kind = "put" =>
       LET S == RanksOf(call)
           blocks == [r \in 0 .. (S - 1) |-> BlockOf(call, r)]
           array == PutGlobalArray(blocks, S, "double")
           gsizes == blocks[EngineRoot].gsizes
       IN  /\ array # Wild
           /\ \A p \in DOMAIN array : \A r \in 0 .. (S - 1) : \A k \in DOMAIN blocks[r].data :
                (array[p] = Tag(r, k)) <=> Belongs(call, r, k) = Coordinates(p - 1, gsizes)
           /\ \A r \in 0 .. (S - 1) : \A k \in DOMAIN blocks[r].data :
                \E p \in DOMAIN array : array[p] = Tag(r, k)

-----------------------------------------------------------------------------
(* Schemas.                                                                *)

\* "z" has one character of two bytes, "ab" two of one byte.
MCBytes == [a |-> <<97>>, b |-> <<98>>, ab |-> <<97, 98>>, z |-> <<195, 164>>, none |-> << >>]
MCFound == [hasA |-> {"a", "ab"}, hasB |-> {"b", "ab"}]

Nil == [t |-> "null"]
Bool(b) == [t |-> "boolean", v |-> b]
Whole(n) == [t |-> "integer", v |-> 2 * n]
Half(n) == [t |-> "number", v |-> n]
Arr(items) == [t |-> "array", v |-> items]
Obj(f) == [t |-> "object", v |-> f]

Instances ==
  << Nil, Bool(TRUE), Whole(0), Whole(1), Whole(2), Whole(-3), Half(1), Half(2), Half(3),
     Str("a"), Str("b"), Str("ab"), Str("z"), Str("none"),
     Arr(<< >>), Arr(<<Whole(1)>>), Arr(<<Whole(1), Half(2)>>), Arr(<<Str("a"), Whole(1), Nil>>),
     Obj(<< >>), Obj([a |-> Whole(1)]), Obj([b |-> Whole(2)]), Obj([a |-> Str("a"), ab |-> Nil]),
     Obj([a |-> Arr(<< >>), b |-> Nil, z |-> Whole(0)]) >>

OfType(types) == [type |-> types]
Ref(to) == [ref |-> <<"", to>>]
Never == [always |-> FALSE]

\* Schemas of one keyword, or of keywords that belong together.
Atoms ==
  << [always |-> TRUE], Never, << >>,
     OfType({"null"}), OfType({"integer"}), OfType({"number"}), OfType({"string", "array"}), OfType({"object", "boolean"}),
     [maximum |-> 2], [minimum |-> 2], [exclusiveMaximum |-> 2], [exclusiveMinimum |-> 0], [multipleOf |-> 2],
     [type |-> {"number"}, maximum |-> 1], [type |-> {"number"}, exclusiveMinimum |-> 1, multipleOf |-> 1],
     [maxLength |-> 1], [minLength |-> 1], [pattern |-> "hasA"],
     [enum |-> <<Nil, Half(2), Arr(<<Whole(1), Whole(1)>>)>>], [const |-> Obj([a |-> Half(2)])],
     [maxProperties |-> 1], [minProperties |-> 1], [required |-> {"a"}],
     [maxItems |-> 1], [minItems |-> 1], [uniqueItems |-> TRUE], [uniqueItems |-> FALSE] >>

Small == << Never, OfType({"integer"}), OfType({"number", "string"}), [minimum |-> 2], [required |-> {"b"}], [maxLength |-> 1] >>

\* Schemas with schemas p, q and c in them.
Around(p, q, c) ==
  << [properties |-> [a |-> p], additionalProperties |-> q, required |-> {"a"}],
     [properties |-> [b |-> p], patternProperties |-> [hasA |-> q, hasB |-> c], additionalProperties |-> Never],
     [propertyNames |-> p, dependencies |-> [a |-> q, b |-> [names |-> {"z"}]]],
     [items |-> p, contains |-> q],
     [items |-> [tuple |-> <<p, q>>], additionalItems |-> c],
     [items |-> [tuple |-> <<p>>], contains |-> c],
     [type |-> {"array", "string"}, additionalItems |-> Never, items |-> q],
     [allOf |-> <<p, q>>, not |-> c], [anyOf |-> <<p, q, c>>], [oneOf |-> <<p, q, c>>],
     [if |-> p, then |-> q, else |-> c], [if |-> p, else |-> q, then |-> Never], [else |-> p, const |-> Nil], [if |-> p],
     \* references to what has been read, what is read later, what nobody reads, and to references
     [definitions |-> [x |-> p, y |-> Ref(<<"definitions", "x">>)],
      properties |-> [a |-> Ref(<<"definitions", "y">>), b |-> q]],
     [anyOf |-> <<Ref(<<"properties", "b">>), p>>, properties |-> [b |-> q]],
     [allOf |-> <<Ref(<<"mine">>), Ref(<<"mine">>)>>, mine |-> p],
     [type |-> {"integer", "string", "number"}, not |-> Ref(<<"properties">>), properties |-> p],
     [definitions |-> [x |-> [items |-> Ref(<< >>), not |-> p]], oneOf |-> <<Ref(<<"definitions", "x">>), q>>,
      properties |-> [a |-> Ref(<< >>)]],
     [definitions |-> [x |-> [ref |-> <<"", <<"definitions", "y">>>>, mine |-> p], y |-> Ref(<<"definitions", "x", "mine">>)],
      anyOf |-> <<Ref(<<"definitions", "x">>), q>>],
     [id |-> <<"here", << >>>>, definitions |-> [x |-> p], not |-> [ref |-> <<"here", <<"definitions", "x">>>>]] >>

\* Two bounds on one side, of which the validator keeps one.
TwoBounds(D) == {"maximum", "exclusiveMaximum"} \subseteq D \/ {"minimum", "exclusiveMinimum"} \subseteq D

CheckConfig ==
  /\ call = None
  /\ \/ \E i, j \in DOMAIN Atoms :
          /\ DOMAIN Atoms[i] \cap DOMAIN Atoms[j] = {}
          /\ "always" \notin DOMAIN Atoms[i] \cup DOMAIN Atoms[j]
          /\ ~TwoBounds(DOMAIN Atoms[i] \cup DOMAIN Atoms[j])
          /\ call' = [kind |-> "schema", schema |-> Atoms[i] @@ Atoms[j]]
     \/ \E i \in DOMAIN Atoms : call' = [kind |-> "schema", schema |-> Atoms[i]]
     \/ \E i, j, k \in DOMAIN Small : \E n \in DOMAIN Around(Never, Never, Never) :
          call' = [kind |-> "schema", schema |-> Around(Small[i], Small[j], Small[k])[n]]

RECURSIVE SchemaAt(_, _)
SchemaAt(s, pointer) ==
  IF pointer = << >> THEN s
  ELSE IF Head(pointer) \in {"allOf", "anyOf", "oneOf"} THEN Never  \* the inputs do not point there
  ELSE SchemaAt(s[Head(pointer)], Tail(pointer))

\* A number like 1.0, and an instance that has one in it.
IsWholeFloat(x) == x.t = "number" /\ x.v % 2 = 0

HasWholeFloat(x) == IsWholeFloat(x) \/ (x.t \in {"array", "object"} /\ \E k \in DOMAIN x.v : IsWholeFloat(x.v[k]))

\* What the standard (draft 7) says: every keyword is an assertion of its own, about
\* the instances it is for; `type` is another one.  1.0 is an integer: `floats` says
\* whether it is taken for one.
RECURSIVE Conforms(_, _, _, _)
Conforms(root, s, x, floats) ==
  LET Holds(sub, y) == Conforms(root, sub, y, floats)
      Matching(k) == {p \in DOMAIN MCFound : "patternProperties" \in DOMAIN s
                                               /\ p \in DOMAIN s.patternProperties /\ k \in MCFound[p]}
      Named(k) == "properties" \in DOMAIN s /\ k \in DOMAIN s.properties
      Of(k) == CASE k \in NumericKeywords -> {"integer", "number"}
                 [] k \in StringKeywords -> {"string"}
                 [] k \in ObjectKeywords -> {"object"}
                 [] k \in ArrayKeywords \cup {"additionalItems"} -> {"array"}
                 [] OTHER -> AllTypes
      Assertion(k) ==
        CASE k = "type" -> \/ x.t \in s.type
                           \/ x.t = "integer" /\ "number" \in s.type
                           \/ IsWholeFloat(x) /\ floats /\ "integer" \in s.type
          [] k = "enum" -> \E i \in DOMAIN s.enum : Equal(x, s.enum[i])
          [] k = "const" -> Equal(x, s.const)
          [] k = "maximum" -> x.v <= s.maximum
          [] k = "minimum" -> x.v >= s.minimum
          [] k = "exclusiveMaximum" -> x.v < s.exclusiveMaximum
          [] k = "exclusiveMinimum" -> x.v > s.exclusiveMinimum
          [] k = "multipleOf" -> \E n \in -10 .. 10 : x.v = n * s.multipleOf
          [] k = "maxLength" -> Utf8Length(x.v) <= s.maxLength
          [] k = "minLength" -> Utf8Length(x.v) >= s.minLength
          [] k = "pattern" -> x.v \in MCFound[s.pattern]
          [] k = "maxProperties" -> Cardinality(DOMAIN x.v) <= s.maxProperties
          [] k = "minProperties" -> Cardinality(DOMAIN x.v) >= s.minProperties
          [] k = "required" -> s.required \subseteq DOMAIN x.v
          [] k = "properties" -> \A n \in DOMAIN x.v : Named(n) => Holds(s.properties[n], x.v[n])
          [] k = "patternProperties" -> \A n \in DOMAIN x.v : \A p \in Matching(n) : Holds(s.patternProperties[p], x.v[n])
          [] k = "additionalProperties" ->
               \A n \in DOMAIN x.v : Named(n) \/ Matching(n) # {} \/ Holds(s.additionalProperties, x.v[n])
          [] k = "propertyNames" -> \A n \in DOMAIN x.v : Holds(s.propertyNames, Str(n))
          [] k = "dependencies" ->
               \A n \in DOMAIN s.dependencies \cap DOMAIN x.v :
                 IF "names" \in DOMAIN s.dependencies[n] THEN s.dependencies[n].names \subseteq DOMAIN x.v
                 ELSE Holds(s.dependencies[n], x)
          [] k = "maxItems" -> Len(x.v) <= s.maxItems
          [] k = "minItems" -> Len(x.v) >= s.minItems
          [] k = "uniqueItems" -> s.uniqueItems => \A i, j \in DOMAIN x.v : Equal(x.v[i], x.v[j]) => i = j
          [] k = "items" ->
               \A i \in DOMAIN x.v :
                 IF ~IsTuple(s) THEN Holds(s.items, x.v[i])
                 ELSE i <= Len(s.items.tuple) => Holds(s.items.tuple[i], x.v[i])
          [] k = "additionalItems" ->
               IsTuple(s) => \A i \in DOMAIN x.v : i > Len(s.items.tuple) => Holds(s.additionalItems, x.v[i])
          [] k = "contains" -> \E i \in DOMAIN x.v : Holds(s.contains, x.v[i])
          [] k = "not" -> ~Holds(s.not, x)
          [] k = "allOf" -> \A i \in DOMAIN s.allOf : Holds(s.allOf[i], x)
          [] k = "anyOf" -> \E i \in DOMAIN s.anyOf : Holds(s.anyOf[i], x)
          [] k = "oneOf" -> \E i \in DOMAIN s.oneOf : \A j \in DOMAIN s.oneOf : Holds(s.oneOf[j], x) <=> i = j
          [] k = "then" -> "if" \in DOMAIN s /\ Holds(s.if, x) => Holds(s.then, x)
          [] k = "else" -> "if" \in DOMAIN s /\ ~Holds(s.if, x) => Holds(s.else, x)
          [] OTHER -> TRUE
  IN  IF IsBoolean(s) THEN s.always
      ELSE IF "ref" \in DOMAIN s THEN Holds(SchemaAt(root, s.ref[2]), x)
      ELSE \A k \in DOMAIN s : x.t \in Of(k) => Assertion(k)

\* The validator accepts what the standard says the schema describes: whatever types
\* the schema lists, whichever of two keywords is looked at first, and wherever a
\* reference leads: back, ahead, to itself, or to a keyword the validator does not know.
\* (The standard takes 1.0 for an integer.  The validator does not, because it goes by
\* how the number was written: json-validator.cpp:360-365, 450-457.  An instance with
\* such a number is accepted if it is what the schema describes with that difference.)
AcceptsWhatSchemaSays ==
  call.kind = "schema" =>
    /\ SetRootSchema(call.schema).ok
    /\ \A i \in DOMAIN Instances :
         LET x == Instances[i]
         IN  Validate(SetRootSchema(call.schema), RootUri, x)
               <=> Conforms(call.schema, call.schema, x, ~HasWholeFloat(x))

-----------------------------------------------------------------------------
(* Input files.                                                            *)

\* Package pkg has an option dim; of lib every option is an object.
Registry ==
  [points |-> {"p", "r"}, tests |-> [t |-> {"empty", "good"}, u |-> {"empty"}],
   samplers |-> [skip |-> "text"], actions |-> [act |-> {"good"}],
   options |-> [pkg |-> [properties |-> [dim |-> OfType({"integer"})]],
                lib |-> [additionalProperties |-> OfType({"object"})]]]

\* Sections that both packages accept as a whole, that one of them refuses, and that
\* both refuse; the third would be refused if pkg were given its own object.
OptionSections ==
  << Obj(<< >>), Obj([pkg |-> Obj([dim |-> Whole(2)])]), Obj([pkg |-> Obj([dim |-> Str("a")])]),
     Obj([dim |-> Whole(2)]), Obj([dim |-> Obj(<< >>)]), Obj([pkg |-> Obj(<< >>), dim |-> Str("a")]) >>

Scoped(s, more) == IF s = {"any"} THEN more ELSE [runScope |-> s] @@ more

\* Bounds: a point with up to three tests, one of them not registered, and a second
\* point, of which scopes s1 and s2 may select some.
TestSections ==
  {<< >>, [t |-> << >>], [t |-> [runScope |-> {"s1"}, config |-> "good"], x |-> [runScope |-> {"s1"}]],
   [t |-> [runScope |-> {"s2"}, config |-> "bad"], u |-> [runScope |-> {"s1", "s2"}]], [u |-> [config |-> "bad"]]}

Arguments ==
  {<< >>, <<[text |-> "--vnv-on", option |-> "on"]>>,
   <<[text |-> "--vnv/runTests=true", pointer |-> "runTests", value |-> TRUE, start |-> "true"]>>,
   <<[text |-> "--vnv-plugin", option |-> "plugin"], [text |-> "--vnv-on", option |-> "on"], [text |-> "lib"]>>}

ReadConfig ==
  /\ call = None
  /\ \E tests, others, all \in TestSections, runAll \in BOOLEAN, internal \in {{}, {TRUE}, {FALSE}},
        scope \in {{"any"}, {"s1"}, {"s2"}}, scopes \in {{}, {"s1"}, {"s1", "s2"}} :
       LET p == Scoped(scope, [tests |-> tests, sampler |-> [name |-> "skip", config |-> Obj(<< >>)]]
                              @@ IF internal = {} THEN << >> ELSE [runInternal |-> TRUE \in internal])
           q == Scoped({"s1"}, [tests |-> others])
       IN  \/ call' = [kind |-> "config", env |-> "0", args |-> << >>,
                       file |-> [runTests |-> TRUE, runScopes |-> scopes, actions |-> [act |-> "good", gone |-> "good"],
                                 injectionPoints |-> [p |-> p, q |-> q, runAll |-> runAll, runAll_tests |-> all]]]
           \/ /\ others = << >> /\ all = << >> /\ ~runAll
              /\ \E args \in Arguments, env \in {"0", "1"}, o \in DOMAIN OptionSections, on \in BOOLEAN :
                   call' = [kind |-> "config", env |-> env, args |-> args,
                            file |-> [runTests |-> on, runScopes |-> scopes, options |-> OptionSections[o],
                                      injectionPoints |-> [p |-> p], actions |-> [act |-> "bad"]]]

\* c is what file, args and env select.
IsSelected(file, args, env, c) ==
  LET section == file.injectionPoints
      scopes == file.runScopes
      Selected(x) == scopes = {} \/ \E s \in scopes : "runScope" \in DOMAIN x /\ s \in x.runScope
      Chosen(tests) == {t \in DOMAIN tests : Selected(tests[t])}
      Good(tests) ==
        {t \in Chosen(tests) : \/ t = "t" /\ ("config" \in DOMAIN tests[t] => tests[t].config = "good")
                               \/ t = "u" /\ "config" \notin DOMAIN tests[t]}
      Declared ==
        {k \in {"p", "q"} \cap DOMAIN section :
           /\ Selected(section[k])
           /\ Chosen(section[k].tests) # {} \/ "runInternal" \notin DOMAIN section[k] \/ section[k].runInternal}
      all == "runAll" \in DOMAIN section /\ section.runAll
      options == Value(file, "options", Obj(<< >>))
      refused == \E p \in DOMAIN Registry.options : ~Conforms(Registry.options[p], Registry.options[p], options, TRUE)
      actions == {a \in DOMAIN file.actions : a = "act" /\ file.actions[a] = "good"}
      Keys(tests) == {tests[i].key : i \in DOMAIN tests}
  IN  /\ c.runTests <=> \/ file.runTests \/ env = "1"
                        \/ \E i \in DOMAIN args : args[i].text = "--vnv-on"
      /\ c.status = 0 <=> ~(c.runTests /\ refused)
      /\ ~c.runTests \/ refused => c.points = << >> /\ c.actions = << >>
      /\ c.runTests /\ ~refused =>
           /\ DOMAIN c.points = Declared \cup IF all THEN Registry.points ELSE {}
           /\ \A k \in DOMAIN c.points :
                /\ Keys(c.points[k].tests) = Good(IF k \in Declared THEN section[k].tests ELSE section.runAll_tests)
                /\ Len(c.points[k].tests) = Cardinality(Keys(c.points[k].tests))
           /\ Keys(c.actions) = actions /\ Len(c.actions) = Cardinality(actions)

\* Exactly what the input file selects will run.  A point is turned on when a scope
\* of its own is selected and it has something to run; its tests are those of its
\* tests that are selected in the same way, are registered and configured as their
\* schema says, each once.  runAll adds the registered points the file does not turn
\* on.  The whole run time is on if the file, the command line or the environment says
\* so; if it is off, or a package refuses the options, nothing is turned on.
\* (In two points this is the code's rule and not the manual's.  When the file selects
\* no scope everything is selected, as JsonParser.h:327 has it, where
\* injectionpoints.rst:457, 484 and 657 have nothing run that is in no selected scope.
\* And every package is asked about the options of all packages together,
\* OptionsParserStore.cpp:83-88, where injectionpoints.rst:342 and 539 give each its own.)
ConfigurationIsSelected ==
  call.kind = "config" =>
    IsSelected(call.file, call.args, call.env, Configure(Parse(call.file, call.args), call.env, Registry))

-----------------------------------------------------------------------------
(* What the registration tool reads.                                       *)

MacroToken(t, key, type, inner) == [t |-> t, key |-> key, type |-> type, inner |-> inner]

Plain == {[t |-> "space"], [t |-> "text"], [t |-> "include"], [t |-> "doc"]}
Macros ==
  {MacroToken("define", "point", "InjectionPoints", NoDoc), MacroToken("define", "point", "InjectionPoints", 1),
   MacroToken("define", "test", "UnitTests", NoDoc), MacroToken("define", "flow", "Workflows", NoDoc),
   MacroToken("assert", "same", "none", NoDoc), MacroToken("assert", "same", "none", 1),
   MacroToken("job", "build", "none", NoDoc),
   MacroToken("block", "code", "start", NoDoc), MacroToken("block", "code", "end", 1)}

\* Each comment has its own number.
Numbered(source) ==
  [i \in DOMAIN source |->
     CASE source[i].t = "doc" -> [t |-> "doc", doc |-> 10 * i]
       [] "inner" \in DOMAIN source[i] -> [source[i] EXCEPT !.inner = IF @ = NoDoc THEN NoDoc ELSE 10 * i + 1]
       [] OTHER -> source[i]]

\* Bounds: up to three tokens after the header of the tool kit, or three tokens of which
\* some are the header; or a macro, a comment and three tokens after it.
Included == [t |-> "included"]
Sources ==
  LET Tokens(n) == UNION {[1 .. k -> Plain \cup Macros] : k \in 1 .. n}
  IN  {<<Included>> \o x : x \in Tokens(3)}
      \cup {x \in [1 .. 3 -> Plain \cup Macros \cup {Included}] : \E i \in 1 .. 3 : x[i] = Included}
      \cup {<<Included, d, m, [t |-> "doc"]>> \o x :
              d \in {[t |-> "doc"], [t |-> "text"]}, m \in {a \in Macros : a.t \in {"define", "assert"} /\ a.inner = NoDoc},
              x \in [1 .. 3 -> (Plain \cup Macros) \ {[t |-> "include"]}]}

ReadSource ==
  /\ call = None
  /\ \E x \in Sources : call' = [kind |-> "source", source |-> Numbered(x)]

Line(t) == [t |-> t]
FortranKinds ==
  {Line("comment"), Line("param"), Line("run"), Line("text"), Line("subpackage")}
  \cup {[t |-> "options", key |-> "schema", valid |-> v] : v \in BOOLEAN}
  \cup {[t |-> "initialize", key |-> "intro"], [t |-> "loop", key |-> "loop"], [t |-> "file", key |-> "file"]}

\* Bound: three or four lines, and a comment before them.
ReadFortran ==
  /\ call = None
  /\ \E x \in UNION {[1 .. k -> FortranKinds] : k \in 3 .. 4} :
       \E first \in {<< >>, <<Line("comment")>>} :
         call' = [kind |-> "fortran", lines |-> [i \in 1 .. Len(first \o x) |->
                    IF (first \o x)[i].t = "comment" THEN [t |-> "comment", doc |-> i] ELSE (first \o x)[i]]]

CommentLines ==
  {[tag |-> t, name |-> "none", empty |-> e] : t \in {"title", "description"}, e \in BOOLEAN}
  \cup {[tag |-> "param", name |-> n, empty |-> FALSE] : n \in {"x", "y"}}
  \cup {[tag |-> "text", name |-> "none", empty |-> FALSE], [tag |-> "blank", name |-> "none", empty |-> TRUE]}

\* Bound: four lines.
ReadComment ==
  /\ call = None
  /\ \E x \in [1 .. 4 -> CommentLines] : call' = [kind |-> "comment", lines |-> x]

\* The last number of a set, or 0.
LastOf(S) == Max(S \cup {0})

InjectionMacro(x) == x.t \in {"define", "block", "job"}

\* The comment that stands before macro i with nothing but white space in between.
DocBefore(source, i) ==
  LET on == Min({j \in DOMAIN source : source[j] = Included})
      j == LastOf({k \in 1 .. (i - 1) : source[k].t # "space"})
  IN  IF j > on /\ source[j].t = "doc" THEN source[j].doc ELSE NoDoc

\* A C or C++ source: everything that is registered has the comment that stands right
\* before its last macro, never one that belongs to something else, to another file or
\* to an argument; an assertion belongs to the unit test, and a job to the workflow,
\* that the last macro of the tool kit before it defines, and a test keeps the comments
\* of all its assertions of a name; a code block is what its last start and end enclose.
SourceDocs(source) ==
  LET s == ExecuteAction(source)
      on == {j \in DOMAIN source : source[j] = Included}
      Read == {j \in DOMAIN source : \E k \in on : k < j}
      Defines(k) == {j \in Read : source[j].t = "define" /\ source[j].key = k}
      Belong(t, i) ==
        {j \in Read : /\ j > i /\ source[j].t = t
                      /\ \A k \in (i + 1) .. (j - 1) : InjectionMacro(source[k]) => source[k].t = t}
      ends == {j \in Read : source[j].t = "block" /\ source[j].type = "end"}
      starts == {j \in Read : source[j].t = "block" /\ source[j].type = "start"}
  IN  /\ s.thrown <=> \E j \in ends : \A k \in starts : k > j
      /\ ~s.thrown =>
           /\ DOMAIN s.defs = {k \in {"point", "test", "flow"} : Defines(k) # {}}
           /\ \A k \in DOMAIN s.defs : s.defs[k].docs = DocBefore(source, LastOf(Defines(k)))
           /\ "test" \in DOMAIN s.defs =>
                LET asserts == Belong("assert", LastOf(Defines("test")))
                IN  s.defs["test"].subs =
                      IF asserts = {} THEN << >>
                      ELSE [same |-> [n \in 1 .. Cardinality(asserts) |-> DocBefore(source, SetToSortSeq(asserts, <)[n])]]
           /\ "flow" \in DOMAIN s.defs =>
                LET jobs == Belong("job", LastOf(Defines("flow")))
                IN  s.defs["flow"].subs = IF jobs = {} THEN << >> ELSE [build |-> <<DocBefore(source, LastOf(jobs))>>]
           /\ ends # {} =>
                LET e == LastOf(ends) IN s.blocks["code"].code = <<LastOf({k \in starts : k < e}), e>>

\* A Fortran source: a call that is read registers what it names with the comments right
\* before it.  Lines of a loop up to its run, and lines of a schema, are not read;
\* the comments before a schema that is no JSON go to what comes after it.
FortranDocs(lines) ==
  LET defs == RunFortranPreprocessor(lines)
      Marks == {"comment", "options", "subpackage"}
      \* the block of lines with "!" before line i
      Above(i) == {j \in 1 .. (i - 1) : \A k \in j .. (i - 1) : lines[k].t \in Marks}
      Schema(i) == {j \in Above(i) : lines[j].t = "options"}
      Open(i) ==
        \E j \in 1 .. (i - 1) : lines[j].t = "loop" /\ \A k \in (j + 1) .. (i - 1) : lines[k].t # "run"
      Names(i) == lines[i].t \in {"initialize", "loop", "file"} \/ (lines[i].t = "options" /\ lines[i].valid)
      read == {i \in DOMAIN lines : Names(i) /\ ~Open(i) /\ (lines[i].t = "options" => Schema(i) = {})}
      Right(i) == LET before == IF Schema(i) = {} THEN Above(i) ELSE {j \in Above(i) : j < Min(Schema(i))}
                      sub == LastOf({j \in before : lines[j].t = "subpackage"})
                  IN  IF \E j \in Schema(i) : j = Min(Schema(i)) /\ lines[j].valid THEN {} ELSE {j \in before : j > sub}
  IN  /\ DOMAIN defs = {lines[i].key : i \in read}
      /\ \A k \in DOMAIN defs :
           defs[k] = SetToSortSeq(Right(LastOf({i \in read : lines[i].key = k})), <)

\* A comment: each of its lines that says something is in one part, or in the template,
\* or in a part that a later line of its name replaces; a part goes on up to a blank
\* line or the next part, and a tag starts one part only.
CommentParts(lines) ==
  LET c == ProcessComment(lines)
      Of(p) == ToSet(c.parts[p])
      Tagged(i) == lines[i].tag \in {"title", "description", "param"}
      Name(i) == IF lines[i].tag = "param" THEN lines[i].name ELSE lines[i].tag
  IN  /\ \A i \in DOMAIN lines :
           \/ lines[i].empty /\ Tagged(i)
           \/ i \in ToSet(c.templ) /\ \A p \in DOMAIN c.parts : i \notin Of(p)
           \/ i \notin ToSet(c.templ) /\ Cardinality({p \in DOMAIN c.parts : i \in Of(p)}) = 1
           \/ \E j \in DOMAIN lines : \E h \in 1 .. i : j > i /\ Tagged(j) /\ Tagged(h) /\ Name(j) = Name(h)
      /\ \A p \in DOMAIN c.parts :
           LET part == c.parts[p]
           IN  part # << >> =>
                 /\ \A k \in DOMAIN part : part[k] = part[1] + k - 1 /\ lines[part[k]].tag # "blank"
                 /\ \/ Tagged(part[1]) /\ Name(part[1]) = p
                    \/ part[1] > 1 /\ Tagged(part[1] - 1) /\ Name(part[1] - 1) = p /\ lines[part[1] - 1].empty
                 /\ LET next == Last(part) + 1
                    IN  next \in DOMAIN lines => lines[next].tag = "blank" \/ (Tagged(next) /\ next \notin ToSet(c.templ))

\* What the registration tool writes has the documentation that stands next to it in
\* the source, in C and C++, in Fortran, and each line of a comment in its part.
DocsAreTheirs ==
  /\ call.kind = "source" => SourceDocs(call.source)
  /\ call.kind = "fortran" => FortranDocs(call.lines)
  /\ call.kind = "comment" => CommentParts(call.lines)

-----------------------------------------------------------------------------
Return == call # None /\ call' = None

Init == call = None

Next ==
  \/ MapComms \/ MakeComms \/ SendData \/ Collect \/ ReduceData
  \/ PutOne \/ PutRow \/ PutBlocks \/ PutBoxes \/ PutShapes
  \/ CheckConfig \/ ReadConfig
  \/ ReadSource \/ ReadFortran \/ ReadComment
  \/ Return

Spec == Init /\ [][Next]_call
=============================================================================
