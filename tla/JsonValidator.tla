---------------------------- MODULE JsonValidator ----------------------------
(***************************************************************************)
(* The JSON schema validator every part of a configuration goes through    *)
(* (validate/json-validator.cpp, validateSchema of JsonSchema.cpp): how a  *)
(* schema is read into a registry of sub-schemas by location, how          *)
(* references find their target before or after it is read, and how an     *)
(* instance is checked against it.                                         *)
(*                                                                         *)
(* A schema is a record of its keywords, [always |-> b] the boolean schema *)
(* and [json |-> x] what is neither; `id` and `ref` are $id and $ref.  An  *)
(* instance is [t |-> type, v |-> value], an object's value a function of  *)
(* its keys, a number's counted in halves.  A location is a pair of a file *)
(* and a pointer into it.                                                  *)
(***************************************************************************)
EXTENDS Integers, Sequences, FiniteSets, SequencesExt, FiniteSetsExt, TLC

CONSTANTS
  Bytes,  \* Bytes[s]: the bytes of the UTF-8 string s
  Found   \* Found[p]: the strings the regular expression p is found in

Str(s) == [t |-> "string", v |-> s]

AllTypes == {"null", "object", "array", "string", "boolean", "integer", "number"}

NumericKeywords == {"maximum", "minimum", "exclusiveMaximum", "exclusiveMinimum", "multipleOf"}
StringKeywords == {"maxLength", "minLength", "pattern", "format"}
ObjectKeywords == {"maxProperties", "minProperties", "required", "properties", "patternProperties",
                   "additionalProperties", "dependencies", "propertyNames"}
ArrayKeywords == {"maxItems", "minItems", "uniqueItems", "items", "contains"}
LogicKeywords == {"type", "enum", "const", "not", "allOf", "anyOf", "oneOf", "if"}
SilentKeywords == {"id", "definitions", "schema", "default", "title", "description"}

IsSchema(s) == "json" \notin DOMAIN s
IsBoolean(s) == "always" \in DOMAIN s
IsTuple(s) == "items" \in DOMAIN s /\ "tuple" \in DOMAIN s.items
Branches(s) == {k \in {"then", "else"} : "if" \in DOMAIN s /\ k \in DOMAIN s}

\* The types there is a validator for.
Types(s) == IF "type" \in DOMAIN s THEN s.type ELSE AllTypes

-----------------------------------------------------------------------------
(* Reading a schema.                                                       *)

Append2(uri, keys) == <<uri[1], uri[2] \o keys>>
Derive(uri, to) == <<IF to[1] = "" THEN uri[1] ELSE to[1], to[2]>>

\* What is left of a schema when every constructor has erased its keywords.
Unknown(s) ==
  DOMAIN s \ (SilentKeywords \cup
    IF "ref" \in DOMAIN s THEN {"ref"}
    ELSE UNION {LogicKeywords, Branches(s),
                IF Types(s) \cap {"integer", "number"} # {} THEN NumericKeywords ELSE {},
                IF "string" \in Types(s) THEN StringKeywords ELSE {},
                IF "object" \in Types(s) THEN ObjectKeywords ELSE {},
                IF "array" \notin Types(s) THEN {}
                ELSE ArrayKeywords \cup IF IsTuple(s) THEN {"additionalItems"} ELSE {}})

At(s, k) == IF k \in DOMAIN s THEN {<<<<k>>, s[k]>>} ELSE {}
AtKeys(s, k) == IF k \in DOMAIN s THEN {<<<<k, n>>, s[k][n]>> : n \in DOMAIN s[k]} ELSE {}
AtPlaces(k, list) == {<<<<k, ToString(i - 1)>>, list[i]>> : i \in DOMAIN list}

ObjectSubschemas(s) ==
  UNION {AtKeys(s, "properties"), At(s, "additionalProperties"), At(s, "propertyNames"),
         {d \in AtKeys(s, "dependencies") : "names" \notin DOMAIN d[2]},
         {<<<<d[1][2]>>, d[2]>> : d \in AtKeys(s, "patternProperties")}}

ArraySubschemas(s) ==
  At(s, "contains") \cup
  IF IsTuple(s) THEN AtPlaces("items", s.items.tuple) \cup At(s, "additionalItems") ELSE At(s, "items")

LogicSubschemas(s) ==
  UNION {At(s, "not"),
         UNION {AtPlaces(k, s[k]) : k \in {"allOf", "anyOf", "oneOf"} \cap DOMAIN s},
         UNION {At(s, k) : k \in Branches(s)},
         IF Branches(s) # {} THEN At(s, "if") ELSE {}}

\* The schemas made from a schema that is not a reference, with where they are in it.
Subschemas(s) ==
  UNION {IF "object" \in Types(s) THEN ObjectSubschemas(s) ELSE {},
         IF "array" \in Types(s) THEN ArraySubschemas(s) ELSE {},
         LogicSubschemas(s)}

Uris(s, uris) ==
  IF "id" \in DOMAIN s /\ Derive(<<"", << >>>>, s.id) \notin ToSet(uris)
  THEN Append(uris, Derive(Last(uris), s.id)) ELSE uris

\* schemas: by location; unresolved: locations referred to where there is no schema yet;
\* unknown: unknown keywords by location; ok: nothing was thrown.
NoFiles == [schemas |-> << >>, unresolved |-> {}, unknown |-> << >>, ok |-> TRUE]

RECURSIVE Make(_, _, _)

\* Mutant of Insert: a reference made before its target stays unresolved.
InsertKeepsUnresolved(r, uri, node) ==
  IF uri \in DOMAIN r.schemas THEN [r EXCEPT !.ok = FALSE]
  ELSE [r EXCEPT !.schemas = (uri :> node) @@ @]

Insert(r, uri, node) ==
  IF uri \in DOMAIN r.schemas THEN [r EXCEPT !.ok = FALSE]
  ELSE [r EXCEPT !.schemas = (uri :> node) @@ @, !.unresolved = @ \ {uri}]

InsertUnknownKeyword(r, uri, value) ==
  IF uri \in r.unresolved THEN Make(r, value, <<uri>>)
  ELSE [r EXCEPT !.unknown = (uri :> value) @@ @]

GetOrCreateRef(r, uri) ==
  LET made == Make(r, r.unknown[uri], <<uri>>)
  IN  IF uri \in DOMAIN r.schemas THEN r
      ELSE IF uri \in DOMAIN r.unknown /\ made.ok
           THEN [made EXCEPT !.unknown = [u \in DOMAIN made.unknown \ {uri} |-> made.unknown[u]]]
      ELSE [r EXCEPT !.unresolved = @ \cup {uri}]

\* A schema, read for the locations `uris`, and everything in it.
Make(r, s, uris) ==
  IF ~IsSchema(s) \/ ~r.ok THEN r
  ELSE LET us == IF IsBoolean(s) THEN uris ELSE Uris(s, uris)
           MakeAt(sub, acc) == Make(acc, sub[2], [i \in DOMAIN us |-> Append2(us[i], sub[1])])
           isRef == "ref" \in DOMAIN s
           target == Derive(Last(us), s.ref)
           defined == FoldSet(MakeAt, r, AtKeys(s, "definitions"))
           inside == IF IsBoolean(s) \/ ~defined.ok THEN defined
                     ELSE IF isRef THEN GetOrCreateRef(defined, target)
                     ELSE FoldSet(MakeAt, defined, Subschemas(s))
           node == IF isRef THEN [target |-> target] ELSE [schema |-> s]
           Put(acc, uri) ==
             LET put == Insert(acc, uri, node)
             IN  IF ~acc.ok \/ ~put.ok \/ IsBoolean(s) THEN put
                 ELSE FoldSet(LAMBDA k, a : InsertUnknownKeyword(a, Append2(uri, <<k>>), s[k]), put, Unknown(s))
       IN  IF ~inside.ok THEN inside ELSE FoldLeft(Put, inside, us)

RootUri == <<"", << >>>>

\* No part of the run time gives the validator a loader of other files.
SetRootSchema(s) ==
  LET r == Make(NoFiles, s, <<RootUri>>)
  IN  [r EXCEPT !.ok = @ /\ \A u \in r.unresolved : \E v \in DOMAIN r.schemas : v[1] = u[1]]

-----------------------------------------------------------------------------
(* Checking an instance.  Whether there is an error is all that is kept of *)
(* the errors: the first one throws.                                       *)

RECURSIVE Equal(_, _)
Equal(a, b) ==
  LET number == {"integer", "number"}
  IN  IF a.t \in number /\ b.t \in number THEN a.v = b.v
      ELSE /\ a.t = b.t
           /\ CASE a.t = "null" -> TRUE
                [] a.t = "array" -> Len(a.v) = Len(b.v) /\ \A i \in DOMAIN a.v : Equal(a.v[i], b.v[i])
                [] a.t = "object" -> DOMAIN a.v = DOMAIN b.v /\ \A k \in DOMAIN a.v : Equal(a.v[k], b.v[k])
                [] OTHER -> a.v = b.v

\* Characters are the bytes that do not continue one.
Utf8Length(s) == Cardinality({i \in DOMAIN Bytes[s] : Bytes[s][i] \notin 128 .. 191})

StringValid(s, x) ==
  /\ "minLength" \in DOMAIN s => Utf8Length(x) >= s.minLength
  /\ "maxLength" \in DOMAIN s => Utf8Length(x) <= s.maxLength
  /\ "pattern" \in DOMAIN s => x \in Found[s.pattern]
  /\ "format" \notin DOMAIN s  \* no part of the run time gives a format checker

Truncated(x) == IF x >= 0 THEN 2 * (x \div 2) ELSE -2 * ((-x) \div 2)

\* A bound as the type of the numbers it bounds.
Limit(whole, x) == IF whole THEN Truncated(x) ELSE x

\* An exclusive bound replaces the other.
NumberValid(s, whole, x) ==
  LET D == DOMAIN s
  IN  /\ "multipleOf" \in D => x % s.multipleOf = 0
      /\ "exclusiveMaximum" \in D => x < Limit(whole, s.exclusiveMaximum)
      /\ "maximum" \in D /\ "exclusiveMaximum" \notin D => x <= Limit(whole, s.maximum)
      /\ "exclusiveMinimum" \in D => x > Limit(whole, s.exclusiveMinimum)
      /\ "minimum" \in D /\ "exclusiveMinimum" \notin D => x >= Limit(whole, s.minimum)

RECURSIVE Validate(_, _, _)

ObjectValid(r, uri, s, x) ==
  LET D == DOMAIN s
      Sub(keys, y) == Validate(r, Append2(uri, keys), y)
      Patterns(k) == IF "patternProperties" \in D THEN {p \in DOMAIN s.patternProperties : k \in Found[p]} ELSE {}
      Property(k) == "properties" \in D /\ k \in DOMAIN s.properties
  IN  /\ "maxProperties" \in D => Cardinality(DOMAIN x.v) <= s.maxProperties
      /\ "minProperties" \in D => Cardinality(DOMAIN x.v) >= s.minProperties
      /\ "required" \in D => s.required \subseteq DOMAIN x.v
      /\ \A k \in DOMAIN x.v :
           /\ "propertyNames" \in D => Sub(<<"propertyNames">>, Str(k))
           /\ Property(k) => Sub(<<"properties", k>>, x.v[k])
           /\ \A p \in Patterns(k) : Sub(<<p>>, x.v[k])
           /\ ~Property(k) /\ Patterns(k) = {} /\ "additionalProperties" \in D =>
                Sub(<<"additionalProperties">>, x.v[k])
      /\ "dependencies" \in D => \A k \in DOMAIN s.dependencies \cap DOMAIN x.v :
           IF "names" \in DOMAIN s.dependencies[k] THEN s.dependencies[k].names \subseteq DOMAIN x.v
           ELSE Sub(<<"dependencies", k>>, x)

\* The schema of the i-th item, if it has one.
ItemKeys(s, i) ==
  IF ~IsTuple(s) THEN <<"items">>
  ELSE IF i <= Len(s.items.tuple) THEN <<"items", ToString(i - 1)>> ELSE <<"additionalItems">>

ArrayValid(r, uri, s, x) ==
  LET D == DOMAIN s
      At1(i) == Append2(uri, ItemKeys(s, i))
  IN  /\ "maxItems" \in D => Len(x.v) <= s.maxItems
      /\ "minItems" \in D => Len(x.v) >= s.minItems
      /\ "uniqueItems" \in D /\ s.uniqueItems => \A i, j \in DOMAIN x.v : i < j => ~Equal(x.v[i], x.v[j])
      /\ \A i \in DOMAIN x.v : "items" \in D /\ At1(i) \in DOMAIN r.schemas => Validate(r, At1(i), x.v[i])
      /\ "contains" \in D => \E i \in DOMAIN x.v : Validate(r, Append2(uri, <<"contains">>), x.v[i])

\* The validator of the instance's type; integers fall back on that of numbers.
TypeValid(r, uri, s, x) ==
  LET t == IF x.t = "integer" /\ "integer" \notin Types(s) THEN "number" ELSE x.t
  IN  /\ t \in Types(s)
      /\ t = "integer" => NumberValid(s, TRUE, x.v)
      /\ t = "number" => NumberValid(s, FALSE, x.v)
      /\ t = "string" => StringValid(s, x.v)
      /\ t = "object" => ObjectValid(r, uri, s, x)
      /\ t = "array" => ArrayValid(r, uri, s, x)

\* The schemas of a combination that accept x.
Succeed(r, uri, s, k, x) == {i \in DOMAIN s[k] : Validate(r, Append2(uri, <<k, ToString(i - 1)>>), x)}

\* In each combination at least one schema has to succeed, of an empty one too.
LogicValid(r, uri, s, x) ==
  LET D == DOMAIN s
      Sub(keys) == Validate(r, Append2(uri, keys), x)
  IN  /\ "enum" \in D => \E i \in DOMAIN s.enum : Equal(s.enum[i], x)
      /\ "const" \in D => Equal(s.const, x)
      /\ "not" \in D => ~Sub(<<"not">>)
      /\ "allOf" \in D => s.allOf # << >> /\ Succeed(r, uri, s, "allOf", x) = DOMAIN s.allOf
      /\ "anyOf" \in D => Succeed(r, uri, s, "anyOf", x) # {}
      /\ "oneOf" \in D => Cardinality(Succeed(r, uri, s, "oneOf", x)) = 1
      /\ Branches(s) # {} =>
           LET k == IF Sub(<<"if">>) THEN "then" ELSE "else"
           IN  k \in Branches(s) => Sub(<<k>>)

Validate(r, uri, x) ==
  /\ uri \in DOMAIN r.schemas  \* otherwise there is no root schema
  /\ LET node == r.schemas[uri]
     IN  IF "target" \in DOMAIN node THEN node.target \notin r.unresolved /\ Validate(r, node.target, x)
         ELSE IF IsBoolean(node.schema) THEN node.schema.always
         ELSE TypeValid(r, uri, node.schema, x) /\ LogicValid(r, uri, node.schema, x)

\* A schema that cannot be read throws, whatever the caller asked for.
ValidateSchema(config, s) ==
  LET r == SetRootSchema(s)
  IN  IF ~r.ok THEN "thrown" ELSE IF Validate(r, RootUri, config) THEN "valid" ELSE "invalid"
=============================================================================
