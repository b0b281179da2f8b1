----------------------------- MODULE JsonConfig -----------------------------
(***************************************************************************)
(* The resolution of a JSON configuration (client/src/json_config.rs).     *)
(* A JSON file has one array per kind of statement; its body is the        *)
(* sequence of its entries, and the kinds are processed in a fixed order   *)
(* whatever the order in the file.  Strings have the parts <<"text", atom>>*)
(* and <<"braced", x>> for {$x}, and <<"bare", x>> for $x; a condition is  *)
(* a variable, its negation or a boolean literal.  How JSON itself is read *)
(* is serde's and not modelled.                                            *)
(***************************************************************************)
EXTENDS Resolver

\* A bare reference to an undefined variable is left as it is.
InterpolateString(r, parts) ==
  LET part(p) == CASE p[1] = "text" -> <<"string", <<p[2]>>>>
                   [] p[1] # "text" /\ p[2] \in DOMAIN r.vars -> <<"string", AsString(r.vars[p[2]])>>
                   [] p[1] = "bare" /\ p[2] \notin DOMAIN r.vars -> <<"string", <<"$" \o p[2]>>>>
                   [] OTHER -> Error("undefined")
  IN Joined("string", [i \in DOMAIN parts |-> part(parts[i])])

InterpolateStrings(r, literals) == Array([i \in DOMAIN literals |-> InterpolateString(r, literals[i])])

EvaluateConditionString(r, c) ==
  CASE c[1] = "lit" -> c[2]
    [] c[1] = "var" -> ValueToBool(Lookup(r, c[2]))
    [] c[1] = "!"   -> EvalUnaryOp("!", Lookup(r, c[2][2]))

WhenJson(r, s, done) ==
  IF s.when = <<>> THEN done
  ELSE LET c == EvaluateConditionString(r, s.when[1])
       IN Unless(r, <<c>>, IF c[2] THEN done ELSE r)

(***************************************************************************)
(* Variables.  A default is interpolated when it is finalized, so it sees  *)
(* the variables finalized before it, in the order a hash table gives.     *)
(***************************************************************************)
JsonToValue(r, json, type) ==
  CASE json[1] = "null" -> json
    [] json[1] = "string" /\ type = "string" -> InterpolateString(r, json[2])
    [] json[1] = "string" /\ type = "int" ->
         IF Len(json[2]) = 1 /\ json[2][1][1] = "text" THEN Parsed(<<json[2][1][2]>>, "int", Numeral)
         ELSE Error("type")
    [] json[1] = "strings" /\ type = "strings" -> InterpolateStrings(r, json[2])
    [] json[1] \in {"int", "bool"} /\ json[1] = type -> json
    [] OTHER -> Error("type")

\* Variant: a given variable keeps its text, whatever its type.
FinalizeAsGiven(r, x) ==
  LET p == r.pending[x]
      v == IF x \in DOMAIN r.vars THEN r.vars[x]
           ELSE IF p.default # <<>> THEN JsonToValue(r, p.default[1], p.type)
           ELSE Error("undefined")
  IN Unless(r, <<v>>, [r EXCEPT !.vars = (x :> v) @@ @, !.plan.variables = (x :> v) @@ @])

FinalizeOne(r, x) ==
  LET p == r.pending[x]
      v == IF x \in DOMAIN r.vars THEN Coerce(r.vars[x], p.type)
           ELSE IF p.default # <<>> THEN JsonToValue(r, p.default[1], p.type)
           ELSE Error("undefined")
  IN Unless(r, <<v>>, [r EXCEPT !.vars = (x :> v) @@ @, !.plan.variables = (x :> v) @@ @])

\* order lists the declared names in the order of the hash table.
FinalizeJsonVariables(r, order) ==
  Each(r, SelectSeq(order, LAMBDA x : x \in DOMAIN r.pending), FinalizeOne)

\* A default of null is read as no default.
CollectJsonVar(r, s) ==
  LET default == SelectSeq(s.default, LAMBDA v : v # NoValue)
  IN [r EXCEPT !.pending = (s.name :> [type |-> s.type, default |-> default]) @@ @]

(***************************************************************************)
(* Statements.                                                             *)
(***************************************************************************)
\* A column reference is <<table, column>>, anything else is malformed.
JsonRelation(r, field, rel) ==
  IF \E i \in DOMAIN rel : Len(rel[i]) # 2 THEN Fails(r, Error("parse")) ELSE Add(r, field, rel)

JsonFaker(r, s) ==
  LET pool == InterpolateStrings(r, [i \in DOMAIN s.source |-> s.source[i][2]])
  IN Unless(r, <<pool>>, [r EXCEPT !.plan.fakers = (s.name :> pool[2]) @@ @])

RulesOf(plan, t) == IF t \in DOMAIN plan.anonymization THEN plan.anonymization[t] ELSE <<>>

\* A later block for the same table adds to the earlier one; a rule has a target.
JsonAnonymize(r, s) ==
  IF \E i \in DOMAIN s.rules : s.rules[i][2] = <<>> THEN Fails(r, Error("parse"))
  ELSE [r EXCEPT !.plan.anonymization = (s.table :> RulesOf(r.plan, s.table) \o s.rules) @@ @]

JsonWhere(r, s) == IF s.where = <<>> THEN NoValue ELSE InterpolateString(r, s.where[1])

JsonAggregate(r, s) ==
  LET where == JsonWhere(r, s)
      named == Lookup(r, s.limit[1][2])
      limit == IF s.limit = <<>> THEN NoValue
               ELSE IF s.limit[1][1] = "int" THEN s.limit[1]
               ELSE IF IsError(named) THEN named ELSE AsInt(named)
      bare == [s EXCEPT !.exclude = <<>>, !.root_only = FALSE]
  IN Unless(r, <<where, limit>>,
            Add(r, "aggregates", Clauses(bare, where, limit) @@ ("root_table" :> s.root)))

\* A copy of the first aggregate of that name, if there is one, with another condition.
JsonInclude(r, s) ==
  LET named == SelectSeq(r.plan.aggregates, LAMBDA a : a.name = s.aggregate)
      where == JsonWhere(r, s)
      copy == [named[1] EXCEPT !.name = @ \o "_include_" \o ToString(Len(r.plan.aggregates)),
                               !.where_clause = IF s.where = <<>> THEN @ ELSE where]
  IN IF named = <<>> THEN r ELSE Unless(r, <<where>>, Add(r, "aggregates", copy))

JsonPreserve(r, s) ==
  LET where == InterpolateString(r, s.where)
  IN Unless(r, <<where>>, Add(r, "preserves", [table |-> s.table, where_clause |-> where]))

\* The columns of a set block come from a hash table: their order means nothing.
JsonSet(r, s) ==
  LET value(v) == CASE v[2][1] = "string"  -> InterpolateString(r, v[2][2])
                    [] v[2][1] = "strings" -> InterpolateStrings(r, v[2][2])
                    [] OTHER -> v[2]
      values(as) == [i \in DOMAIN as |-> value(as[i][2])]
      columns(as) == [i \in DOMAIN as |-> <<as[i][1], values(as)[i]>>]
  IN Unless(r, values(s.match) \o values(s.assign),
            Add(r, "sets", [table |-> s.table, match_clause |-> columns(s.match),
                            assignments |-> columns(s.assign)]))

JsonAfter(r, s) ==
  LET sql == InterpolateStrings(r, s.sql)
  IN Unless(r, <<sql>>, [r EXCEPT !.plan.after_statements = @ \o sql[2]])

ProcessJsonKind(r, s) ==
  CASE s.kind = "faker"           -> JsonFaker(r, s)
    [] s.kind = "relation"        -> JsonRelation(r, "relations", s.rel)
    [] s.kind = "exclude"         -> [r EXCEPT !.plan.excluded_tables = @ \cup ToSet(Names(s.patterns, "exact"))]
    [] s.kind = "ignore"          -> [r EXCEPT !.plan.ignored_tables = @ \cup ToSet(Names(s.patterns, "exact"))]
    [] s.kind = "ignore_relation" -> JsonRelation(r, "ignored_relations", s.rel)
    [] s.kind = "anonymize"       -> JsonAnonymize(r, s)
    [] s.kind = "aggregate"       -> JsonAggregate(r, s)
    [] s.kind = "include"         -> JsonInclude(r, s)
    [] s.kind = "preserve"        -> JsonPreserve(r, s)
    [] s.kind = "set"             -> JsonSet(r, s)
    [] s.kind = "after"           -> JsonAfter(r, s)

Categories == <<"faker", "relation", "exclude", "ignore", "ignore_relation", "anonymize",
                "aggregate", "include", "preserve", "set", "after">>

ProcessJsonStatement(r, s) == WhenJson(r, s, ProcessJsonKind(r, s))
ProcessCategories(r, body) ==
  Each(r, FlattenSeq([k \in DOMAIN Categories |-> OfKind(body, Categories[k])]), ProcessJsonStatement)

(***************************************************************************)
(* Files.                                                                  *)
(***************************************************************************)
\* Patterns, full tables and get functions of the imported plan are not taken over.
MergePlan(plan, other) ==
  [plan EXCEPT
     !.variables = @ @@ other.variables,
     !.relations = @ \o other.relations,
     !.ignored_relations = @ \o other.ignored_relations,
     !.aggregates = @ \o other.aggregates,
     !.excluded_tables = @ \cup other.excluded_tables,
     !.ignored_tables = @ \cup other.ignored_tables,
     !.anonymization = [t \in DOMAIN @ \cup DOMAIN other.anonymization |->
                          RulesOf(plan, t) \o RulesOf(other, t)],
     !.fakers = @ @@ other.fakers,
     !.preserves = @ \o other.preserves,
     !.sets = @ \o other.sets,
     !.after_statements = @ \o other.after_statements]

TakeOver(r, q) ==
  IF q.err # "" THEN Fails(r, Error("parse")) ELSE [r EXCEPT !.plan = MergePlan(@, q.plan)]

\* A .jibs file is resolved on its own, with the variables known so far as texts.
ImportDsl(r, file) ==
  LET fresh == [NewResolver(r.files, file, <<>>) EXCEPT
                  !.vars = [x \in DOMAIN r.vars |-> <<"string", AsString(r.vars[x])>>]]
  IN TakeOver(r, ValidatePlan(ResolveProgram(fresh, r.files[file].body)))

RECURSIVE ProcessJsonImport(_, _)
\* An imported JSON file's statements run before its variables are finalized.
ImportJson(r, file) ==
  LET body == r.files[file].body
      nested == Each([r EXCEPT !.base = file], OfKind(body, "import"),
                     LAMBDA q, s : WhenJson(q, s, ProcessJsonImport(q, s)))
      declared == Each(nested, OfKind(body, "var"), CollectJsonVar)
      done == ProcessCategories(declared, body)
  IN [done EXCEPT !.base = r.base]

ProcessJsonImport(r, s) ==
  LET file == Locate(r.base, s.path)
      q == [r EXCEPT !.imported = @ \cup {file}]
  IN IF file \notin DOMAIN r.files THEN Fails(r, Error("io"))
     ELSE IF file \in r.imported THEN r
     ELSE IF r.files[file].broken THEN Fails(r, Error("parse"))
     ELSE IF r.files[file].json THEN ImportJson(q, file) ELSE ImportDsl(q, file)

ParseJsonConfig(files, root, given, order) ==
  LET r == NewResolver(files, root, given)
      body == files[root].body
      imported == Each(r, OfKind(body, "import"),
                       LAMBDA q, s : WhenJson(q, s, ProcessJsonImport(q, s)))
      declared == Each(imported, OfKind(body, "var"), CollectJsonVar)
  IN IF files[root].broken THEN Fails(r, Error("parse"))
     ELSE ProcessCategories(FinalizeJsonVariables(declared, order), body)
=============================================================================
