------------------------------ MODULE Resolver ------------------------------
(***************************************************************************)
(* The resolution of a parsed configuration into an execution plan         *)
(* (client/src/resolver.rs): imports, variables, conditions, interpolation *)
(* and one case per kind of statement.                                     *)
(*                                                                         *)
(* A value is <<type, payload>> with type "string", "strings", "int",      *)
(* "bool", or <<"null">>; the numbers stand for both widths of number and  *)
(* "strings" for every array type.  A text is a sequence of atoms, so that *)
(* concatenation is \o.  A value that could not be computed is Error(why); *)
(* it travels like the Err of a Result.  An absent option is <<>> in a     *)
(* statement and <<"null">> in a resolved plan.                            *)
(*                                                                         *)
(* A statement is a record with its kind, its condition when (<<>> or      *)
(* <<expression>>) and the fields of that kind.  An expression is          *)
(* <<"lit", literal>>, <<"var", name>>, <<"unique">>, <<op, e>> or         *)
(* <<op, e1, e2>>; a string literal is a sequence of parts <<"text", atom>>*)
(* and <<"expr", expression>>.  A file is <<directory, name>>, a project a *)
(* function from the files that exist to [json, broken, body].             *)
(***************************************************************************)
EXTENDS Integers, Sequences, FiniteSets, SequencesExt

CONSTANTS
  Numeral,    \* the texts that parse as an integer, with their value
  Truth,      \* the texts that coerce to a boolean, with their value
  BadRegex    \* the patterns that do not compile

Error(why) == <<"error", why>>
IsError(v) == v[1] = "error"
NoValue    == <<"null">>

(***************************************************************************)
(* Values and expressions.                                                 *)
(***************************************************************************)
AsString(v) ==
  CASE v[1] = "string"  -> v[2]
    [] v[1] = "int"     -> <<ToString(v[2])>>
    [] v[1] = "bool"    -> <<IF v[2] THEN "true" ELSE "false">>
    [] v[1] = "null"    -> <<"NULL">>
    [] v[1] = "strings" -> <<"[">>
         \o FlattenSeq([i \in DOMAIN v[2] |-> (IF i = 1 THEN <<>> ELSE <<", ">>) \o v[2][i]])
         \o <<"]">>

AsInt(v) == IF v[1] = "int" THEN v ELSE NoValue

\* A text is turned into a number or a boolean; every other value is kept as it is.
Parsed(text, type, table) ==
  IF Len(text) = 1 /\ text[1] \in DOMAIN table THEN <<type, table[text[1]]>> ELSE Error("type")
Coerce(v, type) ==
  CASE v[1] = "string" /\ type = "int"  -> Parsed(v[2], "int", Numeral)
    [] v[1] = "string" /\ type = "bool" -> Parsed(v[2], "bool", Truth)
    [] OTHER -> v

ValueToBool(v) ==
  CASE v[1] \in {"bool", "error"} -> v
    [] v[1] = "null" -> <<"bool", FALSE>>
    [] OTHER -> Error("type")

\* Integer division truncates towards zero.
Quotient(a, b) ==
  LET abs(n) == IF n < 0 THEN -n ELSE n
      q == abs(a) \div abs(b)
  IN IF (a < 0) = (b < 0) THEN q ELSE -q

NumericOp(op, a, b) ==
  CASE a[1] # "int" \/ b[1] # "int" -> Error("type")
    [] a[1] = "int" /\ b[1] = "int" /\ op \in {"/", "%"} /\ b[2] = 0 -> Error("panic")
    [] OTHER -> <<"int", CASE op = "+" -> a[2] + b[2]
                           [] op = "-" -> a[2] - b[2]
                           [] op = "*" -> a[2] * b[2]
                           [] op = "/" -> Quotient(a[2], b[2])
                           [] op = "%" -> a[2] - b[2] * Quotient(a[2], b[2])>>

CompareValues(op, a, b) ==
  IF a[1] # "int" \/ b[1] # "int" THEN Error("type")
  ELSE <<"bool", CASE op = "<"  -> a[2] < b[2]
                   [] op = ">"  -> a[2] > b[2]
                   [] op = "<=" -> a[2] <= b[2]
                   [] op = ">=" -> a[2] >= b[2]>>

\* Both operands are evaluated before the operator: an error on the right of || counts.
EvalBinaryOp(op, a, b) ==
  LET l == ValueToBool(a)
      r == ValueToBool(b)
  IN CASE IsError(a) -> a
       [] ~IsError(a) /\ IsError(b) -> b
       [] ~IsError(a) /\ ~IsError(b) /\ op \in {"==", "!="} -> <<"bool", (a = b) = (op = "==")>>
       [] ~IsError(a) /\ ~IsError(b) /\ op \in {"&&", "||"} ->
            IF IsError(l) THEN l ELSE IF IsError(r) THEN r
            ELSE <<"bool", IF op = "&&" THEN l[2] /\ r[2] ELSE l[2] \/ r[2]>>
       [] ~IsError(a) /\ ~IsError(b) /\ op \in {"<", ">", "<=", ">="} -> CompareValues(op, a, b)
       [] OTHER -> NumericOp(op, a, b)

EvalUnaryOp(op, v) ==
  CASE IsError(v) -> v
    [] ~IsError(v) /\ op = "!" -> IF IsError(ValueToBool(v)) THEN Error("type")
                                  ELSE <<"bool", ~ValueToBool(v)[2]>>
    [] OTHER -> IF v[1] = "int" THEN <<"int", -v[2]>> ELSE Error("type")

Lookup(r, x) == IF x \in DOMAIN r.vars THEN r.vars[x] ELSE Error("undefined")

ParamMark(x) == "{" \o x \o "}"

\* The payloads of the values together, or the first error among them.
Joined(type, values) ==
  LET bad == SelectSeq(values, IsError)
  IN IF bad # <<>> THEN bad[1] ELSE <<type, FlattenSeq([i \in DOMAIN values |-> values[i][2]])>>

\* A string literal, its interpolations replaced; the parameters of a get function stay.
RECURSIVE EvaluateExpr(_, _)
StringPart(r, p, params) ==
  CASE p[1] = "text" -> <<"string", <<p[2]>>>>
    [] p[1] = "expr" /\ p[2][1] = "unique" -> <<"string", <<"{unique()}">>>>
    [] p[1] = "expr" /\ p[2][1] = "var" /\ p[2][2] \in params -> <<"string", <<ParamMark(p[2][2])>>>>
    [] OTHER -> LET v == EvaluateExpr(r, p[2]) IN IF IsError(v) THEN v ELSE <<"string", AsString(v)>>
ResolveString(r, parts, params) ==
  Joined("string", [i \in DOMAIN parts |-> StringPart(r, parts[i], params)])

\* An array of texts, from the values of its members.
Array(texts) ==
  Joined("strings", [i \in DOMAIN texts |-> IF IsError(texts[i]) THEN texts[i]
                                            ELSE <<"strings", <<texts[i][2]>>>>])
ResolveStrings(r, literals) == Array([i \in DOMAIN literals |-> ResolveString(r, literals[i], {})])

EvalLiteral(r, lit) ==
  CASE lit[1] = "string"  -> ResolveString(r, lit[2], {})
    [] lit[1] = "strings" -> ResolveStrings(r, lit[2])
    [] OTHER -> lit

LiteralToValue(r, lit, type) ==
  IF lit[1] \in {type, "null"} THEN EvalLiteral(r, lit) ELSE Error("type")

EvaluateExpr(r, e) ==
  CASE e[1] = "lit"    -> EvalLiteral(r, e[2])
    [] e[1] = "var"    -> Lookup(r, e[2])
    [] e[1] = "unique" -> Error("parse")
    [] OTHER -> IF Len(e) = 3 THEN EvalBinaryOp(e[1], EvaluateExpr(r, e[2]), EvaluateExpr(r, e[3]))
                ELSE EvalUnaryOp(e[1], EvaluateExpr(r, e[2]))

EvaluateCondition(r, e) == ValueToBool(EvaluateExpr(r, e))

(***************************************************************************)
(* The resolver's state: a record r, with err the first error met.         *)
(***************************************************************************)
EmptyPlan ==
  [variables |-> <<>>, relations |-> <<>>, aggregates |-> <<>>, excluded_tables |-> {},
   excluded_patterns |-> <<>>, ignored_tables |-> {}, ignored_patterns |-> <<>>,
   ignored_relations |-> <<>>, anonymization |-> <<>>, fakers |-> <<>>, preserves |-> <<>>,
   sets |-> <<>>, full_tables |-> {}, full_patterns |-> <<>>, after_statements |-> <<>>,
   aggregates_only |-> FALSE]

NewResolver(files, base, given) ==
  [files |-> files, base |-> base, imported |-> {base},
   vars |-> [x \in DOMAIN given |-> <<"string", <<given[x]>>>>],
   pending |-> <<>>, plan |-> EmptyPlan, gets |-> <<>>, lenient |-> FALSE, missing |-> <<>>,
   err |-> ""]

Fails(r, v) == [r EXCEPT !.err = v[2]]

\* done, unless one of the values is an error.
Unless(r, values, done) ==
  LET bad == SelectSeq(values, IsError) IN IF bad = <<>> THEN done ELSE Fails(r, bad[1])

\* done, if the statement has no condition or its condition holds.
When(r, s, done) ==
  IF s.when = <<>> THEN done
  ELSE LET c == EvaluateCondition(r, s.when[1])
       IN Unless(r, <<c>>, IF c[2] THEN done ELSE r)

\* The statements of a body, one after the other until one fails.
Each(r, body, Do(_, _)) == FoldLeft(LAMBDA q, s : IF q.err = "" THEN Do(q, s) ELSE q, r, body)
OfKind(body, kind) == SelectSeq(body, LAMBDA s : s.kind = kind)

Add(r, field, x) == [r EXCEPT !.plan[field] = Append(@, x)]

(***************************************************************************)
(* Variables.                                                              *)
(***************************************************************************)
PlaceholderValue(type) ==
  CASE type = "string"  -> <<"string", <<>>>>
    [] type = "int"     -> <<"int", 0>>
    [] type = "bool"    -> <<"bool", FALSE>>
    [] type = "strings" -> <<"strings", <<>>>>

CollectVarDecl(r, s) ==
  LET default == [i \in DOMAIN s.default |-> LiteralToValue(r, s.default[i], s.type)]
  IN Unless(r, default,
            [r EXCEPT !.pending = (s.name :> [type |-> s.type, default |-> default]) @@ @])

\* Variant: a default replaces the value that was given.
DefaultsWin(r) ==
  LET value(x) == IF r.pending[x].default # <<>> THEN r.pending[x].default[1]
                  ELSE IF x \in DOMAIN r.vars THEN Coerce(r.vars[x], r.pending[x].type)
                  ELSE IF r.lenient THEN PlaceholderValue(r.pending[x].type) ELSE Error("undefined")
      all == [x \in DOMAIN r.pending |-> value(x)]
      bad == {x \in DOMAIN all : IsError(all[x])}
      missing == {x \in DOMAIN all : x \notin DOMAIN r.vars /\ r.pending[x].default = <<>>}
  IN IF r.err # "" THEN r ELSE IF bad # {} THEN Fails(r, all[CHOOSE x \in bad : TRUE])
     ELSE [r EXCEPT !.vars = all @@ @, !.plan.variables = all @@ @,
                    !.missing = [x \in missing |-> r.pending[x].type] @@ @]

\* The declarations collected so far, those of files finished long ago among them.
FinalizeVariables(r) ==
  LET value(x) == IF x \in DOMAIN r.vars THEN Coerce(r.vars[x], r.pending[x].type)
                  ELSE IF r.pending[x].default # <<>> THEN r.pending[x].default[1]
                  ELSE IF r.lenient THEN PlaceholderValue(r.pending[x].type)
                  ELSE Error("undefined")
      all == [x \in DOMAIN r.pending |-> value(x)]
      bad == {x \in DOMAIN all : IsError(all[x])}
      missing == {x \in DOMAIN all : x \notin DOMAIN r.vars /\ r.pending[x].default = <<>>}
  IN IF r.err # "" THEN r ELSE IF bad # {} THEN Fails(r, all[CHOOSE x \in bad : TRUE])
     ELSE [r EXCEPT !.vars = all @@ @, !.plan.variables = all @@ @,
                    !.missing = [x \in missing |-> r.pending[x].type] @@ @]

(***************************************************************************)
(* Statements.                                                             *)
(***************************************************************************)
Names(patterns, sort) ==
  LET of == SelectSeq(patterns, LAMBDA p : p[1] = sort) IN [i \in DOMAIN of |-> of[i][2]]

AddPatterns(r, tables, patterns, ps) ==
  [r EXCEPT !.plan[tables] = @ \cup ToSet(Names(ps, "exact")),
            !.plan[patterns] = @ \o Names(ps, "regex")]

\* faker f $v is the spread of $v alone.
ProcessFaker(r, s) ==
  LET item(i) == IF i[1] = "lit" THEN ResolveStrings(r, <<i[2]>>)
                 ELSE IF IsError(Lookup(r, i[2])) \/ Lookup(r, i[2])[1] = "strings" THEN Lookup(r, i[2])
                 ELSE Error("type")
      pool == Joined("strings", [i \in DOMAIN s.source |-> item(s.source[i])])
  IN Unless(r, <<pool>>, [r EXCEPT !.plan.fakers = (s.name :> pool[2]) @@ @])

\* A later block for the same table replaces the earlier one.
ProcessAnonymize(r, s) == [r EXCEPT !.plan.anonymization = (s.table :> s.rules) @@ @]

WhereOf(r, s, params) ==
  IF s.where = <<>> THEN NoValue ELSE ResolveString(r, s.where[1], params)
Clauses(s, where, limit) ==
  [name |-> s.name, where_clause |-> where, limit |-> limit,
   order_by |-> IF s.order = <<>> THEN NoValue ELSE <<"column", s.order[1][1]>>,
   order_direction |-> IF s.order = <<>> THEN NoValue ELSE s.order[1][2],
   exclude_tables |-> Names(s.exclude, "exact"), exclude_patterns |-> Names(s.exclude, "regex"),
   root_only |-> s.root_only]

\* A variable that is not an integer leaves the aggregate without a limit.
ProcessAggregate(r, s) ==
  LET where == WhereOf(r, s, {})
      named == Lookup(r, s.limit[1][2])
      limit == IF s.limit = <<>> THEN NoValue
               ELSE IF s.limit[1][1] = "int" THEN s.limit[1]
               ELSE IF IsError(named) THEN named ELSE AsInt(named)
  IN Unless(r, <<where, limit>>,
            Add(r, "aggregates", Clauses(s, where, limit) @@ ("root_table" :> s.root)))

\* The aggregate must have been declared before.
ProcessGetFunction(r, s) ==
  LET params == {s.params[i].name : i \in DOMAIN s.params}
      defaults == [i \in DOMAIN s.params |->
                     IF s.params[i].default = <<>> THEN NoValue
                     ELSE LiteralToValue(r, s.params[i].default[1], s.params[i].type)]
      where == WhereOf(r, s, params)
      named == Lookup(r, s.limit[1][2])
      limit == IF s.limit = <<>> THEN NoValue
               ELSE IF s.limit[1][1] = "int" THEN s.limit[1]
               ELSE IF s.limit[1][2] \in params THEN <<"param", s.limit[1][2]>>
               ELSE IF ~IsError(named) /\ named[1] # "int" THEN Error("type") ELSE named
      func == Clauses(s, where, limit)
                @@ ("aggregate" :> s.aggregate)
                @@ ("params" :> [i \in DOMAIN s.params |->
                       [name |-> s.params[i].name,
                        default |-> IF s.params[i].default = <<>> THEN <<>> ELSE <<defaults[i]>>]])
  IN IF \A i \in DOMAIN r.plan.aggregates : r.plan.aggregates[i].name # s.aggregate
     THEN Fails(r, Error("aggregate"))
     ELSE Unless(r, defaults \o <<where, limit>>, [r EXCEPT !.gets = Append(@, func)])

ProcessPreserve(r, s) ==
  LET where == ResolveString(r, s.where, {})
  IN Unless(r, <<where>>, Add(r, "preserves", [table |-> s.table, where_clause |-> where]))

ProcessSet(r, s) ==
  LET values(as) == [i \in DOMAIN as |-> EvaluateExpr(r, as[i][2])]
      columns(as) == [i \in DOMAIN as |-> <<as[i][1], values(as)[i]>>]
  IN Unless(r, values(s.match) \o values(s.assign),
            Add(r, "sets", [table |-> s.table, match_clause |-> columns(s.match),
                            assignments |-> columns(s.assign)]))

\* The SQL of an after block is taken as it is written.
RawText(parts) == [i \in DOMAIN parts |-> parts[i][2]]
ProcessAfter(r, s) ==
  [r EXCEPT !.plan.after_statements = @ \o [i \in DOMAIN s.sql |-> RawText(s.sql[i])]]

ProcessKind(r, s) ==
  CASE s.kind \in {"import", "var"}  -> r
    [] s.kind = "faker"           -> ProcessFaker(r, s)
    [] s.kind = "relation"        -> Add(r, "relations", s.rel)
    [] s.kind = "ignore_relation" -> Add(r, "ignored_relations", s.rel)
    [] s.kind = "anonymize"       -> ProcessAnonymize(r, s)
    [] s.kind = "exclude"         -> AddPatterns(r, "excluded_tables", "excluded_patterns", s.patterns)
    [] s.kind = "ignore"          -> AddPatterns(r, "ignored_tables", "ignored_patterns", s.patterns)
    [] s.kind = "full"            -> AddPatterns(r, "full_tables", "full_patterns", s.patterns)
    [] s.kind = "aggregate"       -> ProcessAggregate(r, s)
    [] s.kind = "get"             -> ProcessGetFunction(r, s)
    [] s.kind = "preserve"        -> ProcessPreserve(r, s)
    [] s.kind = "set"             -> ProcessSet(r, s)
    [] s.kind = "after"           -> ProcessAfter(r, s)

ProcessStatement(r, s) == When(r, s, ProcessKind(r, s))

(***************************************************************************)
(* Files.                                                                  *)
(***************************************************************************)
\* A path is relative to the directory of the file that imports it.
Locate(base, path) ==
  IF path[1] = "here" THEN <<base[1], path[2]>>
  ELSE IF path[1] = "sub" THEN <<Append(base[1], "sub"), path[2]>>
  ELSE IF base[1] = <<>> THEN <<<<"outside">>, path[2]>> ELSE <<Front(base[1]), path[2]>>

\* Imports, then the declarations, then the statements.
RECURSIVE ResolveProgram(_, _)
\* Variant: after an import, paths stay relative to the imported file.
ProcessImportAstray(r, s) ==
  LET file == Locate(r.base, s.path)
      q == ResolveProgram([r EXCEPT !.imported = @ \cup {file}, !.base = file], r.files[file].body)
  IN IF file \notin DOMAIN r.files THEN Fails(r, Error("io"))
     ELSE IF file \in r.imported THEN r
     ELSE IF r.files[file].broken \/ r.files[file].json THEN Fails(r, Error("parse"))
     ELSE q

\* A file that was imported before is skipped.
ProcessImport(r, s) ==
  LET file == Locate(r.base, s.path)
      q == ResolveProgram([r EXCEPT !.imported = @ \cup {file}, !.base = file], r.files[file].body)
  IN IF file \notin DOMAIN r.files THEN Fails(r, Error("io"))
     ELSE IF file \in r.imported THEN r
     ELSE IF r.files[file].broken \/ r.files[file].json THEN Fails(r, Error("parse"))
     ELSE [q EXCEPT !.base = r.base]

ResolveProgram(r, body) ==
  LET imported == Each(r, OfKind(body, "import"), LAMBDA q, s : When(q, s, ProcessImport(q, s)))
      declared == Each(imported, OfKind(body, "var"), CollectVarDecl)
  IN Each(FinalizeVariables(declared), body, ProcessStatement)

(***************************************************************************)
(* The cross-references of a resolved plan, and the two ways to resolve.   *)
(***************************************************************************)
FakersDefined(plan) ==
  \A t \in DOMAIN plan.anonymization : \A i \in DOMAIN plan.anonymization[t] :
    LET target == plan.anonymization[t][i][2]
    IN target[1] = "faker" => target[2] \in DOMAIN plan.fakers

PatternsOf(clauses) == UNION {ToSet(clauses[i].exclude_patterns) : i \in DOMAIN clauses}
PatternsCompile(plan, gets) ==
  (ToSet(plan.excluded_patterns) \cup ToSet(plan.ignored_patterns) \cup ToSet(plan.full_patterns)
     \cup PatternsOf(plan.aggregates) \cup PatternsOf(gets)) \cap BadRegex = {}

ValidatePlan(r) ==
  IF r.err # "" \/ (FakersDefined(r.plan) /\ PatternsCompile(r.plan, r.gets)) THEN r
  ELSE Fails(r, Error("validation"))

Resolve(files, root, given) ==
  ValidatePlan(ResolveProgram(NewResolver(files, root, given), files[root].body))

\* Variant: the check does not validate the plan.
ResolveLenientOnly(files, root, given) ==
  ResolveProgram([NewResolver(files, root, given) EXCEPT !.lenient = TRUE], files[root].body)

ResolveLenient(files, root, given) ==
  ValidatePlan(ResolveProgram([NewResolver(files, root, given) EXCEPT !.lenient = TRUE],
                              files[root].body))
=============================================================================
