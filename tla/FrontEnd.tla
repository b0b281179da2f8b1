------------------------------ MODULE FrontEnd ------------------------------
(***************************************************************************)
(* From the text of a configuration to the plan that is sent to the        *)
(* server: the parser's loop over the statements of the main file, then    *)
(* the commands that resolve it (client/src/main.rs, client/src/import.rs).*)
(* A user checks a configuration, provides the variables the check says    *)
(* are missing, imports, or calls get functions.                           *)
(*                                                                         *)
(* A project is [files, root, flags, var_file, damage]: the files, the     *)
(* main one, the variables of the command line and of the variable file,   *)
(* and the token of the main file that is missing, <<statement, place>>,   *)
(* or <<0, 0>>.                                                            *)
(***************************************************************************)
EXTENDS Parser, ConfigText, JsonConfig

CONSTANTS
  Projects,    \* the configurations considered
  Texts,       \* what a user may provide for a missing variable
  GetArgs      \* the argument lists of `jibs get`

VARIABLES
  proj,        \* the project
  given,       \* the variables given to the commands
  text,        \* the tokens of the main file
  parser,      \* [pos, parsed, errors]: Parser::pos, the spans parsed, the errors
  checked,     \* what `jibs check` found, <<>> before
  imported,    \* the resolution an import starts with, <<>> before
  got          \* the plan of a `jibs get`, <<>> before

vars == <<proj, given, text, parser, checked, imported, got>>

Root == proj.files[proj.root]

(***************************************************************************)
(* The text.                                                               *)
(***************************************************************************)
WrittenStatement(p, i) ==
  LET w == Written(p.files[p.root].body[i])
  IN IF p.damage[1] = i THEN RemoveAt(w, p.damage[2]) ELSE w

TextOf(p) ==
  IF p.files[p.root].json THEN <<>>
  ELSE FlattenSeq([i \in DOMAIN p.files[p.root].body |-> WrittenStatement(p, i)])

\* Where the i-th statement is written.
SpanOf(i) ==
  LET end[j \in 0 .. i] == IF j = 0 THEN 0 ELSE end[j - 1] + Len(WrittenStatement(proj, j))
  IN <<end[i - 1] + 1, end[i]>>

(***************************************************************************)
(* The commands.                                                           *)
(***************************************************************************)
\* Flags win over the variable file.
CollectVars(flags, file) == flags @@ file

Init ==
  /\ proj \in Projects
  /\ given = CollectVars(proj.flags, proj.var_file)
  /\ text = TextOf(proj)
  /\ parser = [pos |-> 1, parsed |-> {}, errors |-> {}]
  /\ checked = <<>> /\ imported = <<>> /\ got = <<>>

\* One turn of the loop over the statements.
ParseOne ==
  /\ parser.pos <= Len(text)
  /\ LET r == ParseStatement(text, parser.pos)
     IN parser' = IF r.ok
                  THEN [pos |-> r.pos, parsed |-> parser.parsed \cup {<<parser.pos, r.pos - 1>>},
                        errors |-> parser.errors \cup r.bad]
                  ELSE [pos |-> Synchronize(text, r.pos), parsed |-> parser.parsed,
                        errors |-> parser.errors \cup r.bad \cup {r.pos}]
  /\ UNCHANGED <<proj, given, text, checked, imported, got>>

AtEnd == parser.pos > Len(text)
Declared == UNION {{proj.files[f].body[i].name : i \in {j \in DOMAIN proj.files[f].body :
                       proj.files[f].body[j].kind = "var"}} : f \in DOMAIN proj.files}
Orders == SetToSeqs(Declared)

Outcome(r) ==
  [err |-> r.err, missing |-> r.missing,
   plan |-> IF r.err = "" THEN r.plan ELSE EmptyPlan, gets |-> IF r.err = "" THEN r.gets ELSE <<>>]

Unparsed == Fails(NewResolver(proj.files, proj.root, given), Error("parse"))

\* What a text means that lost a token and is accepted all the same is not followed.
Meaningful == AtEnd /\ (proj.damage = <<0, 0>> \/ parser.errors # {})

Check(order) ==
  /\ Meaningful /\ checked = <<>> /\ imported = <<>>
  /\ checked' = <<Outcome(
       IF Root.json THEN ValidatePlan(ParseJsonConfig(proj.files, proj.root, given, order))
       ELSE IF parser.errors # {} THEN Unparsed
       ELSE ResolveLenient(proj.files, proj.root, given))>>
  /\ UNCHANGED <<proj, given, text, parser, imported, got>>

\* The user provides what the check reported as missing.
Provide ==
  /\ checked # <<>> /\ checked[1].err = "" /\ imported = <<>>
  /\ \E more \in [DOMAIN checked[1].missing \ DOMAIN given -> Texts] :
       more # <<>> /\ given' = more @@ given
  /\ UNCHANGED <<proj, text, parser, checked, imported, got>>

\* A JSON plan goes to the server as it is.
Import(order) ==
  /\ Meaningful /\ imported = <<>>
  /\ imported' = <<Outcome(
       IF Root.json THEN ParseJsonConfig(proj.files, proj.root, given, order)
       ELSE IF parser.errors # {} THEN Unparsed
       ELSE Resolve(proj.files, proj.root, given))>>
  /\ UNCHANGED <<proj, given, text, parser, checked, got>>

(***************************************************************************)
(* jibs get.                                                               *)
(***************************************************************************)
\* A word is <<"name", w>> or <<"flag", key>>; a flag takes the word after it.
RECURSIVE ParseGetInvocations(_, _)
ParseGetInvocations(words, done) ==
  CASE words = <<>> -> IF done = <<>> THEN Error("usage") ELSE <<"calls", done>>
    [] words # <<>> /\ words[1][1] = "name" ->
         ParseGetInvocations(Tail(words), Append(done, [func |-> words[1][2], args |-> <<>>]))
    [] OTHER -> IF done = <<>> \/ Len(words) = 1 THEN Error("usage")
                ELSE ParseGetInvocations(SubSeq(words, 3, Len(words)),
                       [done EXCEPT ![Len(done)].args = (words[1][2] :> words[2][2]) @@ @])

FirstNamed(s, name) == SelectSeq(s, LAMBDA x : x.name = name)

\* Variant: a parameter without a value is left in the condition.
ApplyGetCarelessly(plan, gets, call, idx, order) ==
  LET func == FirstNamed(gets, call.func)[1]
      base == FirstNamed(plan.aggregates, func.aggregate)[1]
  IN IF FirstNamed(gets, call.func) = <<>> THEN Error("get")
     ELSE <<"aggregate", [base EXCEPT !.name = func.name \o "_" \o ToString(idx),
                            !.where_clause = IF func.where_clause = NoValue THEN @
                                             ELSE func.where_clause]>>

\* A condition with the mark of one parameter replaced by its value.
Filled(where, x, value) ==
  FlattenSeq([i \in DOMAIN where |-> IF where[i] = ParamMark(x) THEN value ELSE <<where[i]>>])

\* The aggregate one call fetches: the base, overridden by what the function says.  The
\* parameters are filled in one after another, in the order of a hash table: a value that
\* holds the mark of another parameter may be filled in again.
ApplyGet(plan, gets, call, idx, order) ==
  LET func == FirstNamed(gets, call.func)[1]
      params == func.params
      named == {params[i].name : i \in DOMAIN params}
      value == [x \in named |->
                  LET p == FirstNamed(params, x)[1]
                  IN IF x \in DOMAIN call.args THEN <<call.args[x]>>
                     ELSE IF p.default # <<>> THEN AsString(p.default[1]) ELSE Error("usage")]
      base == FirstNamed(plan.aggregates, func.aggregate)[1]
      where == IF func.where_clause = NoValue THEN base.where_clause
               ELSE <<"string", FoldLeft(LAMBDA w, x : Filled(w, x, value[x]), func.where_clause[2],
                                         SelectSeq(order, LAMBDA x : x \in named))>>
      limit == CASE func.limit = NoValue -> base.limit
                 [] func.limit[1] = "int" -> func.limit
                 [] func.limit[1] = "param" -> Parsed(value[func.limit[2]], "int", Numeral)
      either(x, y) == IF x = <<>> THEN y ELSE x
      kept(x, y) == IF x = NoValue THEN y ELSE x
  IN IF FirstNamed(gets, call.func) = <<>> THEN Error("get")
     ELSE IF \E x \in named : value[x] = Error("usage") THEN Error("usage")
     ELSE IF FirstNamed(plan.aggregates, func.aggregate) = <<>> THEN Error("aggregate")
     ELSE IF IsError(limit) THEN limit
     ELSE <<"aggregate",
            [base EXCEPT !.name = func.name \o "_" \o ToString(idx),
               !.where_clause = where, !.limit = limit,
               !.order_by = kept(func.order_by, @), !.order_direction = kept(func.order_direction, @),
               !.exclude_tables = either(func.exclude_tables, @),
               !.exclude_patterns = either(func.exclude_patterns, @),
               !.root_only = func.root_only \/ @]>>

\* Post-processing is dropped; relations, exclusions and anonymization stay.
ApplyGetInvocations(r, calls, orders) ==
  LET found == [i \in DOMAIN calls[2] |-> ApplyGet(r.plan, r.gets, calls[2][i], i - 1, orders[i])]
      bad == SelectSeq(found, IsError)
  IN IF IsError(calls) THEN [err |-> calls[2], plan |-> EmptyPlan]
     ELSE IF bad # <<>> THEN [err |-> bad[1][2], plan |-> EmptyPlan]
     ELSE [err |-> "", plan |-> [r.plan EXCEPT
             !.aggregates = [i \in DOMAIN found |-> found[i][2]], !.aggregates_only = TRUE,
             !.preserves = <<>>, !.sets = <<>>, !.after_statements = <<>>]]

ParamOrders ==
  SetToSeqs(UNION {{g.params[i].name : i \in DOMAIN g.params} : g \in ToSet(imported[1].gets)})

Get ==
  /\ imported # <<>> /\ imported[1].err = "" /\ got = <<>>
  /\ \E words \in GetArgs :
       LET calls == ParseGetInvocations(words, <<>>)
       IN \E orders \in [IF IsError(calls) THEN {} ELSE DOMAIN calls[2] -> ParamOrders] :
            got' = <<ApplyGetInvocations(imported[1], calls, orders)>>
  /\ UNCHANGED <<proj, given, text, parser, checked, imported>>

Next ==
  \/ ParseOne
  \/ \E order \in Orders : Check(order)
  \/ Provide
  \/ \E order \in Orders : Import(order)
  \/ Get

Spec == Init /\ [][Next]_vars

-----------------------------------------------------------------------------
(* Properties. *)

Body == Root.body
Spans == {SpanOf(i) : i \in DOMAIN Body}

\* An accepted text has exactly the statements that were written, each from its first to its
\* last token, also when a token was lost that could be done without; a text that lost no
\* token is accepted (Parser::program).  After an error the parser finds the other statements
\* again: an undamaged statement is parsed, unless the error was met at its very first token
\* (Parser::synchronize).
ParsedAsWritten ==
  AtEnd /\ ~Root.json =>
    /\ parser.errors = {} => parser.parsed = Spans
    /\ proj.damage = <<0, 0>> => parser.errors = {}
    /\ \A i \in DOMAIN Body \ {proj.damage[1]} :
         SpanOf(i) \in parser.parsed \/ SpanOf(i)[1] \in parser.errors

\* A condition is read back as the tree it was written from, although only the parentheses
\* that precedence and left association call for were written (Parser::binary_level).
ConditionsKeepTheirShape ==
  proj.damage = <<0, 0>> /\ ~Root.json =>
    \A i \in DOMAIN Body :
      Body[i].when # <<>> => Condition(text, SpanOf(i)[1]) = Tree(Body[i].when[1])

\* Whatever the text, every turn of the loop moves the parser forward, recovery included, so
\* that it comes to the end of the text ("Always makes progress", Parser::synchronize), and
\* never past it (Parser::bump).
ParserAdvances ==
  [][parser' # parser => parser'.pos \in parser.pos + 1 .. Len(text) + 1]_vars

Ok(result) == result # <<>> /\ result[1].err = ""

RECURSIVE VarsIn(_)
VarsIn(e) ==
  CASE e[1] = "var" -> {e[2]}
    [] e[1] = "lit" -> {}
    [] OTHER -> UNION {VarsIn(e[i]) : i \in 2 .. Len(e)}
AllStatements == UNION {ToSet(proj.files[f].body) : f \in DOMAIN proj.files}
Conditions == UNION {ToSet(s.when) : s \in AllStatements}

Interpolates(literal) ==
  \/ literal[1] = "string" /\ \E i \in DOMAIN literal[2] : literal[2][i][1] # "text"
  \/ literal[1] = "strings" /\ \E j \in DOMAIN literal[2] :
                                 \E i \in DOMAIN literal[2][j] : literal[2][j][i][1] # "text"
PlainDefaults ==
  \A s \in AllStatements : s.kind = "var" => \A i \in DOMAIN s.default : ~Interpolates(s.default[i])

\* What `jibs check` accepts, an import accepts: if the check passed and every variable it
\* reported was given a text of its type, the import resolves, to the same plan if nothing
\* was missing.  Not so where a condition depends on a missing variable (the check takes
\* it for false or zero), where an array is missing (no text can provide one), and where
\* the default of a JSON variable mentions another (the order is the hash table's).
CheckPredictsImport ==
  LET missing == checked[1].missing
  IN /\ Ok(checked) /\ imported # <<>>
     /\ \A x \in DOMAIN missing :
          /\ x \in DOMAIN given /\ missing[x] # "strings"
          /\ ~IsError(Coerce(<<"string", <<given[x]>>>>, missing[x]))
          /\ \A c \in Conditions : x \notin VarsIn(c)
     /\ Root.json => PlainDefaults
     => /\ Ok(imported)
        /\ missing = <<>> => imported[1].plan = checked[1].plan
        /\ Len(imported[1].plan.aggregates) = Len(checked[1].plan.aggregates)
        /\ imported[1].plan.after_statements = checked[1].plan.after_statements

\* A variable that was given keeps its value whatever the files declare: flags first, then
\* the variable file (collect_vars, finalize_variables).
GivenValuesWin ==
  Ok(imported) =>
    \A x \in DOMAIN given \cap DOMAIN imported[1].plan.variables :
      LET v == imported[1].plan.variables[x]
      IN /\ v \in {<<"string", <<given[x]>>>>, Parsed(<<given[x]>>, "int", Numeral),
                    Parsed(<<given[x]>>, "bool", Truth)}
         /\ x \in DOMAIN proj.flags => given[x] = proj.flags[x]

\* What the DSL sends to the server, for an import or a get, is complete: every faker it
\* names is defined, every pattern compiles, no parameter of a get function is left (in the
\* order of a hash table; no value considered holds the mark of a parameter itself, which
\* would then stay or be filled in again, apply_get_invocations).
PlansAreReady ==
  ~Root.json =>
    \A result \in {imported, got} :
      Ok(result) =>
        LET plan == result[1].plan
        IN /\ FakersDefined(plan) /\ PatternsCompile(plan, <<>>)
           /\ \A i \in DOMAIN plan.aggregates :
                 LET where == plan.aggregates[i].where_clause
                 IN where # NoValue =>
                      ToSet(where[2]) \cap {ParamMark(x) : x \in {"id", "n"}} = {}

\* The main file counts as imported from the start.
ImportsOf(f) ==
  {Locate(f, s.path) : s \in ToSet(OfKind(proj.files[f].body, "import"))}
    \cap (DOMAIN proj.files \ {proj.root})
RECURSIVE ReachedFrom(_)
ReachedFrom(fs) ==
  LET more == fs \cup UNION {ImportsOf(f) : f \in fs} IN IF more = fs THEN fs ELSE ReachedFrom(more)
Below(f) == ReachedFrom(ImportsOf(f))

\* The SQL of a file's after blocks, as both formats put it into the plan.
SqlOf(f) ==
  LET blocks == OfKind(proj.files[f].body, "after")
  IN FlattenSeq([i \in DOMAIN blocks |-> Map(blocks[i].sql, RawText)])

OneFormat == \A f \in DOMAIN proj.files : proj.files[f].json = Root.json

OnlyAfter ==
  /\ \A s \in AllStatements : s.kind \in {"import", "after"} /\ s.when = <<>>
  /\ \A f \in DOMAIN proj.files :
       /\ ~proj.files[f].broken
       /\ \A s \in ToSet(OfKind(proj.files[f].body, "import")) : Locate(f, s.path) \in DOMAIN proj.files
  /\ parser.errors = {}

\* After blocks run depth first: every statement of every imported file once, in the order of
\* its file, and after those of the files below it, also when imports form a diamond or a
\* cycle (ExecutionPlan::after_statements, process_import); and files that only import files
\* which are there, and have after blocks, resolve.  Not so when JSON imports DSL files:
\* each is resolved on its own and may bring in a shared file again.
ImportsRunFirst ==
  /\ OnlyAfter /\ OneFormat /\ imported # <<>> => Ok(imported)
  /\ Ok(imported) /\ OneFormat =>
    LET run == imported[1].plan.after_statements
        place(sql) == CHOOSE i \in DOMAIN run : run[i] = sql
        files == ReachedFrom({proj.root})
    IN /\ IsInjective(run)
       /\ Conditions = {} => ToSet(run) = UNION {ToSet(SqlOf(f)) : f \in files}
       /\ \A f \in files, g \in files :
            \A i \in DOMAIN SqlOf(f), j \in DOMAIN SqlOf(g) :
              /\ SqlOf(f)[i] \in ToSet(run) /\ SqlOf(g)[j] \in ToSet(run)
              /\ \/ f = g /\ j < i
                 \/ g \in Below(f) /\ f \notin Below(g)
              => place(SqlOf(g)[j]) < place(SqlOf(f)[i])

(* The JSON form of a DSL statement, for those that have one. *)
JsonParts(parts) ==
  [i \in DOMAIN parts |-> IF parts[i][1] = "text" THEN parts[i] ELSE <<"braced", parts[i][2][2]>>]
JsonLiteral(l) ==
  CASE l[1] = "string"  -> <<"string", JsonParts(l[2])>>
    [] l[1] = "strings" -> <<"strings", [i \in DOMAIN l[2] |-> JsonParts(l[2][i])]>>
    [] OTHER -> l
JsonStatement(s) ==
  CASE s.kind = "var"   -> [s EXCEPT !.default = Map(@, JsonLiteral)]
    [] s.kind = "faker" -> [s EXCEPT !.source = Map(@, LAMBDA i : <<"lit", JsonParts(i[2])>>)]
    [] s.kind = "aggregate" -> [s EXCEPT !.where = Map(@, JsonParts)]
    [] s.kind = "preserve"  -> [s EXCEPT !.where = JsonParts(@)]
    [] OTHER -> s

PlainParts(parts) == \A i \in DOMAIN parts : parts[i][1] = "text" \/ parts[i][2][1] = "var"
HasJsonForm(s) ==
  /\ \A i \in DOMAIN s.when : s.when[i][1] = "var" \/ (s.when[i][1] = "!" /\ s.when[i][2][1] = "var")
  /\ CASE s.kind = "var"   -> s.when = <<>> /\ \A d \in ToSet(s.default) : d # NoValue /\ ~Interpolates(d)
       [] s.kind = "faker" -> \A i \in DOMAIN s.source : s.source[i][1] = "lit" /\ PlainParts(s.source[i][2])
       [] s.kind \in {"exclude", "ignore"} -> \A i \in DOMAIN s.patterns : s.patterns[i][1] = "exact"
       [] s.kind = "aggregate" -> s.exclude = <<>> /\ ~s.root_only /\ \A i \in DOMAIN s.where : PlainParts(s.where[i])
       [] s.kind = "preserve"  -> PlainParts(s.where)
       [] s.kind = "set"       -> \A a \in ToSet(s.match \o s.assign) : a[2][1] = "lit" /\ a[2][2][1] \in {"int", "bool"}
       [] OTHER -> s.kind \in {"relation", "ignore_relation", "anonymize", "after"}

SameOutcome(a, b) == (a.err = "") = (b.err = "") /\ a.plan = b.plan

\* The two formats agree: a DSL file that can be said in JSON means the same there, whatever
\* the order of its statements and of the hash table, unless it anonymizes a table twice
\* (resolve, JsonResolver::resolve).
FormatsAgree ==
  LET anonymized == OfKind(Body, "anonymize")
      files == [proj.files EXCEPT ![proj.root].json = TRUE, ![proj.root].body = Map(@, JsonStatement)]
  IN /\ imported # <<>> /\ ~Root.json /\ parser.errors = {}
     /\ \A i \in DOMAIN Body : HasJsonForm(Body[i])
     /\ \A i, j \in DOMAIN anonymized : anonymized[i].table = anonymized[j].table => i = j
     => \A order \in Orders :
          SameOutcome(Outcome(ValidatePlan(ParseJsonConfig(files, proj.root, given, order))),
                      imported[1])

DefaultsOf(f, x) == SelectSeq(OfKind(proj.files[f].body, "var"), LAMBDA s : s.name = x /\ s.default # <<>>)

\* A declaration of the main file overrides those of the files it imports.
LaterDeclarationsOverride ==
  Ok(imported) =>
    \A x \in DOMAIN imported[1].plan.variables \ DOMAIN given :
      DefaultsOf(proj.root, x) # <<>> /\ imported[1].plan.variables[x][1] = "int" =>
        imported[1].plan.variables[x] = Last(DefaultsOf(proj.root, x)).default[1]
=============================================================================
