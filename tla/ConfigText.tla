----------------------------- MODULE ConfigText -----------------------------
(***************************************************************************)
(* How a statement of the configuration language is written, as token      *)
(* classes, and the tree of its condition: the reference against which the *)
(* parser is checked.  Statements are the records of module Resolver;      *)
(* conditions are written with as few parentheses as the precedence of the *)
(* operators allows.                                                       *)
(***************************************************************************)
EXTENDS Naturals, Sequences, SequencesExt

LOCAL Level(op) ==
  CASE op = "||" -> 1
    [] op = "&&" -> 2
    [] op \in {"==", "!="} -> 3
    [] op \in {"<", ">", "<=", ">="} -> 4
    [] op \in {"+", "-"} -> 5
    [] op \in {"*", "/", "%"} -> 6

Separated(parts, sep) ==
  FlattenSeq([i \in DOMAIN parts |-> (IF i = 1 THEN <<>> ELSE sep) \o parts[i]])
Map(s, Op(_)) == [i \in DOMAIN s |-> Op(s[i])]
Optional(o, Op(_)) == IF o = <<>> THEN <<>> ELSE Op(o[1])

RECURSIVE WrittenExpr(_, _)
WrittenExpr(e, k) ==
  CASE e[1] = "var" -> <<"$", "ident">>
    [] e[1] = "lit" -> <<e[2][1]>>
    [] e[1] \notin {"var", "lit"} /\ Len(e) = 2 -> <<e[1]>> \o WrittenExpr(e[2], 7)
    [] OTHER -> LET j == Level(e[1])
                    text == WrittenExpr(e[2], j) \o <<e[1]>> \o WrittenExpr(e[3], j + 1)
                IN IF j >= k THEN text ELSE <<"(">> \o text \o <<")">>

\* The tree the parser must find: operators, and the class of each leaf.
RECURSIVE Tree(_)
Tree(e) ==
  CASE e[1] = "var" -> <<"$">>
    [] e[1] = "lit" -> <<e[2][1]>>
    [] e[1] \notin {"var", "lit"} /\ Len(e) = 2 -> <<e[1], Tree(e[2])>>
    [] OTHER -> <<e[1], Tree(e[2]), Tree(e[3])>>

WrittenType(t) == IF t = "strings" THEN <<"tstring", "[", "]">> ELSE <<"t" \o t>>
WrittenLiteral(l) ==
  CASE l[1] = "strings" -> <<"[">> \o Separated(Map(l[2], LAMBDA x : <<"string">>), <<",">>) \o <<"]">>
    [] l[1] = "int"     -> IF l[2] < 0 THEN <<"-", "int">> ELSE <<"int">>
    [] OTHER            -> <<l[1]>>

WrittenDecl(d) ==
  <<"ident", ":">> \o WrittenType(d.type) \o Optional(d.default, LAMBDA l : <<"=">> \o WrittenLiteral(l))

WrittenPattern(p) == IF p[1] = "exact" THEN <<"ident">> ELSE <<"regex">>
WrittenPatterns(ps) == Separated(Map(ps, WrittenPattern), <<",">>)
WrittenValue(e) == IF e[1] = "var" THEN <<"$", "ident">> ELSE WrittenLiteral(e[2])
WrittenAssignment(a) == <<"ident", "=">> \o WrittenValue(a[2])

WrittenClauses(s) ==
  Optional(s.where, LAMBDA w : <<"where", "string">>)
  \o Optional(s.order, LAMBDA o : <<"order", "by", "ident">>
                                    \o (IF o[2][1] = "null" THEN <<>> ELSE <<o[2][1]>>))
  \o Optional(s.limit, LAMBDA l : <<"limit">> \o (IF l[1] = "var" THEN <<"$", "ident">> ELSE <<"int">>))
  \o (IF s.exclude = <<>> THEN <<>> ELSE <<"exclude">> \o WrittenPatterns(s.exclude))
  \o (IF s.root_only THEN <<"root_only">> ELSE <<>>)

WrittenSource(source) ==
  IF Len(source) = 1 /\ source[1][1] = "spread" THEN <<"$", "ident">>
  ELSE <<"[">>
       \o Separated(Map(source, LAMBDA i : IF i[1] = "spread" THEN <<"...", "$", "ident">>
                                           ELSE <<"string">>), <<",">>)
       \o <<"]">>

WrittenKind(s) ==
  CASE s.kind = "import"   -> <<"import", "string">>
    [] s.kind = "var"      -> <<"var">> \o WrittenDecl(s)
    [] s.kind = "faker"    -> <<"faker", "ident">> \o WrittenSource(s.source)
    [] s.kind \in {"relation", "ignore_relation"} ->
         <<s.kind, "ident", ".", "ident", "->", "ident", ".", "ident">>
    [] s.kind = "anonymize" ->
         <<"anonymize", "ident", "{">>
         \o Separated(Map(s.rules, LAMBDA r : <<"ident", "->", IF r[2][1] = "null" THEN "null" ELSE "ident">>),
                      <<>>)
         \o <<"}">>
    [] s.kind = "exclude"  -> <<"exclude_data">> \o WrittenPattern(s.patterns[1])
    [] s.kind = "ignore"   -> <<"ignore_table">> \o WrittenPattern(s.patterns[1])
    [] s.kind = "full"     -> <<"full">> \o WrittenPatterns(s.patterns)
    [] s.kind = "aggregate" ->
         <<"aggregate", "ident", "{", "root", "ident">> \o WrittenClauses(s) \o <<"}">>
    [] s.kind = "get" ->
         <<"get", "ident", "(">> \o Separated(Map(s.params, WrittenDecl), <<",">>)
         \o <<")", "{", "ident">> \o WrittenClauses(s) \o <<"}">>
    [] s.kind = "preserve" -> <<"preserve", "ident", "where", "string">>
    [] s.kind = "set" ->
         <<"set", "ident", "{", "match">> \o Separated(Map(s.match, WrittenAssignment), <<",">>)
         \o Separated(Map(s.assign, WrittenAssignment), <<>>) \o <<"}">>
    [] s.kind = "after"    -> <<"after", "{">> \o Map(s.sql, LAMBDA x : "string") \o <<"}">>

Written(s) ==
  Optional(s.when, LAMBDA c : <<"#", "[", "when", "(">> \o WrittenExpr(c, 1) \o <<")", "]">>)
  \o WrittenKind(s)
=============================================================================
