------------------------------- MODULE Parser -------------------------------
(***************************************************************************)
(* The recursive-descent parser of the configuration language              *)
(* (parser/src/parser.rs).  A token is its class: what an identifier, a    *)
(* number or a string says is left out, except that "badstring" is a       *)
(* string with a malformed interpolation.                                  *)
(*                                                                         *)
(* Every decision of the parser is taken on the next token, so a function  *)
(* of the source is a grammar term here, and Run walks through a term the  *)
(* way the functions walk through the tokens.  The result of a function is *)
(* [ok, pos, bad]: whether it succeeded, where the parser stands then, and *)
(* the malformed strings it reported on the way.                           *)
(***************************************************************************)
EXTENDS Naturals, Sequences, FiniteSets, SequencesExt

(* Grammar terms. *)
Tok(t)      == [g |-> "tok", t |-> {t}]     \* expect
AnyTok(T)   == [g |-> "tok", t |-> T]
Lit         == [g |-> "lit"]                \* string_literal
ExprTerm    == [g |-> "expr"]
Then(gs)    == [g |-> "seq", of |-> gs]
Opt(x)      == [g |-> "opt", of |-> x]
Many(x)     == [g |-> "many", of |-> x]
Alt(gs)     == [g |-> "alt", of |-> gs]
Late(x, T)  == [g |-> "late", of |-> x, t |-> T]  \* x, then a look at its last token

Ident       == Tok("ident")
Strings     == {"string", "badstring"}
StringRaw   == AnyTok(Strings)

CommaList(x)       == Then(<<x, Many(Then(<<Tok(","), x>>))>>)
Bracketed(x, b, c) == Then(<<Tok(b), [g |-> "items", of |-> x, close |-> c], Tok(c)>>)

(* The tokens a term can begin with: what the source peeks for. *)
RECURSIVE First(_)
First(x) ==
  CASE x.g = "tok" -> x.t
    [] x.g = "lit" -> Strings
    [] x.g = "seq" -> First(x.of[1])
    [] x.g = "alt" -> UNION {First(x.of[i]) : i \in DOMAIN x.of}
    [] OTHER       -> First(x.of)

(***************************************************************************)
(* The language.                                                           *)
(***************************************************************************)
SignedNumber == Alt(<<AnyTok({"int", "float"}),
                      Then(<<Tok("-"), AnyTok({"int", "float"})>>)>>)

\* The next token decides the type of an array, except that a minus needs one more.
ArrayLiteral ==
  Then(<<Tok("["),
         [g |-> "array",
          of |-> [string |-> Lit, badstring |-> Lit, bool |-> Tok("bool"),
                  int |-> Late(SignedNumber, {"int"}), float |-> Late(SignedNumber, {"float"})]]>>)

Literal == Alt(<<ArrayLiteral, Lit, Tok("bool"), Tok("null"), SignedNumber>>)
AssignedValue == Alt(<<Then(<<Tok("$"), Ident>>), Lit, Tok("bool"), SignedNumber>>)
Assignment == Then(<<Ident, Tok("="), AssignedValue>>)

VarType ==
  Then(<<AnyTok({"tstring", "tint", "tfloat", "tbool"}), Opt(Then(<<Tok("["), Tok("]")>>))>>)
VarDecl == Then(<<Ident, Tok(":"), VarType, Opt(Then(<<Tok("="), Literal>>))>>)

TablePattern == AnyTok({"regex", "ident"})

TablePatternList == CommaList(TablePattern)
ColumnRef == Then(<<Ident, Tok("."), Ident>>)

QueryClauses ==
  <<Opt(Then(<<Tok("where"), Lit>>)),
    Opt(Then(<<Tok("order"), Tok("by"), Ident, Opt(AnyTok({"asc", "desc"}))>>)),
    Opt(Then(<<Tok("limit"), Alt(<<Tok("int"), Then(<<Tok("$"), Ident>>)>>)>>)),
    Opt(Then(<<Tok("exclude"), TablePatternList>>)),
    Opt(Tok("root_only"))>>

ImportStmt   == Then(<<Tok("import"), StringRaw>>)
VarStmt      == Then(<<Tok("var"), VarDecl>>)
FakerStmt    ==
  Then(<<Tok("faker"), Ident,
         Alt(<<Then(<<Tok("$"), Ident>>),
               Bracketed(Alt(<<Then(<<Tok("..."), Tok("$"), Ident>>), Lit>>), "[", "]")>>)>>)
RelationStmt == Then(<<AnyTok({"relation", "ignore_relation"}), ColumnRef, Tok("->"), ColumnRef>>)
AnonymizeStmt ==
  Then(<<Tok("anonymize"), Ident, Tok("{"),
         Many(Then(<<Ident, Tok("->"), AnyTok({"null", "ident"})>>)), Tok("}")>>)
TableStmt    == Then(<<AnyTok({"exclude_data", "ignore_table"}), TablePattern>>)
FullStmt     == Then(<<Tok("full"), TablePatternList>>)
AggregateStmt ==
  Then(<<Tok("aggregate"), Ident, Tok("{"), Tok("root"), Ident>> \o QueryClauses \o <<Tok("}")>>)
GetStmt ==
  Then(<<Tok("get"), Ident, Bracketed(VarDecl, "(", ")"), Tok("{"), Ident>>
         \o QueryClauses \o <<Tok("}")>>)
PreserveStmt == Then(<<Tok("preserve"), Ident, Tok("where"), Lit>>)
SetStmt ==
  Then(<<Tok("set"), Ident, Tok("{"), Tok("match"), CommaList(Assignment),
         Many(Assignment), Tok("}")>>)
AfterStmt ==
  Then(<<Tok("after"), Tok("{"), Many(AnyTok(Strings \cup {"multiline"})), Tok("}")>>)

StatementKind ==
  Alt(<<ImportStmt, VarStmt, FakerStmt, RelationStmt, AnonymizeStmt, TableStmt, FullStmt,
        AggregateStmt, GetStmt, PreserveStmt, SetStmt, AfterStmt>>)

Attribute ==
  Then(<<Tok("#"), Tok("["), Tok("when"), Tok("("), ExprTerm, Tok(")"), Tok("]")>>)

\* Variant: recovery does not know the after block.
StartsWithoutAfter ==
  {"#", "import", "var", "faker", "relation", "ignore_relation", "anonymize", "exclude_data",
   "ignore_table", "full", "aggregate", "get", "preserve", "set"}

\* Tokens that can start a statement (starts_statement).
StartsStatement ==
  {"#", "import", "var", "faker", "relation", "ignore_relation", "anonymize", "exclude_data",
   "ignore_table", "full", "aggregate", "get", "preserve", "set", "after"}

(***************************************************************************)
(* The walk.                                                               *)
(***************************************************************************)
Peek(toks, p) == IF p \in DOMAIN toks THEN toks[p] ELSE "end"

Done(p) == [ok |-> TRUE, pos |-> p, bad |-> {}]
Fail(p) == [ok |-> FALSE, pos |-> p, bad |-> {}]
After(r, s) == [s EXCEPT !.bad = @ \cup r.bad]    \* s, reached through r

\* string_literal: a malformed interpolation is reported, and the parser goes on.
StringLiteral(toks, p) ==
  CASE Peek(toks, p) = "string"    -> Done(p + 1)
    [] Peek(toks, p) = "badstring" -> [Done(p + 1) EXCEPT !.bad = {p}]
    [] OTHER                       -> Fail(p)

\* Variant: or binds more than and.
LevelsSwapped == <<{"&&"}, {"||"}, {"==", "!="}, {"<", ">", "<=", ">="}, {"+", "-"}, {"*", "/", "%"}>>

\* The operators, from the ones that bind least to the ones that bind most.
Levels == <<{"||"}, {"&&"}, {"==", "!="}, {"<", ">", "<=", ">="}, {"+", "-"}, {"*", "/", "%"}>>

Node(r, tree) == [ok |-> r.ok, pos |-> r.pos, bad |-> r.bad, tree |-> tree]

\* One level of the precedence climb: operands of the next level, left-associative.
RECURSIVE BinaryLevel(_, _, _)
RECURSIVE Climb(_, _, _)
RECURSIVE UnaryExpr(_, _)
Climb(toks, k, left) ==
  IF ~left.ok \/ Peek(toks, left.pos) \notin Levels[k] THEN left
  ELSE LET right == After(left, BinaryLevel(toks, k + 1, left.pos + 1))
       IN IF ~right.ok THEN right
          ELSE Climb(toks, k, Node(right, <<Peek(toks, left.pos), left.tree, right.tree>>))
BinaryLevel(toks, k, p) ==
  IF k > Len(Levels) THEN UnaryExpr(toks, p) ELSE Climb(toks, k, BinaryLevel(toks, k + 1, p))

Expr(toks, p) == BinaryLevel(toks, 1, p)

PrimaryExpr(toks, p) ==
  LET t == Peek(toks, p)
      inner == Expr(toks, p + 1)
  IN CASE t = "$" -> Node(IF Peek(toks, p + 1) = "ident" THEN Done(p + 2) ELSE Fail(p + 1), <<"$">>)
       [] t \in {"int", "float", "bool"} -> Node(Done(p + 1), <<t>>)
       [] t \in Strings -> Node(StringLiteral(toks, p), <<"string">>)
       [] t = "(" -> IF inner.ok /\ Peek(toks, inner.pos) # ")"
                     THEN [inner EXCEPT !.ok = FALSE]
                     ELSE IF inner.ok THEN [inner EXCEPT !.pos = @ + 1] ELSE inner
       [] OTHER -> Node(Fail(p), <<>>)
UnaryExpr(toks, p) ==
  IF Peek(toks, p) \notin {"!", "-"} THEN PrimaryExpr(toks, p)
  ELSE LET inner == UnaryExpr(toks, p + 1) IN Node(inner, <<Peek(toks, p), inner.tree>>)

RECURSIVE Run(_, _, _)
RECURSIVE Items(_, _, _, _)
\* Items up to the closing token, a comma between them and perhaps after the last.
Items(toks, x, close, p) ==
  LET r == Run(toks, x, p) IN
  IF ~r.ok \/ Peek(toks, r.pos) # "," THEN r
  ELSE IF Peek(toks, r.pos + 1) = close THEN [r EXCEPT !.pos = @ + 1]
  ELSE After(r, Items(toks, x, close, r.pos + 1))

\* The rest of an array after its bracket.
ArrayElements(toks, x, p) ==
  LET t == IF Peek(toks, p) = "-" THEN Peek(toks, p + 1) ELSE Peek(toks, p)
      typed == /\ t \in DOMAIN x.of
               /\ Peek(toks, p) = "-" => t \in {"int", "float"}
      r == Items(toks, x.of[t], "]", p)
  IN CASE Peek(toks, p) = "]" -> Done(p + 1)
       [] Peek(toks, p) # "]" /\ ~typed -> Fail(p)
       [] OTHER -> IF r.ok THEN After(r, Run(toks, Tok("]"), r.pos)) ELSE r

Run(toks, x, p) ==
  CASE x.g = "tok"   -> IF Peek(toks, p) \in x.t THEN Done(p + 1) ELSE Fail(p)
    [] x.g = "lit"   -> StringLiteral(toks, p)
    [] x.g = "expr"  -> LET r == Expr(toks, p) IN [ok |-> r.ok, pos |-> r.pos, bad |-> r.bad]
    [] x.g = "seq"   -> FoldLeft(LAMBDA r, y : IF r.ok THEN After(r, Run(toks, y, r.pos)) ELSE r,
                                 Done(p), x.of)
    [] x.g = "opt"   -> IF Peek(toks, p) \in First(x.of) THEN Run(toks, x.of, p) ELSE Done(p)
    [] x.g = "many"  -> IF Peek(toks, p) \notin First(x.of) THEN Done(p)
                        ELSE LET r == Run(toks, x.of, p)
                             IN IF r.ok THEN After(r, Run(toks, x, r.pos)) ELSE r
    [] x.g = "alt"   -> IF Peek(toks, p) \notin First(x) THEN Fail(p)
                        ELSE LET i == CHOOSE i \in DOMAIN x.of : Peek(toks, p) \in First(x.of[i])
                             IN Run(toks, x.of[i], p)
    [] x.g = "items" -> IF Peek(toks, p) = x.close THEN Done(p) ELSE Items(toks, x.of, x.close, p)
    [] x.g = "array" -> ArrayElements(toks, x, p)
    [] x.g = "late"  -> LET r == Run(toks, x.of, p)
                        IN IF r.ok /\ Peek(toks, r.pos - 1) \notin x.t THEN [r EXCEPT !.ok = FALSE]
                           ELSE r

\* A statement with its attribute, if it has one.
ParseStatement(toks, p) ==
  LET a == IF Peek(toks, p) = "#" THEN Run(toks, Attribute, p) ELSE Done(p)
  IN IF a.ok THEN After(a, Run(toks, StatementKind, a.pos)) ELSE a

\* The condition of the statement at p, as a tree of operators.
Condition(toks, p) == Expr(toks, p + 4).tree

\* Variant: recovery does not move.
SynchronizeInPlace(toks, p) == p

\* Skip a token, then everything that cannot start a statement.
Synchronize(toks, p) ==
  CHOOSE q \in p .. Len(toks) + 1 :
    /\ q = Len(toks) + 1 \/ (q > p /\ toks[q] \in StartsStatement)
    /\ \A i \in p + 1 .. q - 1 : toks[i] \notin StartsStatement
=============================================================================
