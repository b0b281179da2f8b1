----------------------------- MODULE MCFrontEnd -----------------------------
(* Configurations for TLC: one file with every kind of statement, or some that *)
(* went wrong; conditions of every shape up to two operators deep; and small    *)
(* projects of three or four files that share variables and imports.            *)
EXTENDS FrontEnd

MCNumeral == "5" :> 5 @@ "0" :> 0 @@ "7" :> 7
MCTruth   == "yes" :> TRUE @@ "0" :> FALSE
MCTexts   == {"5", "yes", "word"}
MCGetArgs ==
  {<<<<"name", "one">>, <<"flag", "id">>, <<"name", "7">>>>,
   <<<<"name", "one">>, <<"flag", "id">>, <<"name", "7">>, <<"name", "one">>,
     <<"flag", "id">>, <<"flag", "word">>, <<"flag", "n">>, <<"name", "word">>>>,
   <<<<"name", "one">>>>, <<<<"name", "other">>>>, <<<<"flag", "id">>, <<"name", "7">>>>,
   <<<<"name", "one">>, <<"flag", "id">>>>}

Text(a)  == <<"text", a>>
V(x)     == <<"var", x>>
In(x)    == <<"expr", V(x)>>
Num(n)   == <<"int", n>>
L(l)     == <<"lit", l>>
Always(s)  == "when" :> <<>> @@ s
If(e, s)   == "when" :> <<e>> @@ s

ImportOf(path)     == Always([kind |-> "import", path |-> path])
VarOf(x, t, d)     == Always([kind |-> "var", name |-> x, type |-> t, default |-> d])
FakerOf(f, source) == Always([kind |-> "faker", name |-> f, source |-> source])
RelationOf(k)      == Always([kind |-> k, rel |-> <<<<"t", "c">>, <<"u", "d">>>>])
AnonymizeOf(t, rs) == Always([kind |-> "anonymize", table |-> t, rules |-> rs])
TablesOf(k, ps)    == Always([kind |-> k, patterns |-> ps])
NoClauses ==
  [where |-> <<>>, order |-> <<>>, limit |-> <<>>, exclude |-> <<>>, root_only |-> FALSE]
AllClauses(x) ==
  [where |-> <<<<Text("c = "), In(x)>>>>, order |-> <<<<"c", <<"desc">>>>>>, limit |-> <<V(x)>>,
   exclude |-> <<<<"exact", "u">>, <<"regex", "v.*">>>>, root_only |-> TRUE]
AggregateOf(a, cs) == Always([kind |-> "aggregate", name |-> a, root |-> "t"] @@ cs)
GetOf(f, a, ps, cs) == Always([kind |-> "get", name |-> f, aggregate |-> a, params |-> ps] @@ cs)
ParamOf(x, t, d)   == [name |-> x, type |-> t, default |-> d]
PreserveOf(ps)     == Always([kind |-> "preserve", table |-> "t", where |-> ps])
SetOf(m, a)        == Always([kind |-> "set", table |-> "t", match |-> m, assign |-> a])
AfterOf(as)        == Always([kind |-> "after", sql |-> [i \in DOMAIN as |-> <<Text(as[i])>>]])

Main == <<<<>>, "main">>
A    == <<<<>>, "a">>
B    == <<<<"sub">>, "b">>
C    == <<<<"sub">>, "c">>
File(body) == [json |-> FALSE, broken |-> FALSE, body |-> body]
Project(files, flags, file, damage) ==
  [files |-> files, root |-> Main, flags |-> flags, var_file |-> file, damage |-> damage]
Single(body, flags) == Project(Main :> File(body), flags, <<>>, <<0, 0>>)

(* Every kind of statement, most of them with every clause they can have. *)
Kinds ==
  <<ImportOf(<<"here", "a">>), VarOf("x", "int", <<Num(-1)>>),
    VarOf("y", "strings", <<<<"strings", <<<<Text("p")>>, <<Text("q")>>>>>>>>),
    FakerOf("f", <<<<"lit", <<Text("p")>>>>, <<"spread", "y">>>>), FakerOf("g", <<<<"spread", "y">>>>),
    RelationOf("relation"), RelationOf("ignore_relation"),
    AnonymizeOf("t", <<<<"c", <<"faker", "f">>>>, <<"d", <<"null">>>>>>),
    TablesOf("exclude", <<<<"exact", "u">>>>), TablesOf("ignore", <<<<"regex", "v.*">>>>),
    TablesOf("full", <<<<"exact", "u">>, <<"regex", "w.*">>>>),
    If(<<"!", V("x")>>, AggregateOf("agg", AllClauses("x"))),
    GetOf("one", "agg", <<ParamOf("id", "int", <<>>), ParamOf("n", "int", <<Num(5)>>)>>, AllClauses("id")),
    PreserveOf(<<Text("k = "), In("x")>>),
    SetOf(<<<<"c", L(Num(1))>>, <<"d", V("x")>>>>, <<<<"e", L(<<"bool", TRUE>>)>>>>),
    AfterOf(<<"s1", "s2">>)>>

\* Two statements, one of them without one of its tokens, and a third that is whole.
Broken ==
  UNION {UNION {{Project(Main :> File(<<Kinds[i], Kinds[j], AfterOf(<<"end">>)>>), <<>>, <<>>, <<1, k>>) :
                   k \in 1 .. Len(Written(Kinds[i]))} : i \in DOMAIN Kinds} : j \in DOMAIN Kinds}

\* One statement that the end of the text cuts short.
Alone == UNION {{Project(Main :> File(<<Kinds[i]>>), <<>>, <<>>, <<1, k>>) :
                   k \in 1 .. Len(Written(Kinds[i]))} : i \in DOMAIN Kinds}

Whole == {Single(Kinds, <<>>), Single(Tail(Kinds), "x" :> "5"), Single(Reverse(Kinds), <<>>)}

\* Every kind that JSON has too, in both orders, and a JSON file that includes an aggregate again.
Plain ==
  <<VarOf("x", "int", <<>>), VarOf("b", "bool", <<<<"bool", TRUE>>>>),
    FakerOf("f", <<<<"lit", <<Text("p"), In("x")>>>>>>), RelationOf("relation"),
    RelationOf("ignore_relation"), AnonymizeOf("t", <<<<"c", <<"faker", "f">>>>>>),
    TablesOf("exclude", <<<<"exact", "u">>>>), If(V("b"), TablesOf("ignore", <<<<"exact", "v">>>>)),
    AggregateOf("agg", [NoClauses EXCEPT !.where = <<<<In("x")>>>>, !.order = <<<<"c", <<"desc">>>>>>,
                                         !.limit = <<V("x")>>]),
    PreserveOf(<<In("x")>>), SetOf(<<<<"c", L(Num(1))>>>>, <<<<"e", L(<<"bool", TRUE>>)>>>>),
    If(<<"!", V("b")>>, AfterOf(<<"s1">>)), AfterOf(<<"s2", "s3">>)>>
IncludeOf(a, ps) == Always([kind |-> "include", aggregate |-> a, where |-> ps])
Including ==
  Map(Plain, JsonStatement)
    \o <<IncludeOf("agg", <<<<Text("d = "), <<"braced", "x">>, <<"bare", "z">>>>>>),
         IncludeOf("agg", <<>>), IncludeOf("none", <<>>)>>
Formats ==
  {Single(body, flags) : body \in {Plain, Reverse(Plain)}, flags \in {<<>>, "x" :> "5", "x" :> "word"}}
    \cup {Project(Main :> [File(Including) EXCEPT !.json = TRUE], "x" :> "5", <<>>, <<0, 0>>)}

(* Conditions. *)
Leaves  == {V("x"), L(<<"bool", TRUE>>)}
Ops     == {"||", "&&", "==", "<", "-", "*"}
Simple  == Leaves \cup {<<op, V("x")>> : op \in {"!", "-"}}
             \cup {<<op, V("x"), L(Num(5))>> : op \in Ops}
Conds   == Simple \cup {<<op, e>> : op \in {"!", "-"}, e \in Simple}
             \cup {<<op, e1, e2>> : op \in Ops, e1 \in Simple, e2 \in Simple}
Conditional == {Single(<<VarOf("x", "int", <<Num(7)>>), If(c, AfterOf(<<"s">>))>>, <<>>) : c \in Conds}

(* Projects of several files: main, a beside it, b and c in a directory below. *)
ImportA == ImportOf(<<"here", "a">>)
ImportB == ImportOf(<<"sub", "b">>)
Uses ==
  {<<>>, <<If(V("x"), TablesOf("exclude", <<<<"exact", "u">>>>))>>,
   <<AggregateOf("agg", [NoClauses EXCEPT !.where = <<<<Text("c = "), In("x")>>>>, !.limit = <<V("x")>>])>>,
   <<AggregateOf("agg", NoClauses),
     GetOf("one", "agg", <<ParamOf("id", "string", <<>>), ParamOf("n", "int", <<Num(5)>>)>>,
           [NoClauses EXCEPT !.where = <<<<Text("c = "), In("id"), In("x")>>>>, !.limit = <<V("n")>>])>>,
   <<FakerOf("f", <<<<"lit", <<In("x")>>>>>>), AnonymizeOf("t", <<<<"c", <<"faker", "f">>>>>>),
     PreserveOf(<<In("x")>>)>>}
Declarations == {<<>>, <<VarOf("x", "int", <<>>)>>, <<VarOf("x", "int", <<Num(5)>>)>>,
                 <<VarOf("x", "bool", <<>>)>>}
Mains == {is \o ds \o us \o <<AfterOf(<<"m">>)>> :
            is \in {<<>>, <<ImportA>>, <<ImportA, ImportB>>, <<ImportB, ImportA>>,
                   <<If(<<"!", V("x")>>, ImportA)>>},
            ds \in Declarations, us \in Uses}
As == {is \o ds \o <<AfterOf(<<"a1", "a2">>)>> :
         is \in {<<>>, <<ImportB>>, <<ImportOf(<<"here", "main">>)>>},
         ds \in {<<>>, <<VarOf("x", "int", <<Num(7)>>)>>}}
Bs == {is \o <<AfterOf(<<"b">>)>> : is \in {<<ImportOf(<<"up", "a">>)>>, <<ImportOf(<<"here", "c">>)>>}}
Given == {<<<<>>, <<>>>>, <<"x" :> "5", "x" :> "7">>, <<<<>>, "x" :> "yes">>}

Families ==
  {Project(Main :> File(m) @@ A :> File(a) @@ B :> File(b) @@ C :> File(<<AfterOf(<<"c">>)>>),
           g[1], g[2], <<0, 0>>) : m \in Mains, a \in As, b \in Bs, g \in Given}

(* Some mistakes: no such file, a file that does not parse, a faker or a pattern that is wrong. *)
Mistakes ==
  {Project(Main :> File(m) @@ A :> [File(<<>>) EXCEPT !.broken = TRUE], <<>>, <<>>, <<0, 0>>) :
     m \in {<<ImportA>>, <<ImportB>>, <<ImportOf(<<"up", "a">>)>>, <<TablesOf("full", <<<<"regex", "(">>>>)>>,
           <<AnonymizeOf("t", <<<<"c", <<"faker", "f">>>>>>)>>,
           <<AggregateOf("agg", NoClauses),
             GetOf("one", "agg", <<>>, [NoClauses EXCEPT !.exclude = <<<<"regex", "(">>>>])>>,
           <<GetOf("one", "agg", <<>>, NoClauses), AggregateOf("agg", NoClauses)>>}}

(* The JSON form of the projects that have one, whole or of the main file only. *)
InJson(p, fs) ==
  [p EXCEPT !.files = [f \in DOMAIN @ |->
     IF f \in fs THEN [@[f] EXCEPT !.json = TRUE, !.body = Map(@, JsonStatement)] ELSE @[f]]]
WithJsonForm ==
  {p \in Families : \A f \in DOMAIN p.files : \A i \in DOMAIN p.files[f].body :
     p.files[f].body[i].kind = "import" \/ HasJsonForm(p.files[f].body[i])}
JsonProjects == {InJson(p, fs) : p \in WithJsonForm, fs \in {{Main, A, B, C}, {Main}}}

MCProjects == Broken \cup Alone \cup Whole \cup Formats \cup Conditional \cup Families \cup Mistakes \cup JsonProjects
MCBadRegex == {"("}
=============================================================================
