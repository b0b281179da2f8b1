---------------------------- MODULE MCTraversal ----------------------------
(* Orders have a customer, a customer its last order: the tables refer to   *)
(* each other in a circle.  Notes belong to a customer, which only the plan  *)
(* declares; a constraint over two columns joins notes to orders.            *)
EXTENDS Traversal

CONSTANTS o, c, n, id, ref, o1, o2, c1, c2, n1

FK(t, u) == [from |-> t, fromCol |-> ref, to |-> u, toCol |-> id]

MCConstraints == {{FK(o, c)}, {FK(c, o)}, {FK(n, o), [FK(n, o) EXCEPT !.fromCol = id]}}

MCTableOf == [r \in Rows |-> IF r \in {o1, o2} THEN o ELSE IF r = n1 THEN n ELSE c]

\* The second row of a table has the id 2.
MCData ==
  {[r \in Rows |-> [k \in Columns |->
      IF k = ref THEN refs[r] ELSE IF r \in {o2, c2} THEN 2 ELSE 1]] :
    refs \in [Rows -> Values \cup {Null}]}

Root(t, exclude) == [root |-> t, rootOnly |-> FALSE, exclude |-> exclude]
RootOnly(t) == [root |-> t, rootOnly |-> TRUE, exclude |-> {}]

Plan(aggregates, full, excluded, ignored, only) ==
  [aggregates |-> aggregates, full |-> full, excluded |-> excluded,
   ignored |-> ignored, aggregatesOnly |-> only,
   relations |-> {FK(n, c)}, ignoredRelations |-> {}]

Ignoring(p, rels) == [p EXCEPT !.ignoredRelations = rels]

MCPlans ==
  {Plan(<<Root(o, {})>>, {}, {}, {}, FALSE),
   Plan(<<Root(o, {})>>, {n}, {}, {}, FALSE),
   Plan(<<Root(o, {})>>, {}, {c}, {}, FALSE),
   Plan(<<Root(c, {})>>, {}, {}, {o}, TRUE),
   Plan(<<RootOnly(o), Root(c, {o})>>, {}, {}, {}, FALSE),
   Plan(<<Root(c, {n}), Root(c, {o})>>, {}, {}, {}, FALSE),
   Plan(<<Root(o, {c}), Root(c, {})>>, {}, {n}, {c}, FALSE),
   Plan(<<RootOnly(c)>>, {}, {n}, {}, TRUE),
   Ignoring(Plan(<<Root(c, {})>>, {}, {}, {}, TRUE), {FK(c, o), FK(n, c)}),
   Plan(<< >>, {}, {}, {}, FALSE)}

MCPlansOne == {Plan(<<Root(o, {})>>, {}, {}, {}, FALSE)}
=============================================================================
