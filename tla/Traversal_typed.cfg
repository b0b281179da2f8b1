SPECIFICATION Spec
CONSTANTS
  o = o
  c = c
  n = n
  id = id
  ref = ref
  o1 = o1
  o2 = o2
  c1 = c1
  c2 = c2
  n1 = n1
  Null = Null
  Tables = {o, c, n}
  Columns = {id, ref}
  Values = {1, 2}
  Rows = {o1, o2, c1, c2, n1}
  Constraints <- MCConstraints
  TableOf <- MCTableOf
  Data <- MCData
  Typed = {o1}
  Plans <- MCPlansOne
INVARIANTS
  SentOnce
