SPECIFICATION Spec
CONSTANTS
  Addr = {a1, a2, a3, a4}
  NULL = NULL
  Conns = {c1}
  Stmts = {s1}
  Results = {r1}
  Counts <- MCFlat
  Indices <- MCIndices
  Params = 1
  IntMax = 3
  MaxRow = 0
SYMMETRY Symmetry
INVARIANTS PrepareErrorKept
