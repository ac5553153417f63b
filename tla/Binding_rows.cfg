SPECIFICATION Spec
CONSTANTS
  Addr = {a1, a2, a3, a4}
  NULL = NULL
  Conns = {c1}
  Stmts = {}
  Results = {r1, r2}
  Counts <- MCCounts
  Indices <- MCIndices
  Params = 0
  IntMax = 3
  MaxRow = 3
SYMMETRY Symmetry
INVARIANTS NoStray ErrorKept AllRows
