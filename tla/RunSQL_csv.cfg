SPECIFICATION Spec
CONSTANTS
  Cap = 6
  MaxCell = 8
  Addr = {a1, a2, a3}
  NULL = NULL
  Conns = {c1}
  Results = {r1}
  Counts <- MCCounts
  Indices <- MCIndices
  IntMax = 7
  Tables <- MCTables
SYMMETRY Symmetry
INVARIANT CsvReadable
