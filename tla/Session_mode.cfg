SPECIFICATION Spec
CONSTANTS
  Lines <- ReplLines
  Files <- ReplFiles
  Scripts <- NoScripts
  Args <- MCArgs
  StartPath = "main.db"
  StartModes <- MCStartModes
  Handles = {1, 2}
  MaxTyped = 3
  MaxDepth = 3
INVARIANTS ModeKept
