SPECIFICATION FairSpec
CONSTANTS
  Lines <- LoopLines
  Files <- LoopFiles
  Scripts <- LoopScripts
  Args <- MCArgs
  StartPath = "main.db"
  StartModes <- MCStartModes
  Handles = {1, 2}
  MaxTyped = 3
  MaxDepth = 3
INVARIANT ModeKept
PROPERTIES Termination PromiseSpec
