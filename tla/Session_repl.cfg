SPECIFICATION Spec
CONSTANTS
  Lines <- ReplLines
  Files <- ReplFiles
  Scripts <- NoScripts
  Args <- MCArgs
  StartPath = "main.db"
  StartModes <- MCStartModes
  Handles = {1, 2}
  MaxTyped = 4
  MaxDepth = 3
INVARIANTS TypeOK OneConnection WholeStatements PendingIncomplete NoOverflow
PROPERTIES FilesApart PromiseSpec
