SPECIFICATION Spec
CONSTANTS
  CmdLines <- MCCmdLines
  Texts <- MCTexts
INVARIANT BatchArguments
