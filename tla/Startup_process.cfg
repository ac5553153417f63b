SPECIFICATION FairSpec
CONSTANTS
  CmdLines <- MCCmdLines
  Texts <- MCTexts
INVARIANTS TypeOK LinesInOrder AllLinesGiven PromptVisible OneJob
PROPERTY Exits
