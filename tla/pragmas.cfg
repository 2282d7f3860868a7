SPECIFICATION Spec
CONSTANTS
  Inputs <- MCInputs
  Allowed <- Legal
  Named <- HasQualname
  Shares <- LetsShare
INVARIANTS
  OnlyMarkedLoopsGo
  EveryPragmaAnswered
  ReadsWhatIsWritten
  ReadersFindTheirParts
