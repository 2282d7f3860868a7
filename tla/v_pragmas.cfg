SPECIFICATION Spec
CONSTANTS
  Inputs <- Paged
  Allowed <- Legal
  Named <- HasQualname
  Shares <- LetsShare
INVARIANT OnlyMarkedLoopsGo
