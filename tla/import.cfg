SPECIFICATION Spec
CONSTANTS
  Importers = {p, q}
  Modules <- MCModules
  BaseOf <- MCBaseOf
  Scope <- MCScope
  Texts <- MCTexts
  KindOf <- MCKindOf
  Initially <- MCInitially
  Versions = {1, 2}
  Confs <- MCConfs
  Faults <- AllFaults
  MaxImports = 1
  MaxEdits = 1
  MaxLosses = 1
  NoEntry = NoEntry
  Torn = Torn
SYMMETRY Symmetry
INVARIANTS
  RunsItsSource
  NeverLeftPlain
  TornByPowerOnly
  LitterFromCrashesOnly
