SPECIFICATION Spec
CONSTANTS
  Importers = {p, q}
  Modules <- MCModules
  BaseOf <- MCBaseOf
  Scope <- MCScope
  Texts <- MCTexts
  KindOf <- MCKindOf
  Initially <- MCInitially
  Versions = {1, 2}
  Confs <- Vetoes
  Faults = {}
  MaxImports = 1
  MaxEdits = 0
  MaxLosses = 0
  NoEntry = NoEntry
  Torn = Torn
INVARIANT VetoHolds
