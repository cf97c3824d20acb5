CONSTANTS
  Billing = Billing
  Ledger = Ledger
  Audit = Audit
  Names <- MCNames
  Ids <- MCIds
  Libs <- MCLibs
  LibFile <- MCLibFile
SPECIFICATION Spec
INVARIANT TypeOK
INVARIANT RegistryConsistent
INVARIANT LoadResultExact
INVARIANT ErrorTextNamesRemaining
PROPERTY LoadOrderRefined
