CONSTANTS
  g1 = g1
  g2 = g2
  NoWriter = NoWriter
  NoOp = NoOp
  NoArg = NoArg
  Clients <- MCClients
  Names <- MCNames
  Upper <- MCUpper
  InitSymbols <- MCInitSymbols
  InitExcludes <- MCInitExcludes
  Catalog <- MCCatalog
  Ops <- MCOps
  MaxOps = 2

SPECIFICATION Spec

INVARIANT TypeOK
INVARIANT IsValidAgreesWithWorkingSet

PROPERTY CallsReturn
