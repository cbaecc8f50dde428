CONSTANTS
  Goroutines = {g1, g2}
  nobody = nobody
  Catalog <- MCCatalog
  Rivals <- MCRivals
  Sources = {"gif", "gif88", "ppm"}
  Matches <- MCMatches
  Found <- MCFound
SPECIFICATION Spec
INVARIANTS
  TypeOK
PROPERTIES
  NamesAgree
  SupportedOnceRegistered
  EveryCallReturns
  RegistersOnce
