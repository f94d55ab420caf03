CONSTANTS
  Call = {1, 2}
  MaxFills = 2
SPECIFICATION CatalogueFairSpec
INVARIANTS
  CatalogueInv
PROPERTIES
  Settles
  AnsweredOnceConnected
