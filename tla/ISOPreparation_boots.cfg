SPECIFICATION FairSpec
CONSTANTS
  u1 = u1
  u2 = u2
  Urls = {u1, u2}
  NoUrl = NoUrl
  GivenPath = GivenPath
  ChosenPath = ChosenPath
  NoPath = NoPath
  Nothing = Nothing
  Partial = Partial
  Replicas = 2
  Specs <- SomeSpecs
  Kinds <- AllKinds
  MaxDisturbances = 4
INVARIANTS TypeOK UploadedTruthful
PROPERTIES BootsItsImage GetsItsVMs
