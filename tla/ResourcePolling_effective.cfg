SPECIFICATION FairSpec
CONSTANTS
  Specs <- EffectiveSpecs
  Scenes <- SomeScenes
  MaxReplicas = 2
  Kinds <- AllKinds
  MaxDisturbances = 0
PROPERTY EffectiveCapacityTold
