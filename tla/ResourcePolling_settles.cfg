SPECIFICATION FairSpec
CONSTANTS
  Specs <- SomeSpecs
  Scenes <- SomeScenes
  MaxReplicas = 2
  Kinds <- AllKinds
  MaxDisturbances = 2
INVARIANT TypeOK
PROPERTIES PollsSpaced ValidatedSettles EstimateSettles QuotaSettles
