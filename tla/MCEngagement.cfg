SPECIFICATION MCSpec
CONSTANTS
  r1 = r1
  r2 = r2
  b1 = b1
  k1 = k1
  k2 = k2
  Recipients <- TwoRecipients
  Builders <- OneBuilder
  Kids <- TwoKids
  Period = 2
  MintTime = 1
  MaxHeld = 1
  Stated <- MostModes
  MaxStats = 1
  Pages <- SomePages
  FieldMaps <- SomeFields
  Endpoints <- SomeEndpoints
SYMMETRY Sym
INVARIANTS
  EngagementTypeOK
  RetainsWithinPolicy
  UnexpiredTokenVerifies
  UnsubscribeIsHonoured
  DeliveredAsStated
