CONSTANTS
  Tags <- TwoTagsAndATemporary
  Digests = {"m", "p"}
  Jobs = {j1, j2}
  Plans <- HubAndPrivatePlans
  Uploads <- WeightsWithProjector
  MaxCrashes = 1
  MaxEdits = 1
  None = None
SPECIFICATION Spec
SYMMETRY JobSymmetry
INVARIANTS
  TypeOK
  ListedNeverTorn
  IncompleteOnlyByCollection
PROPERTIES
  CompleteStaysComplete
  DeletionReclaims
  PulledAsAnnounced
CHECK_DEADLOCK FALSE
