SPECIFICATION Spec
CONSTANTS
  CampaignNames <- names
  PhoneShaped = {"19-11-2025-07"}
  Snapshots <- snapshots
  Requests <- requests
  Providers = {"fake", "openai", "unsupported"}
  MaxLoads = 1
INVARIANTS
  ChainCompletes
  ReadyMeansEvidence
  SequenceCoversUnresolved
  IdentityGapCapsTrust
  ItemsAreAnswerable
  AnswersAreGrounded
PROPERTIES
  Refinement
  RepairsKeepEvidence
CHECK_DEADLOCK FALSE
