CONSTANTS
  blank = blank
  partial = partial
  e1 = e1
  e2 = e2
  e3 = e3
  none = none
  Modes = {"improvement", "construction"}
  Embeddings <- MCEmbeddings
  Returnable <- MCReturnable
  Blank = blank
  NoEmbedding = none
  Variables = 4
  QubitCap = 4
  MaxStateChanging = 1
  MaxCommit = 2
  ArchiveFifo = 1
  RestartQuota = 1
  RestartAllowance = 2
  Cache <- MCCache
  RewardReads = 1
  Caps <- MCCaps
  Reserve <- MCReserve
  Debit <- MCDebit
  Initializer = {1}
  MaxSearchWork = 0
  Sizes <- MCSizes
SPECIFICATION Spec
INVARIANTS
  EpisodeTypeOK
  CommitAffordable
  ValidWorkspaceArchived
  RestartsAccounted
PROPERTIES
  InitialStaysFirst
  MeetsEpisodeContract
  EpisodeEnds
CHECK_DEADLOCK FALSE
