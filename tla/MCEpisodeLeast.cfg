CONSTANTS
  blank = blank
  partial = partial
  e1 = e1
  e2 = e2
  e3 = e3
  none = none
  Modes = {"improvement", "construction"}
  Embeddings <- MCEmbeddings
  Returnable <- MCReturnable
  Blank = blank
  NoEmbedding = none
  Variables = 4
  QubitCap = 4
  MaxStateChanging = 1
  MaxCommit = 2
  ArchiveFifo = 1
  RestartQuota = 1
  RestartAllowance = 2
  Cache <- MCCacheThree
  RewardReads = 1
  Caps <- MCCapsLeast
  Reserve <- MCReserveLeast
  Debit <- MCDebit
  Initializer = {0, 1}
  MaxSearchWork = 0
  Sizes <- MCSizes
SPECIFICATION Spec
INVARIANTS
  ArchiveNeverRefused
CHECK_DEADLOCK FALSE
