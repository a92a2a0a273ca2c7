SPECIFICATION FairSpec
CONSTANTS
  Password = {A, B}
  Wipe = Wipe
  NoKey = NoKey
  MaxCalls = 6
  MaxCrashes = 2
INVARIANTS TypeOK SealedForCause FilesVerify ServesTheWallet
PROPERTIES UnlockedAtLast
CHECK_DEADLOCK FALSE
