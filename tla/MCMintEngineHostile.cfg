\* Everything the engine's comments fear at once: confirmed blocks are forked out, every status read may lag, the treasury address changes hands.
SPECIFICATION Spec
CONSTANTS
  MaxHeight = 4
  Window = 2
  MaxUint64 = 255
  ConfirmedForks = TRUE
  TreasuryMayChange = TRUE
  LaggingPoll = TRUE
  LaggingRecheck = TRUE
  Specs <- MCGoodSpecs
  Pins = {"unpinned", "localnet"}
  Clusters = {"mainnet", "devnet"}
INVARIANTS
  SuccessIsFinal
  OnChainAlwaysFinished
