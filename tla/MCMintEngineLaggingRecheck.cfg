\* No block is forked out and the poll is exact: one read, the recheck, may lag.
SPECIFICATION Spec
CONSTANTS
  MaxHeight = 4
  Window = 2
  MaxUint64 = 255
  ConfirmedForks = FALSE
  TreasuryMayChange = FALSE
  LaggingPoll = FALSE
  LaggingRecheck = TRUE
  Specs <- MCGoodSpecs
  Pins = {"unpinned", "localnet"}
  Clusters = {"mainnet", "devnet"}
INVARIANT NoAddressNothingLanded
