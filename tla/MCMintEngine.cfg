\* A cluster that keeps confirmed blocks; the poll may be served by a node
\* that lags, the recheck is not.
SPECIFICATION Spec
CONSTANTS
  MaxHeight = 4
  Window = 2
  MaxUint64 = 255
  ConfirmedForks = FALSE
  TreasuryMayChange = FALSE
  LaggingPoll = TRUE
  LaggingRecheck = FALSE
  Specs <- MCSpecs
  Pins = {"unpinned", "mainnet", "localnet"}
  Clusters = {"mainnet", "devnet", "private"}
INVARIANTS
  TypeOK
  BuiltTxExecutes
  ExactSupply
  NoAddressNothingLanded
  HotKeyOnlyOnTestCluster
  TreasurySpendable
  AddressComesWithDisclosures
PROPERTIES
  Terminates
  FollowsLifecycle
  KeepsPromise
