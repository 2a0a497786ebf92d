\* Two keys, two paths and two mints: sealing, dying, unlocking again,
\* restarting, and what is signed executed in any order.
SPECIFICATION Spec
CONSTANTS
  Keys <- MCKeys
  Paths <- MCPaths
  Texts <- MCTexts
  AddrLen = 1
  systemProgram <- MCsystem
  tokenProgram <- MCtoken
  ataProgram <- MCata
  metadataProgram <- MCmetadata
  Messages <- MCMessages
  Payloads <- MCPayloads
  Mints <- MCMints
  maxPayloadBytes = 100
  MaxSigned = 2
  EngineMints <- MCEngineMints
  MaxUint64 = 3
INVARIANTS
  TypeOK
  KeyRecoverable
  SignsAsTold
  SignsOwnTransactions
  MintedSupplyIsFixed
  EngineMintIsSigned
PROPERTY
  FlagNamesTheKey
