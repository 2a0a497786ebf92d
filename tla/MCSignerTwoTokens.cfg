\* One key and a message about two tokens.
SPECIFICATION Spec
CONSTANTS
  Keys <- MCKey
  Paths <- MCPath
  Texts <- MCTexts
  AddrLen = 1
  systemProgram <- MCsystem
  tokenProgram <- MCtoken
  ataProgram <- MCata
  metadataProgram <- MCmetadata
  Messages <- MCTwoMessages
  Payloads <- MCPayloads
  Mints <- MCMints
  maxPayloadBytes = 100
  MaxSigned = 2
  EngineMints <- MCEngineMints
  MaxUint64 = 3
INVARIANT
  NoTokenLeftOpen
