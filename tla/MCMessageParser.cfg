\* All payloads of up to 3 + 9 bytes over four byte values.
SPECIFICATION Spec
CONSTANTS
  AddrLen = 1
  MaxBody = 9
  Bytes = {0, 1, 2, 128}
  Payloads <- MCPayloads
  Messages <- MCMessages
INVARIANTS
  AcceptsWhatIsWritten
  ReadsWhatWasWritten
  LengthsAreCanonical
