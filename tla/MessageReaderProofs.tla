------------------------- MODULE MessageReaderProofs -------------------------
(***************************************************************************)
(* The properties of MessageReader, for every set of payloads and messages *)
(* and every AddrLen: the theorems of MessageParserProofs, said of what    *)
(* parseMessage returned.                                                  *)
(***************************************************************************)
EXTENDS MessageReader, MessageParserProofs

\* The result is the one parseMessage gives for the payload.
ReaderInv ==
  /\ payload \in Seq(Byte)
  /\ result # Unread => result = parseMessage(payload)

\* No payload is replaced once it is read, and none is read twice.
LEMMA ReaderInvariant == Spec => []ReaderInv
  <1>1. Init => ReaderInv
    BY ReaderAssumption DEF Init, ReaderInv
  <1>2. ReaderInv /\ [Parse \/ Rest]_<< payload, result >> => ReaderInv'
    BY DEF ReaderInv, Parse, Rest
  <1> QED
    BY <1>1, <1>2, PTL DEF Spec

\* Whatever a serializer writes is accepted, and what parseMessage sees in it
\* is what was written.
THEOREM WrittenIsAccepted == Spec => []AcceptsWhatIsWritten
  <1>1. ReaderInv => AcceptsWhatIsWritten
    <2> SUFFICES ASSUME ReaderInv, result # Unread, payload \in Written
                 PROVE  result.ok /\ << payload, result.val >> \in Views
      BY DEF AcceptsWhatIsWritten
    <2>1. PICK m \in Messages : payload = Encode(m)
      BY DEF Written
    <2>2. m \in MessageType
      BY ReaderAssumption
    <2>3. result = Read(Len(payload), View(m))
      BY <2>1, <2>2, ParsesWritten DEF ReaderInv
    <2>4. result.ok /\ result.val = View(m)
      BY <2>3, ReadFields
    <2> QED
      BY <2>1, <2>4 DEF Views
  <1> QED
    BY <1>1, ReaderInvariant, PTL

\* The message that was written is the one rebuilt from its view and the parts
\* the view leaves out.
LEMMA RebuiltIs ==
  ASSUME NEW m \in MessageType
  PROVE  Rebuilt(m.header, View(m), m.blockhash,
                 [ i \in DOMAIN m.instructions |-> m.instructions[i].accounts ]) = m
  <1> DEFINE s   == m.instructions
             v   == View(m)
             idx == [ i \in DOMAIN s |-> s[i].accounts ]
             ixs == [ i \in DOMAIN v.instructions |->
                        [ programIndex |-> v.instructions[i].programIndex,
                          accounts     |-> idx[i],
                          data         |-> v.instructions[i].data ] ]
  <1>1. v.accounts = m.accounts /\ v.instructions = [ i \in DOMAIN s |-> Visible(s[i]) ]
    BY DEF View
  <1>2. s \in Seq(Instruction)
    BY MessageFields
  <1>3. ASSUME NEW i \in DOMAIN s
        PROVE  [ programIndex |-> Visible(s[i]).programIndex,
                 accounts |-> s[i].accounts,
                 data |-> Visible(s[i]).data ] = s[i]
    <2>1. s[i] \in Instruction
      BY <1>2, ElementOfSeq
    <2> QED
      BY <2>1 DEF Instruction, Visible
  <1>4. ixs = [ i \in DOMAIN s |->
                  [ programIndex |-> Visible(s[i]).programIndex,
                    accounts |-> s[i].accounts,
                    data |-> Visible(s[i]).data ] ]
    BY <1>1
  <1>5. ixs = [ i \in DOMAIN s |-> s[i] ]
    BY <1>3, <1>4
  <1>6. ixs = s
    <2> HIDE DEF ixs, s
    <2>1. s = [ i \in DOMAIN s |-> s[i] ]
      BY <1>2
    <2> QED
      BY <1>5, <2>1, Zenon
  <1>7. Rebuilt(m.header, v, m.blockhash, idx) =
          [ header |-> m.header, accounts |-> v.accounts,
            blockhash |-> m.blockhash, instructions |-> ixs ]
    BY DEF Rebuilt
  <1> HIDE DEF ixs, idx, s
  <1>8. m = [ header |-> m.header, accounts |-> m.accounts,
              blockhash |-> m.blockhash, instructions |-> m.instructions ]
    BY DEF MessageType
  <1> QED
    BY <1>1, <1>6, <1>7, <1>8 DEF s, idx

\* A payload that is accepted is, byte for byte, what a serializer writes for a
\* message with the accounts, the programs and the data that were read.
THEOREM ReadIsWritten == Spec => []ReadsWhatWasWritten
  <1>1. ReaderInv => ReadsWhatWasWritten
    <2> SUFFICES ASSUME ReaderInv, result.ok PROVE ReadsWhatWasWritten
      BY DEF ReadsWhatWasWritten
    <2>1. result = parseMessage(payload) /\ payload \in Seq(Byte)
      BY DEF ReaderInv, Unread
    <2>2. PICK m \in MessageType :
            /\ Encode(m) = payload
            /\ result.val = View(m)
            /\ m.header = SubSeq(payload, 1, 3) /\ m.blockhash \in Slices(payload)
            /\ \A i \in 1..Len(m.instructions) :
                 m.instructions[i].accounts \in Slices(payload)
      BY <2>1, ParsesOnlyWritten
    <2> DEFINE idx == [ i \in DOMAIN m.instructions |-> m.instructions[i].accounts ]
    <2>3. DOMAIN m.instructions = 1..Len(m.instructions)
      BY MessageFields, LenProperties
    <2>4. DOMAIN result.val.instructions = DOMAIN m.instructions
      BY <2>2 DEF View
    <2>5. idx \in [ DOMAIN result.val.instructions -> Slices(payload) ]
      BY <2>2, <2>3, <2>4
    <2>6. Rebuilt(m.header, View(m), m.blockhash, idx) = m
      BY RebuiltIs
    <2> HIDE DEF idx
    <2>7. Encode(Rebuilt(SubSeq(payload, 1, 3), result.val, m.blockhash, idx)) = payload
      BY <2>2, <2>6, Zenon
    <2> QED
      BY <2>2, <2>5, <2>7, Zenon DEF ReadsWhatWasWritten
  <1> QED
    BY <1>1, ReaderInvariant, PTL

\* Every length of the payload is read as it must be written, and nothing else
\* is read as a length.
THEOREM LengthsReadAsWritten == Spec => []LengthsAreCanonical
  <1>1. ReaderInv => LengthsAreCanonical
    BY LengthsCanonical DEF ReaderInv, LengthsAreCanonical
  <1> QED
    BY <1>1, ReaderInvariant, PTL
=============================================================================
