---------------------------- MODULE MessageReader ----------------------------
(***************************************************************************)
(* parseMessage, given any payload, against the wire format.               *)
(***************************************************************************)
EXTENDS MessageParser

CONSTANTS
  Payloads,  \* what may have to be read
  Messages   \* what serializers write

ASSUME ReaderAssumption ==
  Payloads \subseteq Seq(Byte) /\ Messages \subseteq MessageType

VARIABLES payload, result

Unread == [ ok |-> FALSE, unread |-> TRUE ]

Init == payload \in Payloads /\ result = Unread

Parse ==
  /\ result = Unread
  /\ result' = parseMessage(payload)
  /\ UNCHANGED payload

Rest == result # Unread /\ UNCHANGED << payload, result >>

Spec == Init /\ [][Parse \/ Rest]_<< payload, result >>

-----------------------------------------------------------------------------
(* Properties.                                                             *)

Written == { Encode(m) : m \in Messages }
Views   == { << Encode(m), View(m) >> : m \in Messages }

\* The engine's own messages are read: whatever a serializer writes, whichever
\* counts and bytes it holds, parseMessage accepts, and it sees in it what was
\* written.
AcceptsWhatIsWritten ==
  result # Unread /\ payload \in Written =>
    result.ok /\ << payload, result.val >> \in Views

\* The message with view v whose other parts are hash and idx.
Rebuilt(header, v, hash, idx) ==
  [ header       |-> header,
    accounts     |-> v.accounts,
    blockhash    |-> hash,
    instructions |-> [ i \in DOMAIN v.instructions |->
                         [ programIndex |-> v.instructions[i].programIndex,
                           accounts     |-> idx[i],
                           data         |-> v.instructions[i].data ] ] ]

\* Nothing else is read: a payload that is accepted is, byte for byte, what a
\* serializer writes for a message with the accounts, the programs and the data
\* that were read.  So the policy and the cluster cannot read the same signed
\* bytes in two ways, and no field is taken from a neighbouring one.
ReadsWhatWasWritten ==
  result.ok =>
    \E hash \in Slices(payload),
       idx \in [ DOMAIN result.val.instructions -> Slices(payload) ] :
      Encode(Rebuilt(SubSeq(payload, 1, 3), result.val, hash, idx)) = payload

\* compactU16 reads a length if and only if the one way to write some 16-bit
\* length stands there, and reads that length.
LengthsAreCanonical == \A off \in 0..Len(payload) : CanonicalAt(payload, off)
=============================================================================
