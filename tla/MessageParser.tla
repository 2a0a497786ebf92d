---------------------------- MODULE MessageParser ----------------------------
(***************************************************************************)
(* solana/message.go: the reader of legacy Solana messages the signing     *)
(* policy rests on.  Payloads are sequences of bytes.  Reading a part at   *)
(* an offset gives Failed, or what was read and the offset after it.       *)
(*                                                                         *)
(* The second half is the wire format itself, as a serializer: the parser  *)
(* must read exactly what a serializer can write.                          *)
(***************************************************************************)
EXTENDS Integers, SequencesExt

CONSTANT AddrLen  \* bytes of an address and of a blockhash (32 in the code)

ASSUME AddrAssumption == AddrLen \in Nat \ {0}

MaxLength == 65535

Byte    == 0..255
Address == { a \in Seq(Byte) : Len(a) = AddrLen }

Failed         == [ ok |-> FALSE ]
Read(off, val) == [ ok |-> TRUE, off |-> off, val |-> val ]

\* Go on from what was read, unless it failed.
Then(r, Go(_)) == IF r.ok THEN Go(r) ELSE Failed

-----------------------------------------------------------------------------
(* The parser.                                                             *)

take(b, off, n) ==
  IF Len(b) - off >= n THEN Read(off + n, SubSeq(b, off + 1, off + n))
                       ELSE Failed

\* Mutant: a length may be padded with a zero byte.
compactU16Padded(b, off) ==
  LET stops == { i \in 1..3 : off + i <= Len(b) /\ b[off + i] < 128 }
      n     == Min(stops)
      septet(i) == IF i <= n THEN b[off + i] % 128 ELSE 0
      val   == septet(1) + 128 * septet(2) + 16384 * septet(3)
  IN  IF stops = {} \/ val > MaxLength THEN Failed ELSE Read(off + n, val)

\* A length of at most three bytes, seven bits each, the low ones first; the
\* high bit marks that another byte follows.  A last byte of zero after the
\* first would be a second way to write the same length.
compactU16(b, off) ==
  LET stops == { i \in 1..3 : off + i <= Len(b) /\ b[off + i] < 128 }
      n     == Min(stops)
      septet(i) == IF i <= n THEN b[off + i] % 128 ELSE 0
      val   == septet(1) + 128 * septet(2) + 16384 * septet(3)
  IN  IF stops = {} \/ (n > 1 /\ b[off + n] = 0) \/ val > MaxLength
      THEN Failed
      ELSE Read(off + n, val)

\* nAccounts addresses; a short payload fails whichever of them it ends in.
takeAccounts(b, off) ==
  Then(compactU16(b, off), LAMBDA n :
  Then(take(b, n.off, n.val * AddrLen), LAMBDA all :
    Read(all.off, [ i \in 1..n.val |->
                      SubSeq(all.val, (i - 1) * AddrLen + 1, i * AddrLen) ])))

\* Mutant: the account indexes are kept as the data.
takeInstructionSwapped(b, off) ==
  Then(take(b, off, 1),              LAMBDA prog :
  Then(compactU16(b, prog.off),      LAMBDA nAccts :
  Then(take(b, nAccts.off, nAccts.val), LAMBDA accts :
  Then(compactU16(b, accts.off),     LAMBDA nData :
  Then(take(b, nData.off, nData.val), LAMBDA data :
    Read(data.off, [ programIndex |-> prog.val[1], data |-> accts.val ]))))))

\* The account indexes are read over, not kept.
takeInstruction(b, off) ==
  Then(take(b, off, 1),              LAMBDA prog :
  Then(compactU16(b, prog.off),      LAMBDA nAccts :
  Then(take(b, nAccts.off, nAccts.val), LAMBDA accts :
  Then(compactU16(b, accts.off),     LAMBDA nData :
  Then(take(b, nData.off, nData.val), LAMBDA data :
    Read(data.off, [ programIndex |-> prog.val[1], data |-> data.val ]))))))

\* some[n][o]: n instructions, the first of them at offset o.
takeInstructions(b, off) ==
  LET some[n \in 0..MaxLength] ==
        [ o \in 0..Len(b) |->
            IF n = 0 THEN Read(o, << >>)
            ELSE Then(takeInstruction(b, o), LAMBDA ix :
                 Then(some[n - 1][ix.off],   LAMBDA more :
                   Read(more.off, << ix.val >> \o more.val))) ]
  IN  Then(compactU16(b, off), LAMBDA n : some[n.val][n.off])

\* Mutant: bytes after the message are ignored.
parseMessagePrefix(b) ==
  IF Len(b) = 0 \/ b[1] >= 128 THEN Failed
  ELSE Then(take(b, 0, 3),                    LAMBDA header :
       Then(takeAccounts(b, header.off),      LAMBDA accts :
       Then(take(b, accts.off, AddrLen),      LAMBDA blockhash :
       Then(takeInstructions(b, blockhash.off), LAMBDA ixs :
         Read(ixs.off, [ accounts |-> accts.val, instructions |-> ixs.val ])))))

\* The whole payload as one message.  A first byte with its high bit set is a
\* versioned message, whose accounts cannot all be seen.
parseMessage(b) ==
  IF Len(b) = 0 \/ b[1] >= 128 THEN Failed
  ELSE Then(take(b, 0, 3),                    LAMBDA header :
       Then(takeAccounts(b, header.off),      LAMBDA accts :
       Then(take(b, accts.off, AddrLen),      LAMBDA blockhash :
       Then(takeInstructions(b, blockhash.off), LAMBDA ixs :
         IF ixs.off # Len(b) THEN Failed
         ELSE Read(ixs.off, [ accounts     |-> accts.val,
                              instructions |-> ixs.val ])))))

-----------------------------------------------------------------------------
(* The wire format: what a serializer writes.                              *)

EncodeLength(n) ==
  IF n < 128 THEN << n >>
  ELSE IF n < 16384 THEN << 128 + (n % 128), n \div 128 >>
  ELSE << 128 + (n % 128), 128 + ((n \div 128) % 128), n \div 16384 >>

EncodeInstruction(ix) ==
  << ix.programIndex >> \o EncodeLength(Len(ix.accounts)) \o ix.accounts
                        \o EncodeLength(Len(ix.data)) \o ix.data

EncodeInstructions(ixs) ==
  FlattenSeq([ i \in DOMAIN ixs |-> EncodeInstruction(ixs[i]) ])

Encode(m) ==
  m.header \o EncodeLength(Len(m.accounts)) \o FlattenSeq(m.accounts)
           \o m.blockhash \o EncodeLength(Len(m.instructions))
           \o EncodeInstructions(m.instructions)

\* The messages there are: every count fits in its 16 bits, and the first byte
\* does not mark a version.
Counted(S)  == { s \in Seq(S) : Len(s) <= MaxLength }
Instruction ==
  [ programIndex : Byte, accounts : Counted(Byte), data : Counted(Byte) ]
MessageType ==
  [ header       : { h \in Seq(Byte) : Len(h) = 3 /\ h[1] < 128 },
    accounts     : Counted(Address),
    blockhash    : Address,
    instructions : Counted(Instruction) ]

\* The part of an instruction, and of a message, that the policy sees.
Visible(ix) == [ programIndex |-> ix.programIndex, data |-> ix.data ]
View(m) ==
  [ accounts     |-> m.accounts,
    instructions |-> [ i \in DOMAIN m.instructions |-> Visible(m.instructions[i]) ] ]

\* Every run of bytes within b.
Slices(b) == { SubSeq(b, i, j) : i \in 1..(Len(b) + 1), j \in 0..Len(b) }

\* Every length there is, as it must be written.
ShortVecs == { EncodeLength(n) : n \in 0..MaxLength }

\* compactU16 reads a length at off if and only if the one way to write some
\* 16-bit length stands there, and reads that length and no byte more.
CanonicalAt(b, off) ==
  LET r == compactU16(b, off)
  IN  /\ r.ok <=> \E k \in 1..3 : /\ off + k <= Len(b)
                                  /\ SubSeq(b, off + 1, off + k) \in ShortVecs
      /\ r.ok => EncodeLength(r.val) = SubSeq(b, off + 1, r.off)
=============================================================================
