--------------------------- MODULE MCMessageParser ---------------------------
(***************************************************************************)
(* MessageReader for TLC.  After a header the payloads are all the strings *)
(* of at most MaxBody bytes over Bytes, which holds the terminating bytes  *)
(* 0, 1 and 2 and the continuing byte 128; beside them stand all strings   *)
(* of up to four bytes at the boundaries of a length.                      *)
(***************************************************************************)
EXTENDS MessageReader

CONSTANTS
  MaxBody,  \* bound: bytes after the header
  Bytes     \* the bytes a body is made of

Header     == << 1, 0, 0 >>
EdgeBytes  == {0, 1, 3, 4, 127, 128, 129, 131, 132, 255}
MCPayloads ==
  { Header \o body : body \in BoundedSeq(Bytes, MaxBody) }
    \cup { << 128, 0, 0 >> \o body : body \in BoundedSeq(Bytes, 3) }
    \cup BoundedSeq(EdgeBytes, 4)

\* Every message a payload under Header can be the encoding of.  Counts are
\* at most 2, the largest byte that can end one; two instructions only fit
\* if they are bare.
MCMessages ==
  LET Strings == BoundedSeq(Bytes, 2)
      Addrs   == [1..AddrLen -> Bytes]
      Bare    == [ programIndex : Bytes, accounts : {<< >>}, data : {<< >>} ]
      Full    == [ programIndex : Bytes, accounts : Strings, data : Strings ]
  IN  { m \in [ header : {Header}, accounts : BoundedSeq(Addrs, 2),
                blockhash : Addrs,
                instructions : BoundedSeq(Full, 1) \cup BoundedSeq(Bare, 2) ] :
          Len(Encode(m)) <= MaxBody + Len(Header) }
=============================================================================
