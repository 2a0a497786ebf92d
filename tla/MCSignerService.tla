--------------------------- MODULE MCSignerService ---------------------------
(***************************************************************************)
(* SignerService for TLC: addresses of one byte, and as payloads the bytes *)
(* of a few messages: the mint the engine builds, for each key; its parts  *)
(* as messages of their own; a mint that keeps an authority; one through   *)
(* Token Metadata; two tokens in one message.  Instructions list their     *)
(* accounts as the programs expect them.                                   *)
(***************************************************************************)
EXTENDS SignerService

k1 == << 21 >>
k2 == << 22 >>

MCKeys  == {k1, k2}
MCKey   == {k1}
MCPaths == {"p1", "p2"}
MCPath  == {"p1"}
MCTexts == {"", "pw"}

MCsystem   == << 1 >>
MCtoken    == << 2 >>
MCata      == << 3 >>
MCmetadata == << 4 >>
MCother    == << 5 >>

a1 == << 31 >>
a2 == << 32 >>

MCMints == {a1, a2}

\* The accounts of every message, and their indexes, which count from zero.
AccountsOf(k) ==
  << k, MCsystem, MCtoken, MCata, MCmetadata, MCother, a1, a2 >>

A1 == 6
A2 == 7

Ix(program, accounts, data) ==
  [ programIndex |-> program, accounts |-> accounts, data |-> data ]

Create(a)       == Ix(4, << 5, 4, a >>, << 42 >>)
MetadataMint(a) == Ix(4, << 5, 0, 5, 4, 4, a >>, << 43 >>)
CreateATA(a)    == Ix(3, << 0, 5, 0, a >>, << 1 >>)
MintTo(a)       == Ix(2, << a, 5, 0 >>, << splMintTo, 1 >>)
RevokeFreeze(a) == Ix(2, << a, 0 >>, << splSetAuthority, authorityFreezeAccnt, 0 >>)
RevokeMint(a)   == Ix(2, << a, 0 >>, << splSetAuthority, authorityMintTokens, 0 >>)
Rent            == Ix(1, << 0, 5 >>, << 0, 0, 0, 0 >>)

Transaction(k, ixs) ==
  [ header |-> << 1, 0, 0 >>, blockhash |-> << 9 >>, instructions |-> ixs,
    accounts |-> AccountsOf(k) ]

TheMint ==
  << Create(A1), CreateATA(A1), MintTo(A1), RevokeFreeze(A1), RevokeMint(A1) >>

EngineMint(k) == Transaction(k, TheMint)

MCEngineMints == [ k \in Keys |-> { EngineMint(k) } ]

\* Two tokens in one message: the second is the one whose authorities go.
TwoTokens ==
  << Create(A1), CreateATA(A1), Create(A2), MintTo(A1),
     RevokeFreeze(A2), RevokeMint(A2) >>

MCTwoMessages ==
  { EngineMint(k1), Transaction(k1, TwoTokens) }

\* The mint in two parts, a mint that keeps an authority, one through Token
\* Metadata, and the two tokens.
Parts ==
  { << Rent, Create(A1), CreateATA(A1) >>,
    << MintTo(A1), RevokeMint(A1), RevokeFreeze(A1) >>,
    << Create(A1), CreateATA(A1), MintTo(A1), RevokeFreeze(A1) >>,
    << MetadataMint(A1) >>,
    TwoTokens }

Requests ==
  { EngineMint(k1), EngineMint(k2) } \cup { Transaction(k1, ixs) : ixs \in Parts }

Written == { Encode(m) : m \in Messages }

\* By way of these names, as TLC keeps the value of Requests and of Written.
MCMessages == Requests
MCPayloads == Written
=============================================================================
