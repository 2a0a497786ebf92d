------------------------------- MODULE Verify -------------------------------
(***************************************************************************)
(* Engine.Verify of token/engine.go: what is made of the account found at  *)
(* an address.  What the account IS (external) is kept apart from what     *)
(* Verify can see of it: data of another layout, read as a mint, may show  *)
(* anything, null authorities included.                                    *)
(***************************************************************************)

\* The accounts of the two token programs, and those of other programs.  A
\* mint says which authorities it has.
OnChain ==
  [ is : {"mint"}, mintAuthority : BOOLEAN, freezeAuthority : BOOLEAN ]
    \cup [ is : {"blankMint", "tokenAccount", "multisig", "mint2022", "foreign"} ]

\* Facts Verify looks at, in its order: the owner, whether the data has
\* mintAccountSize bytes, and what its decoder finds in them.
Views ==
  [ owner : {"classic", "token2022", "other"}, sized : BOOLEAN,
    decodes : BOOLEAN, initialized : BOOLEAN,
    mintAuthority : BOOLEAN, freezeAuthority : BOOLEAN ]

\* How an account can look: only a mint of the classic program is read as it
\* was written; an allocated mint account is all zeros.
Seen(a) ==
  { v \in Views :
      /\ v.owner = (CASE a.is = "mint2022" -> "token2022"
                      [] a.is = "foreign"  -> "other"
                      [] OTHER             -> "classic")
      /\ a.is \in {"mint", "blankMint"} => v.sized /\ v.decodes
      /\ a.is \in {"tokenAccount", "multisig"} => ~v.sized
      /\ v.initialized => a.is # "blankMint"
      /\ a.is = "mint" => /\ v.initialized
                          /\ v.mintAuthority = a.mintAuthority
                          /\ v.freezeAuthority = a.freezeAuthority }

\* Mutant: the owner alone tells a mint from a token account or a multisig.
VerifyViewByOwner(v) ==
  CASE v.owner = "token2022" -> "token2022"
    [] v.owner = "classic" /\ v.decodes /\ v.initialized -> "mint"
    [] OTHER -> "error"

\* What Verify returns: a MintState ("mint"), ErrToken2022Mint, or an error.
VerifyView(v) ==
  CASE v.owner = "token2022" -> "token2022"
    [] v.owner = "classic" /\ v.sized /\ v.decodes /\ v.initialized -> "mint"
    [] OTHER -> "error"

SupplyFixed(v) == ~v.mintAuthority
Freezable(v)   == v.freezeAuthority
=============================================================================
