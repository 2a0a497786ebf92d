----------------------------- MODULE SignPolicy -----------------------------
(***************************************************************************)
(* solana/solana.go: what the signing key may sign, decided by reading the *)
(* payload.  Approve is the whole decision; which rule refused, and in     *)
(* which order the rules are tried, only shows in the wording of an error. *)
(***************************************************************************)
EXTENDS MessageParser

CONSTANTS systemProgram, tokenProgram, ataProgram, metadataProgram

ASSUME ProgramAssumption ==
  /\ {systemProgram, tokenProgram, ataProgram, metadataProgram}
       \subseteq [1..AddrLen -> 0..255]
  /\ systemProgram \notin {tokenProgram, ataProgram, metadataProgram}
  /\ tokenProgram \notin {ataProgram, metadataProgram}
  /\ ataProgram # metadataProgram

\* System instructions are a u32, least byte first; 0 is CreateAccount.
systemCreateAccount == << 0, 0, 0, 0 >>
splMintTo           == 7
splSetAuthority     == 6
authorityMintTokens  == 0
authorityFreezeAccnt == 1

\* Everything but CreateAccount is refused, transfers of either form with it.
approveSystem(data) == Len(data) >= 4 /\ SubSeq(data, 1, 4) = systemCreateAccount

\* Mutant: only the mint authority may be revoked.
approveTokenMintOnly(data) ==
  CASE Len(data) >= 1 /\ data[1] = splMintTo -> "mintTo"
    [] Len(data) >= 3 /\ data[1] = splSetAuthority /\ data[3] = 0
         /\ data[2] = authorityMintTokens -> "revokeMint"
    [] OTHER -> "refused"

\* The kind of an SPL Token instruction.  SetAuthority must set "none" (the
\* third byte is 0) over one of the two authorities of a mint.
approveToken(data) ==
  CASE Len(data) >= 1 /\ data[1] = splMintTo -> "mintTo"
    [] Len(data) >= 3 /\ data[1] = splSetAuthority /\ data[3] = 0
         /\ data[2] = authorityMintTokens -> "revokeMint"
    [] Len(data) >= 3 /\ data[1] = splSetAuthority /\ data[3] = 0
         /\ data[2] = authorityFreezeAccnt -> "revokeFreeze"
    [] OTHER -> "refused"

\* The program an instruction names, or none: the index counts from zero.
programOf(m, ix) ==
  IF ix.programIndex < Len(m.accounts) THEN m.accounts[ix.programIndex + 1]
                                       ELSE << >>

\* One turn of the loop: the kind of an instruction, "other" if it carries no
\* authority over a mint.
instructionKind(m, ix) ==
  LET prog == programOf(m, ix)
  IN  CASE prog = systemProgram -> IF approveSystem(ix.data) THEN "other"
                                                            ELSE "refused"
        [] prog = tokenProgram  -> approveToken(ix.data)
        [] prog \in {ataProgram, metadataProgram} -> "other"
        [] OTHER -> "refused"

\* Mutant: a mint need only revoke one of its authorities.
RevokesOne(kinds) ==
  "mintTo" \in kinds => "revokeMint" \in kinds \/ "revokeFreeze" \in kinds

\* The invariant the policy enforces of a message that mints.
RevokesBoth(kinds) ==
  "mintTo" \in kinds => "revokeMint" \in kinds /\ "revokeFreeze" \in kinds

\* May `payload` be signed by the key the policy is bound to?
Approve(payload, payer) ==
  LET r     == parseMessage(payload)
      kinds == { instructionKind(r.val, r.val.instructions[i]) :
                   i \in DOMAIN r.val.instructions }
  IN  /\ r.ok
      /\ Len(r.val.accounts) > 0
      /\ r.val.accounts[1] = payer
      /\ "refused" \notin kinds
      /\ RevokesBoth(kinds)

-----------------------------------------------------------------------------
(* What the signer is for.                                                 *)

\* Data that starts as the SetAuthority to "none" solana-go writes.
Revokes(data, authority) ==
  Len(data) >= 3 /\ SubSeq(data, 1, 3) = << 6, authority, 0 >>

\* m is a transaction of buildMint for payer k: whatever the token is called
\* and however much of it there is, five instructions to these programs, and
\* the payer pays for them.
IsEngineMint(m, k) ==
  LET prog(i) == programOf(m, m.instructions[i])
      data(i) == m.instructions[i].data
  IN  /\ Len(m.accounts) > 0 /\ m.accounts[1] = k
      /\ Len(m.instructions) = 5
      /\ prog(1) = metadataProgram
      /\ prog(2) = ataProgram
      /\ \A i \in 3..5 : prog(i) = tokenProgram
      /\ Len(data(3)) >= 1 /\ data(3)[1] = 7
      /\ Revokes(data(4), 1)
      /\ Revokes(data(5), 0)
=============================================================================
