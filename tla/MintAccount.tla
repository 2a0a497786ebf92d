----------------------------- MODULE MintAccount -----------------------------
(***************************************************************************)
(* One SPL Token mint account and what the instructions of a Solana        *)
(* transaction do to it: external code, as buildMint and the signing       *)
(* policy take it to behave.  The payer is the key that signs.             *)
(***************************************************************************)
EXTENDS Integers, Sequences

CONSTANT MaxUint64  \* the largest token amount

ASSUME AmountAssumption == MaxUint64 \in Nat

UInt64    == 0..MaxUint64
Authority == {"none", "payer"}

\* What the mint address can hold; anything but a classic, initialized SPL
\* mint is "notmint".
AcctKinds == {"absent", "mint", "notmint"}
AcctType  == [ kind : AcctKinds, mintAuth : Authority, freezeAuth : Authority,
               ata : BOOLEAN, supply : UInt64 ]

NoAccount == [ kind |-> "absent", mintAuth |-> "none", freezeAuth |-> "none",
               ata |-> FALSE, supply |-> 0 ]

\* An account no instruction applies to any more: the transaction failed.
Broken == [NoAccount EXCEPT !.kind = "notmint"]

\* One instruction.  Token Metadata's Create leaves the payer as mint AND
\* freeze authority; the SPL Token program checks the authority each of the
\* others needs, and that MintTo does not overflow the supply.
Apply(a, ix) ==
  CASE ix.op = "create" /\ a.kind = "absent" ->
         [a EXCEPT !.kind = "mint", !.mintAuth = "payer", !.freezeAuth = "payer"]
    [] ix.op = "createATA" /\ a.kind = "mint" ->
         [a EXCEPT !.ata = TRUE]
    [] /\ ix.op = "mintTo" /\ a.kind = "mint" /\ a.ata
       /\ a.mintAuth = "payer" /\ a.supply + ix.amount \in UInt64 ->
         [a EXCEPT !.supply = a.supply + ix.amount]
    [] ix.op = "revokeFreeze" /\ a.kind = "mint" /\ a.freezeAuth = "payer" ->
         [a EXCEPT !.freezeAuth = "none"]
    [] ix.op = "revokeMint" /\ a.kind = "mint" /\ a.mintAuth = "payer" ->
         [a EXCEPT !.mintAuth = "none"]
    [] OTHER -> Broken

\* The five instructions of a mint transaction, in order, from nothing.
After1(ixs) == Apply(NoAccount, ixs[1])
After2(ixs) == Apply(After1(ixs), ixs[2])
After3(ixs) == Apply(After2(ixs), ixs[3])
After4(ixs) == Apply(After3(ixs), ixs[4])
Exec(ixs)   == Apply(After4(ixs), ixs[5])

Executes(ixs) == Exec(ixs).kind = "mint"
=============================================================================
