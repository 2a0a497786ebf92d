------------------------------- MODULE Ledger -------------------------------
(***************************************************************************)
(* The Solana cluster as one mint lifecycle sees it.  Nothing of it is in  *)
(* the repository: it is what the engine's reads, its transaction and its  *)
(* comments take the cluster to do, and what the fake ledgers of the       *)
(* engine's tests do.                                                      *)
(*                                                                         *)
(* One lifecycle owns one transaction and one fresh mint address, so the   *)
(* cluster is the fate of that transaction, the mint account it would      *)
(* create, the account at the treasury address and the block height.       *)
(***************************************************************************)
EXTENDS Integers, MintAccount

CONSTANTS
  MaxHeight,         \* bound: the block height stops there
  Window,            \* blocks a blockhash stays valid for
  ConfirmedForks,    \* a confirmed, unfinalized block may be forked out
  TreasuryMayChange  \* an account may appear at an unused treasury address

ASSUME LedgerAssumption ==
  /\ MaxHeight \in Nat
  /\ Window \in Nat
  /\ ConfirmedForks \in BOOLEAN
  /\ TreasuryMayChange \in BOOLEAN

VARIABLES
  height,  \* height of the newest confirmed block
  tx,      \* the transaction: known to a node? its status, error and expiry
  acct,    \* the mint account, on the fork the cluster is on
  trez     \* the account at the treasury address

ledger == << height, tx, acct, trez >>

Statuses == {"none", "processed", "confirmed", "finalized"}
Shapes   == {"absent", "wallet", "config"}

TxType == [ known : BOOLEAN, status : Statuses, failed : BOOLEAN, expiry : Nat ]

NoTx == [ known |-> FALSE, status |-> "none", failed |-> FALSE, expiry |-> 0 ]

-----------------------------------------------------------------------------
LedgerInit ==
  /\ height = 0
  /\ tx = NoTx
  /\ acct = NoAccount
  /\ trez \in Shapes

\* A leader includes the transaction in the next block.  Atomicity: every
\* instruction takes effect, or the transaction fails with none of them (a
\* bad instruction, or a cause outside this model such as the payer's funds).
Land(ixs) ==
  /\ tx.known
  /\ tx.status = "none"
  /\ height < tx.expiry
  /\ \/ /\ Executes(ixs)
        /\ tx' = [tx EXCEPT !.status = "processed", !.failed = FALSE]
        /\ acct' = Exec(ixs)
     \/ /\ tx' = [tx EXCEPT !.status = "processed", !.failed = TRUE]
        /\ acct' = acct
  /\ UNCHANGED << height, trez >>

\* The transaction is in no block of this fork.
Dropped ==
  /\ tx' = [tx EXCEPT !.status = "none", !.failed = FALSE]
  /\ acct' = NoAccount

\* One more block is confirmed.  A processed transaction is confirmed with
\* it, or its block lost the vote, or it is still waiting in a later block;
\* it cannot wait past the last block its blockhash allows.
ConfirmBlock ==
  /\ height < MaxHeight
  /\ height' = height + 1
  /\ \/ /\ tx.status = "processed" => height + 1 < tx.expiry
        /\ UNCHANGED << tx, acct >>
     \/ /\ tx.status = "processed"
        /\ tx' = [tx EXCEPT !.status = "confirmed"]
        /\ UNCHANGED acct
     \/ /\ tx.status = "processed"
        /\ Dropped
  /\ UNCHANGED trez

Finalize ==
  /\ tx.status = "confirmed"
  /\ tx' = [tx EXCEPT !.status = "finalized"]
  /\ UNCHANGED << height, acct, trez >>

\* The newest confirmed block is forked out, and an unfinalized transaction
\* with it if that block held it.
Fork ==
  /\ ConfirmedForks
  /\ height > 0
  /\ height' = height - 1
  /\ \/ UNCHANGED << tx, acct >>
     \/ tx.status \in {"processed", "confirmed"} /\ Dropped
  /\ UNCHANGED trez

\* A Squads multisig is created at an address that held nothing.
CreateConfig ==
  /\ TreasuryMayChange
  /\ trez = "absent"
  /\ trez' = "config"
  /\ UNCHANGED << height, tx, acct >>

LedgerTypeOK ==
  /\ height \in 0..MaxHeight
  /\ tx \in TxType
  /\ acct \in AcctType
  /\ trez \in Shapes
=============================================================================
