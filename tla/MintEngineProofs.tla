-------------------------- MODULE MintEngineProofs --------------------------
(***************************************************************************)
(* Proofs about MintEngine, for every set of specs, pins and clusters, any *)
(* heights, window and amounts, and any choice of forks and lagging reads  *)
(* unless a theorem says otherwise: first that the chain never holds an    *)
(* unfinished mint and that what Mint answers is true of it, then what the *)
(* policy has accepted by the time a transaction is out, where the supply  *)
(* goes and how large it is, and what the caller is told.                  *)
(***************************************************************************)
EXTENDS MintEngine, Induction, TLAPS

-----------------------------------------------------------------------------
(* The mint transaction.                                                   *)

\* scaledAmount returns a uint64 or Overflow.
LEMMA ScaledType ==
  ASSUME NEW s
  PROVE  Scaled(s) \in UInt64 \cup {Overflow}
  BY DEF Scaled, scaledAmount

\* One lemma per instruction: what it leaves when it finds what it needs.
LEMMA ApplyCreate ==
  ASSUME NEW a \in AcctType, a.kind = "absent"
  PROVE  Apply(a, Ix("create", 0)) =
           [a EXCEPT !.kind = "mint", !.mintAuth = "payer", !.freezeAuth = "payer"]
  BY DEF Apply, Ix

\* The associated token account of a mint is created.
LEMMA ApplyCreateATA ==
  ASSUME NEW a \in AcctType, a.kind = "mint"
  PROVE  Apply(a, Ix("createATA", 0)) = [a EXCEPT !.ata = TRUE]
  BY DEF Apply, Ix

\* MintTo, signed by the mint authority, adds the amount to the supply.
LEMMA ApplyMintTo ==
  ASSUME NEW a \in AcctType, a.kind = "mint", a.ata, a.mintAuth = "payer",
         NEW n, a.supply + n \in UInt64
  PROVE  Apply(a, Ix("mintTo", n)) = [a EXCEPT !.supply = a.supply + n]
  BY DEF Apply, Ix

\* Revoking the freeze authority leaves none.
LEMMA ApplyRevokeFreeze ==
  ASSUME NEW a \in AcctType, a.kind = "mint", a.freezeAuth = "payer"
  PROVE  Apply(a, Ix("revokeFreeze", 0)) = [a EXCEPT !.freezeAuth = "none"]
  BY DEF Apply, Ix

\* Revoking the mint authority leaves none.
LEMMA ApplyRevokeMint ==
  ASSUME NEW a \in AcctType, a.kind = "mint", a.mintAuth = "payer"
  PROVE  Apply(a, Ix("revokeMint", 0)) = [a EXCEPT !.mintAuth = "none"]
  BY DEF Apply, Ix

\* A supply that overflowed makes the transaction fail.
LEMMA ApplyMintToOverflow ==
  ASSUME NEW a \in AcctType, a.supply = 0
  PROVE  Apply(a, Ix("mintTo", Overflow)) = Broken
  <1>1. a.supply + Overflow \notin UInt64
    BY DEF Overflow, UInt64
  <1> QED
    BY <1>1 DEF Apply, Ix

\* A transaction that failed does not recover: no revocation applies to it.
LEMMA BrokenStaysBroken ==
  ASSUME NEW op \in {"revokeFreeze", "revokeMint"}
  PROVE  Apply(Broken, Ix(op, 0)) = Broken
  BY DEF Apply, Ix, Broken, NoAccount

\* The absent account the transaction starts from has the account type.
LEMMA NoAccountType == NoAccount \in AcctType /\ NoAccount.kind = "absent"
  BY AmountAssumption DEF NoAccount, AcctType, AcctKinds, Authority, UInt64

\* What the five instructions of buildMint do, one after the other, when the
\* transaction does not fail: a mint without authorities and with the whole
\* supply.
LEMMA ExecutedMintIsFinished ==
  ASSUME NEW s, Executes(buildMint(s))
  PROVE  /\ Exec(buildMint(s)) \in AcctType
         /\ Exec(buildMint(s)).kind = "mint"
         /\ Exec(buildMint(s)).mintAuth = "none"
         /\ Exec(buildMint(s)).freezeAuth = "none"
         /\ Exec(buildMint(s)).supply = Scaled(s)
  <1> DEFINE n  == Scaled(s)
             a1 == Apply(NoAccount, Ix("create", 0))
             a2 == Apply(a1, Ix("createATA", 0))
             a3 == Apply(a2, Ix("mintTo", n))
             a4 == Apply(a3, Ix("revokeFreeze", 0))
             a5 == Apply(a4, Ix("revokeMint", 0))
  <1>1. Exec(buildMint(s)) = a5
    BY DEF Exec, After1, After2, After3, After4, buildMint
  <1>2. /\ a1 \in AcctType /\ a1.kind = "mint" /\ a1.supply = 0
        /\ a1.mintAuth = "payer" /\ a1.freezeAuth = "payer"
    BY NoAccountType, ApplyCreate DEF AcctType, AcctKinds, Authority, NoAccount
  <1> HIDE DEF a1
  <1>3. /\ a2 \in AcctType /\ a2.kind = "mint" /\ a2.supply = 0 /\ a2.ata
        /\ a2.mintAuth = "payer" /\ a2.freezeAuth = "payer"
    BY <1>2, ApplyCreateATA DEF AcctType
  <1> HIDE DEF a2
  <1>4. n \in UInt64
    <2> SUFFICES ASSUME n = Overflow PROVE FALSE
      BY ScaledType
    <2>1. a3 = Broken
      BY <1>3, ApplyMintToOverflow
    <2>2. a5 = Broken
      BY <2>1, BrokenStaysBroken
    <2> QED
      BY <1>1, <2>2 DEF Executes, Broken, NoAccount
  <1>5. /\ a3 \in AcctType /\ a3.kind = "mint" /\ a3.supply = n
        /\ a3.mintAuth = "payer" /\ a3.freezeAuth = "payer"
    <2>1. a2.supply + n = n
      BY <1>3, <1>4, AmountAssumption DEF UInt64
    <2>2. a3 = [a2 EXCEPT !.supply = n]
      BY <1>3, <1>4, <2>1, ApplyMintTo
    <2> QED
      BY <1>3, <1>4, <2>2 DEF AcctType
  <1> HIDE DEF a3
  <1>6. /\ a4 \in AcctType /\ a4.kind = "mint" /\ a4.supply = n
        /\ a4.mintAuth = "payer" /\ a4.freezeAuth = "none"
    BY <1>5, ApplyRevokeFreeze DEF AcctType, Authority
  <1> HIDE DEF a4
  <1>7. /\ a5 \in AcctType /\ a5.kind = "mint" /\ a5.supply = n
        /\ a5.mintAuth = "none" /\ a5.freezeAuth = "none"
    BY <1>6, ApplyRevokeMint DEF AcctType, Authority
  <1> QED
    BY <1>1, <1>7

-----------------------------------------------------------------------------
(* The inductive invariant.                                                *)

\* The transaction executed: it is on the cluster's fork and did not fail.
Executed == tx.status # "none" /\ ~tx.failed

\* The mint account is what the executed transaction left, or nothing.
AcctInv ==
  /\ Executed  => acct = Exec(buildMint(spec)) /\ Executes(buildMint(spec))
  /\ ~Executed => acct = NoAccount

\* Mint has not answered before it returns, and a success was read from
\* finalized state.
AnswerInv ==
  /\ pc # "done" => outcome.err = "running"
  /\ outcome.err = "ok" => tx.status = "finalized" /\ ~tx.failed

MintInv == TypeOK /\ AcctInv /\ AnswerInv

\* The invariant holds when Mint is called.
LEMMA InitMint == Init => MintInv
  <1> SUFFICES ASSUME Init PROVE MintInv
    OBVIOUS
  <1>1. acct = NoAccount /\ tx = NoTx
    BY DEF Init, LedgerInit
  <1>2. tx \in TxType
    BY <1>1 DEF NoTx, TxType, Statuses
  <1>3. LedgerTypeOK
    BY <1>1, <1>2, NoAccountType, LedgerAssumption
    DEF Init, LedgerInit, LedgerTypeOK
  <1>4. net \in Networks
    BY EngineAssumption DEF Init, Networks
  <1>5. outcome.mint \in BOOLEAN /\ outcome.err = "running"
    BY DEF Init
  <1>6. TypeOK
    BY <1>3, <1>4, <1>5 DEF Init, TypeOK, Errors
  <1>7. AcctInv
    BY <1>1 DEF AcctInv, Executed, NoTx
  <1>8. AnswerInv
    BY <1>5 DEF AnswerInv
  <1> QED
    BY <1>6, <1>7, <1>8 DEF MintInv

\* The lifecycle has not returned when one of its steps is taken.
LEMMA EngineRuns == Engine => pc # "done"
  BY DEF Engine, Start, ResolveNetwork, CheckTreasury, GetLatestBlockhash,
         Sign, SendTransaction, PollTick, PollDone, GetSignatureStatuses,
         GetBlockHeight, Recheck, VerifySafe, ResolveUnconfirmed

\* What every step of the lifecycle leaves alone: the cluster, but for the
\* expiry of the blockhash it reads and the node its transaction reaches.
LEMMA EngineLedger ==
  ASSUME TypeOK, Engine
  PROVE  /\ UNCHANGED << height, acct, trez, request, opExpired, cancelled >>
         /\ tx' \in TxType
         /\ tx'.status = tx.status /\ tx'.failed = tx.failed
  <1>1. tx \in TxType
    BY DEF TypeOK, LedgerTypeOK
  <1>2. CASE GetLatestBlockhash
    <2>1. PICK h \in 0..height : tx' = [tx EXCEPT !.expiry = h + Window] \/ tx' = tx
      BY <1>2 DEF GetLatestBlockhash, TypeOK, LedgerTypeOK
    <2>2. h + Window \in Nat
      BY LedgerAssumption DEF TypeOK, LedgerTypeOK
    <2> QED
      BY <1>1, <1>2, <2>1, <2>2 DEF GetLatestBlockhash, TxType
  <1>3. CASE SendTransaction
    BY <1>1, <1>3 DEF SendTransaction, TxType
  <1>4. CASE ~GetLatestBlockhash /\ ~SendTransaction
    BY <1>1, <1>4
    DEF Engine, Start, ResolveNetwork, CheckTreasury, Sign, PollTick, PollDone,
        GetSignatureStatuses, GetBlockHeight, Recheck, VerifySafe,
        ResolveUnconfirmed, ledger
  <1> QED
    BY <1>2, <1>3, <1>4

\* An answer that is not "ok" keeps the invariant, whatever it is.
LEMMA FinishWithError ==
  ASSUME NEW m \in BOOLEAN, NEW e \in Errors \ {"ok"}, NEW d, Finish(m, e, d)
  PROVE  /\ pc' = "done"
         /\ outcome'.mint \in BOOLEAN /\ outcome'.err \in Errors
         /\ outcome'.err # "ok"
  BY DEF Finish

\* A mint read by Verify and decoded is the finalized account.
LEMMA VerifiedIsFinal ==
  ASSUME MintInv, NEW a \in MintReads, VerifyOK(a)
  PROVE  tx.status = "finalized" /\ ~tx.failed
  <1>1. a # NoAccount
    BY NoAccountType DEF VerifyOK
  <1>2. tx.status = "finalized" /\ a = acct
    BY <1>1 DEF MintReads, MintAccount, AccountAt
  <1> QED
    BY <1>1, <1>2 DEF MintInv, AcctInv, Executed, TypeOK, LedgerTypeOK, TxType

\* The policy step answers with an error or goes on to the treasury.
LEMMA PolicyStep ==
  ASSUME MintInv, NEW n \in Networks, ApplyPolicy(n)
  PROVE  /\ net' \in Networks /\ pc' \in {"treasury", "done"}
         /\ outcome'.mint \in BOOLEAN /\ outcome'.err \in Errors
         /\ pc' # "done" => outcome' = outcome
         /\ pc' = "done" => outcome'.err # "ok"
  <1>1. \/ Finish(FALSE, "overflow", {}) \/ Finish(FALSE, "blocked", {})
        \/ GoTo("treasury")
    BY DEF ApplyPolicy
  <1>2. CASE GoTo("treasury")
    BY <1>2 DEF ApplyPolicy, GoTo, MintInv, TypeOK
  <1>3. CASE ~GoTo("treasury")
    BY <1>1, <1>3, FinishWithError DEF ApplyPolicy, Errors
  <1> QED
    BY <1>2, <1>3

\* Every step of the lifecycle keeps the types of its own variables, answers
\* at most once, and answers "ok" only from finalized state.
LEMMA EngineControl ==
  ASSUME MintInv, Engine
  PROVE  /\ pc' \in Sites \cup {"start", "done"}
         /\ net' \in Networks
         /\ sig' \in {"none", "good", "bad"}
         /\ outcome'.mint \in BOOLEAN /\ outcome'.err \in Errors
         /\ AnswerInv'
  <1>0. /\ tx'.status = tx.status /\ tx'.failed = tx.failed
        /\ outcome.err # "ok" /\ outcome.mint \in BOOLEAN /\ net \in Networks
        /\ sig \in {"none", "good", "bad"} /\ outcome.err \in Errors
        /\ pc # "done" /\ outcome.err = "running"
    BY EngineRuns, EngineLedger DEF MintInv, TypeOK, AnswerInv
  <1> USE DEF AnswerInv, Sites, SessionSites, OpSites, CheckSites, Errors
  <1>1. CASE Start
    <2>1. CASE ApplyPolicy(pin) /\ pin \in Networks
      BY <1>0, <1>1, <2>1, PolicyStep DEF Start
    <2>2. CASE ~(ApplyPolicy(pin) /\ pin \in Networks)
      <3>1. pin \in Networks \cup {"unpinned"}
        BY EngineAssumption DEF MintInv, TypeOK
      <3>2. \/ Finish(FALSE, "metadata", {}) /\ UNCHANGED net
            \/ Finish(FALSE, "supplyZero", {}) /\ UNCHANGED net
            \/ GoTo("genesis") /\ UNCHANGED net
        BY <1>1, <2>2, <3>1 DEF Start
      <3> QED
        BY <1>0, <1>1, <3>2, FinishWithError DEF Start, GoTo
    <2> QED
      BY <2>1, <2>2
  <1>2. CASE ResolveNetwork
    <2>1. PICK n \in {"mainnet", ClassifyGenesis(cluster)} : ApplyPolicy(n)
      BY <1>2 DEF ResolveNetwork
    <2>2. n \in Networks
      BY DEF ClassifyGenesis, Networks
    <2> QED
      BY <1>0, <1>2, <2>1, <2>2, PolicyStep DEF ResolveNetwork
  <1>3. CASE CheckTreasury
    <2>1. \/ GoTo("blockhash")
          \/ Finish(FALSE, "treasuryConfig", disclosures)
          \/ Finish(FALSE, "treasuryUnchecked", disclosures)
      BY <1>3 DEF CheckTreasury
    <2> QED
      BY <1>0, <1>3, <2>1, FinishWithError DEF CheckTreasury, GoTo
  <1>4. CASE GetLatestBlockhash \/ SendTransaction
    BY <1>0, <1>4 DEF GetLatestBlockhash, SendTransaction, GoTo
  <1>5. CASE Sign
    BY <1>0, <1>5 DEF Sign, GoTo
  <1>6. CASE PollTick \/ PollDone
    BY <1>0, <1>6 DEF PollTick, PollDone, GoTo
  <1>7. CASE GetSignatureStatuses
    BY <1>0, <1>7 DEF GetSignatureStatuses, GoTo
  <1>8. CASE GetBlockHeight
    BY <1>0, <1>8 DEF GetBlockHeight, GoTo
  <1>9. CASE Recheck
    <2>1. GoTo("poll") \/ Finish(FALSE, "notLanded", disclosures)
      BY <1>9 DEF Recheck
    <2> QED
      BY <1>0, <1>9, <2>1, FinishWithError DEF Recheck, GoTo
  <1>10. CASE VerifySafe
    <2>1. PICK a \in MintReads : Finish(TRUE, verifySafe(a), disclosures)
      BY <1>10 DEF VerifySafe
    <2>2. CASE VerifyOK(a)
      BY <1>0, <1>10, <2>1, <2>2, VerifiedIsFinal DEF VerifySafe, verifySafe, Finish
    <2>3. CASE ~VerifyOK(a)
      BY <1>0, <1>10, <2>1, <2>3 DEF VerifySafe, verifySafe, Finish
    <2> QED
      BY <2>2, <2>3
  <1>11. CASE ResolveUnconfirmed
    <2>1. PICK a \in MintReads : Finish(TRUE, resolveUnconfirmed(a), disclosures)
      BY <1>11 DEF ResolveUnconfirmed
    <2>2. CASE VerifyOK(a)
      BY <1>0, <1>11, <2>1, <2>2, VerifiedIsFinal
      DEF ResolveUnconfirmed, resolveUnconfirmed, Finish
    <2>3. CASE ~VerifyOK(a)
      BY <1>0, <1>11, <2>1, <2>3 DEF ResolveUnconfirmed, resolveUnconfirmed, Finish
    <2> QED
      BY <2>2, <2>3
  <1> QED
    BY <1>1, <1>2, <1>3, <1>4, <1>5, <1>6, <1>7, <1>8, <1>9, <1>10, <1>11
    DEF Engine

\* The cluster keeps its types, keeps AcctInv and never undoes finality.
LEMMA ClusterStep ==
  ASSUME MintInv, Cluster
  PROVE  /\ LedgerTypeOK'
         /\ AcctInv'
         /\ tx.status = "finalized" => tx'.status = "finalized" /\ tx'.failed = tx.failed
  <1>0. /\ tx \in TxType /\ acct \in AcctType /\ height \in 0..MaxHeight
        /\ trez \in Shapes /\ spec' = spec
    BY DEF MintInv, TypeOK, LedgerTypeOK, Cluster, request
  <1> USE DEF LedgerTypeOK, AcctInv, Executed
  <1>1. CASE Land(buildMint(spec))
    <2>1. CASE /\ Executes(buildMint(spec))
               /\ tx' = [tx EXCEPT !.status = "processed", !.failed = FALSE]
               /\ acct' = Exec(buildMint(spec))
      <3>1. tx' \in TxType /\ tx'.status = "processed" /\ tx'.failed = FALSE
        BY <1>0, <2>1 DEF TxType, Statuses
      <3>2. acct' \in AcctType
        BY <2>1, ExecutedMintIsFinished
      <3> QED
        BY <1>0, <1>1, <2>1, <3>1, <3>2 DEF Land
    <2>2. CASE /\ tx' = [tx EXCEPT !.status = "processed", !.failed = TRUE]
               /\ acct' = acct
      <3>1. tx' \in TxType /\ tx'.status = "processed" /\ tx'.failed = TRUE
        BY <1>0, <2>2 DEF TxType, Statuses
      <3> QED
        BY <1>0, <1>1, <2>2, <3>1 DEF Land, MintInv
    <2> QED
      BY <1>1, <2>1, <2>2 DEF Land
  <1>2. ASSUME Dropped
        PROVE  /\ tx' \in TxType /\ tx'.status = "none"
               /\ acct' \in AcctType /\ acct' = NoAccount
    BY <1>0, <1>2, NoAccountType DEF Dropped, TxType, Statuses
  <1>3. CASE ConfirmBlock
    <2>0. height' \in 0..MaxHeight /\ trez' = trez
      BY <1>0, <1>3, LedgerAssumption DEF ConfirmBlock
    <2>1. CASE UNCHANGED << tx, acct >>
      BY <1>0, <2>0, <2>1 DEF MintInv
    <2>2. CASE /\ tx.status = "processed"
               /\ tx' = [tx EXCEPT !.status = "confirmed"]
               /\ UNCHANGED acct
      <3>1. /\ tx' \in TxType /\ tx'.status = "confirmed"
            /\ tx'.failed = tx.failed
        BY <1>0, <2>2 DEF TxType, Statuses
      <3> QED
        BY <1>0, <2>0, <2>2, <3>1 DEF MintInv
    <2>3. CASE tx.status = "processed" /\ Dropped
      BY <1>0, <1>2, <2>0, <2>3
    <2> QED
      BY <1>3, <2>1, <2>2, <2>3 DEF ConfirmBlock
  <1>4. CASE Finalize
    <2>1. /\ tx' \in TxType /\ tx'.status = "finalized"
          /\ tx'.failed = tx.failed
      BY <1>0, <1>4 DEF Finalize, TxType, Statuses
    <2> QED
      BY <1>0, <1>4, <2>1 DEF Finalize, MintInv
  <1>5. CASE Fork
    <2>0. height' \in 0..MaxHeight /\ trez' = trez
      BY <1>0, <1>5, LedgerAssumption DEF Fork
    <2>1. CASE UNCHANGED << tx, acct >>
      BY <1>0, <2>0, <2>1 DEF MintInv
    <2>2. CASE tx.status \in {"processed", "confirmed"} /\ Dropped
      BY <1>0, <1>2, <2>0, <2>2
    <2> QED
      BY <1>5, <2>1, <2>2 DEF Fork
  <1>6. CASE CreateConfig
    BY <1>0, <1>6 DEF CreateConfig, Shapes, MintInv
  <1> QED
    BY <1>1, <1>3, <1>4, <1>5, <1>6 DEF Cluster

\* The invariant is preserved by every step of the engine, the contexts and
\* the cluster.
LEMMA NextMint == MintInv /\ [Next]_vars => MintInv'
  <1> SUFFICES ASSUME MintInv, [Next]_vars PROVE MintInv'
    OBVIOUS
  <1>1. CASE Engine
    <2>1. LedgerTypeOK'
      BY <1>1, EngineLedger DEF MintInv, TypeOK, LedgerTypeOK
    <2>2. AcctInv'
      BY <1>1, EngineLedger DEF MintInv, AcctInv, Executed, request
    <2> QED
      BY <1>1, <2>1, <2>2, EngineLedger, EngineControl
      DEF MintInv, TypeOK, request
  <1>2. CASE Cluster
    <2>1. UNCHANGED << request, engineVars >>
      BY <1>2 DEF Cluster
    <2>2. AnswerInv'
      BY <1>2, <2>1, ClusterStep DEF MintInv, AnswerInv, engineVars
    <2> QED
      BY <1>2, <2>1, <2>2, ClusterStep DEF MintInv, TypeOK, request, engineVars
  <1>3. CASE OpBudget \/ Cancel
    <2>1. /\ UNCHANGED << ledger, request, pc, net, sig, outcome >>
          /\ opExpired' \in BOOLEAN /\ cancelled' \in BOOLEAN
      BY <1>3 DEF OpBudget, Cancel, MintInv, TypeOK
    <2> QED
      BY <2>1 DEF MintInv, TypeOK, LedgerTypeOK, AcctInv, Executed, AnswerInv,
                  ledger, request
  <1>4. CASE UNCHANGED vars
    BY <1>4 DEF vars, MintInv, TypeOK, LedgerTypeOK, AcctInv, Executed,
                AnswerInv, ledger, request, engineVars
  <1> QED
    BY <1>1, <1>2, <1>3, <1>4 DEF Next, Returned

\* MintInv is an invariant of Engine.Mint over the cluster, for every set of
\* specs and every behaviour of forks, lag and cancellation.
THEOREM MintInvariant == Spec => []MintInv
  BY InitMint, NextMint, PTL DEF Spec

\* Every variable of the lifecycle and of the cluster keeps its type.
THEOREM TypeCorrect == Spec => []TypeOK
  <1>1. MintInv => TypeOK
    BY DEF MintInv
  <1> QED
    BY <1>1, MintInvariant, PTL

\* The chain never holds an unfinished mint: whatever is lost, forked out,
\* cancelled or late, the account is absent or has no authority and the whole
\* supply.
THEOREM AtomicMint == Spec => []OnChainAlwaysFinished
  <1>1. MintInv => OnChainAlwaysFinished
    BY ExecutedMintIsFinished, NoAccountType
    DEF MintInv, AcctInv, OnChainAlwaysFinished, Finished, SupplyFixed,
        Freezable, VerifyOK
  <1> QED
    BY <1>1, MintInvariant, PTL

\* A success Mint reports is final: no fork and no later step takes it back.
THEOREM SuccessStands == Spec => []SuccessIsFinal
  <1>1. MintInv => SuccessIsFinal
    BY ExecutedMintIsFinished
    DEF MintInv, AcctInv, AnswerInv, Executed, SuccessIsFinal, Finished,
        SupplyFixed, Freezable, VerifyOK
  <1> QED
    BY <1>1, MintInvariant, PTL

-----------------------------------------------------------------------------
(* Expiry.  errTxExpired rests on two things the code takes of its nodes:  *)
(* a confirmed block stays, and the recheck knows what has landed.  Under  *)
(* both, and with any lag in the poll itself, it is a proof.               *)

\* Sites before the transaction goes out.
Unsent == {"start", "genesis", "treasury", "blockhash", "sign", "submit"}

ExpiryInv ==
  /\ pc \in Unsent => ~tx.known
  /\ tx.status # "none" => tx.known
  /\ tx.status = "processed" => height < tx.expiry
  /\ pc = "recheck" => height > tx.expiry
  /\ pc = "done" /\ ~outcome.mint =>
       tx.status = "none" /\ (tx.known => height > tx.expiry)

\* Nothing has landed or been answered when Mint is called.
LEMMA InitExpiry == Init => ExpiryInv
  BY DEF Init, LedgerInit, NoTx, ExpiryInv

\* The engine answers without an address only while nothing has landed and
\* the blockhash, if the transaction is known to a node, is past its height.
LEMMA EngineExpiry ==
  ASSUME MintInv, ExpiryInv, LaggingRecheck = FALSE, Engine
  PROVE  ExpiryInv'
  <1>0. tx \in TxType /\ height' = height /\ tx'.status = tx.status
    BY EngineLedger DEF MintInv, TypeOK, LedgerTypeOK
  <1> USE DEF ExpiryInv, Unsent
  <1>1. CASE Start \/ ResolveNetwork \/ CheckTreasury
    <2>1. /\ tx' = tx /\ pc \in {"start", "genesis", "treasury"}
          /\ pc' \in {"genesis", "treasury", "blockhash", "done"}
      BY <1>1 DEF Start, ResolveNetwork, CheckTreasury, ApplyPolicy, GoTo,
                  Finish, ledger
    <2> QED
      BY <1>0, <2>1
  <1>2. CASE GetLatestBlockhash
    <2>1. tx'.known = tx.known /\ tx.status = "none"
      BY <1>0, <1>2 DEF GetLatestBlockhash, TxType
    <2> QED
      BY <1>0, <1>2, <2>1 DEF GetLatestBlockhash, GoTo
  <1>3. CASE Sign
    BY <1>0, <1>3 DEF Sign, GoTo, ledger
  <1>4. CASE SendTransaction
    <2>1. tx.status = "none" /\ pc' = "poll"
      BY <1>0, <1>4 DEF SendTransaction, GoTo
    <2> QED
      BY <1>0, <2>1
  <1>5. CASE PollTick \/ PollDone \/ GetSignatureStatuses
    <2>1. tx' = tx /\ pc' \in {"poll", "status", "height", "verify", "resolve"}
      BY <1>5 DEF PollTick, PollDone, GetSignatureStatuses, GoTo, ledger
    <2> QED
      BY <1>0, <2>1
  <1>6. CASE GetBlockHeight
    <2>1. tx' = tx
      BY <1>6 DEF GetBlockHeight, ledger
    <2>2. CASE pc' = "poll"
      BY <1>0, <2>1, <2>2
    <2>3. CASE pc' # "poll"
      <3>1. PICK h \in 0..height :
              pc' = (IF h > tx.expiry THEN "recheck" ELSE "poll")
        BY <1>6, <2>3 DEF GetBlockHeight, GoTo
      <3>2. h > tx.expiry /\ pc' = "recheck"
        BY <2>3, <3>1
      <3>3. height > tx.expiry
        BY <1>0, <3>2 DEF TxType, MintInv, TypeOK, LedgerTypeOK
      <3> QED
        BY <1>0, <2>1, <3>2, <3>3
    <2> QED
      BY <2>2, <2>3
  <1>7. CASE Recheck
    <2>1. tx' = tx /\ pc = "recheck"
      BY <1>7 DEF Recheck, ledger
    <2>2. StatusReads(LaggingRecheck) = {tx.status}
      BY DEF StatusReads
    <2>3. pc' = "poll" \/ (pc' = "done" /\ tx.status = "none")
      BY <1>7, <2>2 DEF Recheck, GoTo, Finish
    <2> QED
      BY <1>0, <2>1, <2>3
  <1>8. CASE VerifySafe \/ ResolveUnconfirmed
    <2>1. tx' = tx /\ pc' = "done" /\ outcome'.mint = TRUE
      BY <1>8 DEF VerifySafe, ResolveUnconfirmed, Finish, ledger
    <2> QED
      BY <1>0, <2>1
  <1> QED
    BY <1>1, <1>2, <1>3, <1>4, <1>5, <1>6, <1>7, <1>8 DEF Engine

\* The cluster, when it keeps confirmed blocks, cannot land a transaction whose
\* blockhash is past its height.
LEMMA ClusterExpiry ==
  ASSUME MintInv, ExpiryInv, ConfirmedForks = FALSE, Cluster
  PROVE  ExpiryInv'
  <1>0. /\ tx \in TxType /\ height \in Int /\ tx.expiry \in Int
        /\ pc' = pc /\ outcome' = outcome
    BY DEF MintInv, TypeOK, LedgerTypeOK, TxType, Cluster, engineVars
  <1> USE DEF ExpiryInv, Unsent
  <1>1. CASE Land(buildMint(spec))
    <2>1. /\ tx.known /\ tx.status = "none" /\ height < tx.expiry
          /\ height' = height
          /\ tx'.known = tx.known /\ tx'.expiry = tx.expiry
      BY <1>0, <1>1 DEF Land, TxType
    <2> QED
      BY <1>0, <2>1
  <1>2. CASE ConfirmBlock
    <2>1. height' = height + 1
      BY <1>2 DEF ConfirmBlock
    <2>2. CASE /\ tx.status = "processed" => height + 1 < tx.expiry
               /\ UNCHANGED << tx, acct >>
      BY <1>0, <2>1, <2>2
    <2>3. CASE /\ tx.status = "processed"
               /\ \/ tx' = [tx EXCEPT !.status = "confirmed"]
                  \/ Dropped
      <3>1. /\ tx'.known = tx.known /\ tx'.expiry = tx.expiry
            /\ tx'.status \in {"none", "confirmed"}
        BY <1>0, <2>3 DEF Dropped, TxType
      <3> QED
        BY <1>0, <2>1, <2>3, <3>1
    <2> QED
      BY <1>2, <2>2, <2>3 DEF ConfirmBlock
  <1>3. CASE Finalize
    <2>1. /\ height' = height /\ tx.status = "confirmed"
          /\ tx'.status = "finalized"
          /\ tx'.known = tx.known /\ tx'.expiry = tx.expiry
      BY <1>0, <1>3 DEF Finalize, TxType
    <2> QED
      BY <1>0, <2>1
  <1>4. CASE Fork
    BY <1>4 DEF Fork
  <1>5. CASE CreateConfig
    BY <1>0, <1>5 DEF CreateConfig
  <1> QED
    BY <1>1, <1>2, <1>3, <1>4, <1>5 DEF Cluster

\* ExpiryInv is preserved by every step.
LEMMA NextExpiry ==
  ASSUME ConfirmedForks = FALSE, LaggingRecheck = FALSE
  PROVE  MintInv /\ ExpiryInv /\ [Next]_vars => ExpiryInv'
  <1> SUFFICES ASSUME MintInv, ExpiryInv, [Next]_vars PROVE ExpiryInv'
    OBVIOUS
  <1>1. CASE Engine
    BY <1>1, EngineExpiry
  <1>2. CASE Cluster
    BY <1>2, ClusterExpiry
  <1>3. CASE OpBudget \/ Cancel \/ UNCHANGED vars
    BY <1>3 DEF OpBudget, Cancel, vars, ledger, engineVars, ExpiryInv
  <1> QED
    BY <1>1, <1>2, <1>3 DEF Next, Returned

\* When confirmed blocks stay and the recheck is served by a node that knows
\* what has landed, a mint reported without an address is on no fork and never
\* will be: "provably nothing happened".  Neither condition can be dropped:
\* see the run expired_despite_landing, and the README on ConfirmedForks.
THEOREM ExpiryIsProof ==
  ASSUME ConfirmedForks = FALSE, LaggingRecheck = FALSE
  PROVE  Spec => []NoAddressNothingLanded
  <1>1. Init => ExpiryInv
    BY InitExpiry
  <1>2. MintInv /\ ExpiryInv /\ [Next]_vars => ExpiryInv'
    BY NextExpiry
  <1>3. ExpiryInv => NoAddressNothingLanded
    BY DEF ExpiryInv, NoAddressNothingLanded
  <1> QED
    BY <1>1, <1>2, <1>3, MintInvariant, PTL DEF Spec

-----------------------------------------------------------------------------
(* What Mint promises.  Under the two conditions of ExpiryIsProof, MintInv *)
(* and ExpiryInv make every step of the engine and of the cluster a step   *)
(* of MintPromise or a stutter.                                            *)

\* A step of the lifecycle leaves the token where it is, and when it returns
\* it gives the one answer that the chain bears out.
LEMMA EngineKeepsPromise ==
  ASSUME MintInv, MintInv', ExpiryInv', Engine
  PROVE  \/ UNCHANGED << PromisedChain, PromisedAnswer >>
         \/ \E a \in {"success", "nothing", "address"} : Promise!Answer(a)
  <1>1. UNCHANGED PromisedChain
    BY EngineLedger DEF MintInv, PromisedChain
  <1>2. PromisedAnswer = "pending"
    BY EngineRuns DEF PromisedAnswer
  <1>3. CASE pc' # "done"
    BY <1>1, <1>2, <1>3 DEF PromisedAnswer
  <1>4. CASE pc' = "done" /\ outcome'.err = "ok"
    <2>1. PromisedAnswer' = "success"
      BY <1>4 DEF PromisedAnswer
    <2>2. PromisedChain' = "final"
      BY <1>4 DEF MintInv, AnswerInv, PromisedChain
    <2> QED
      BY <1>1, <1>2, <2>1, <2>2 DEF Promise!Answer
  <1>5. CASE pc' = "done" /\ outcome'.err # "ok" /\ outcome'.mint
    <2>1. PromisedAnswer' = "address"
      BY <1>5 DEF PromisedAnswer
    <2> QED
      BY <1>1, <1>2, <2>1 DEF Promise!Answer
  <1>6. CASE pc' = "done" /\ outcome'.err # "ok" /\ ~outcome'.mint
    <2>1. PromisedAnswer' = "nothing"
      BY <1>6 DEF PromisedAnswer
    <2>2. PromisedChain' = "absent"
      BY <1>6 DEF ExpiryInv, PromisedChain
    <2> QED
      BY <1>1, <1>2, <2>1, <2>2 DEF Promise!Answer
  <1> QED
    BY <1>3, <1>4, <1>5, <1>6

\* A step of the cluster moves the token only as MintPromise lets it, and
\* lands it only while Mint has not said that nothing happened.
LEMMA ClusterKeepsPromise ==
  ASSUME MintInv, ExpiryInv, ConfirmedForks = FALSE, Cluster
  PROVE  \/ UNCHANGED << PromisedChain, PromisedAnswer >>
         \/ Promise!Land \/ Promise!Drop \/ Promise!Settle
  <1>0. tx \in TxType /\ height \in Int
    BY DEF MintInv, TypeOK, LedgerTypeOK
  <1>1. UNCHANGED PromisedAnswer
    BY DEF Cluster, engineVars, PromisedAnswer
  <1>2. ASSUME Dropped, tx.status = "processed"
        PROVE  UNCHANGED PromisedChain \/ Promise!Drop
    <2>1. PromisedChain' = "absent"
      BY <1>0, <1>2 DEF Dropped, PromisedChain, TxType
    <2>2. PromisedChain \in {"absent", "tentative"}
      BY <1>2 DEF PromisedChain
    <2> QED
      BY <1>1, <2>1, <2>2 DEF Promise!Drop
  <1>3. CASE Land(buildMint(spec))
    <2>1. PromisedChain = "absent"
      BY <1>3 DEF Land, PromisedChain
    <2>2. PromisedChain' \in {"absent", "tentative"}
      BY <1>0, <1>3 DEF Land, PromisedChain, TxType
    <2>3. PromisedAnswer # "nothing"
      <3> SUFFICES ASSUME pc = "done", ~outcome.mint PROVE FALSE
        BY DEF PromisedAnswer
      <3>1. height > tx.expiry /\ height < tx.expiry
        BY <1>3 DEF Land, ExpiryInv
      <3> QED
        BY <1>0, <3>1 DEF TxType
    <2> QED
      BY <1>1, <2>1, <2>2, <2>3 DEF Promise!Land
  <1>4. CASE ConfirmBlock
    <2>1. CASE UNCHANGED << tx, acct >>
      BY <1>1, <2>1 DEF PromisedChain
    <2>2. CASE tx.status = "processed" /\ tx' = [tx EXCEPT !.status = "confirmed"]
      BY <1>0, <1>1, <2>2 DEF PromisedChain, TxType
    <2>3. CASE tx.status = "processed" /\ Dropped
      BY <1>1, <1>2, <2>3
    <2> QED
      BY <1>4, <2>1, <2>2, <2>3 DEF ConfirmBlock
  <1>5. CASE Finalize
    <2>1. CASE tx.failed
      BY <1>0, <1>1, <1>5, <2>1 DEF Finalize, PromisedChain, TxType
    <2>2. CASE ~tx.failed
      <3>1. PromisedChain = "tentative" /\ PromisedChain' = "final"
        BY <1>0, <1>5, <2>2 DEF Finalize, PromisedChain, TxType
      <3> QED
        BY <1>1, <3>1 DEF Promise!Settle
    <2> QED
      BY <2>1, <2>2
  <1>6. CASE Fork
    BY <1>6 DEF Fork
  <1>7. CASE CreateConfig
    BY <1>1, <1>7 DEF CreateConfig, PromisedChain
  <1> QED
    BY <1>3, <1>4, <1>5, <1>6, <1>7 DEF Cluster

\* When confirmed blocks stay and the recheck knows what has landed,
\* Engine.Mint over the cluster implements MintPromise: a success is final and
\* "nothing" is for ever, whatever is lost, late, refused or cancelled.
THEOREM PromiseKept ==
  ASSUME ConfirmedForks = FALSE, LaggingRecheck = FALSE
  PROVE  Spec => KeepsPromise
  <1>1. Init => Promise!Init
    BY DEF Init, LedgerInit, NoTx, Promise!Init, PromisedChain, PromisedAnswer
  <1>2. /\ MintInv /\ MintInv' /\ ExpiryInv /\ ExpiryInv'
        /\ [Next]_vars
        => [Promise!Next]_<< PromisedChain, PromisedAnswer >>
    <2> SUFFICES ASSUME MintInv, MintInv', ExpiryInv, ExpiryInv', [Next]_vars
                 PROVE  Promise!Next \/ UNCHANGED << PromisedChain, PromisedAnswer >>
      OBVIOUS
    <2>1. CASE Engine
      BY <2>1, EngineKeepsPromise DEF Promise!Next
    <2>2. CASE Cluster
      BY <2>2, ClusterKeepsPromise DEF Promise!Next
    <2>3. CASE OpBudget \/ Cancel \/ UNCHANGED vars
      BY <2>3 DEF OpBudget, Cancel, vars, ledger, engineVars, PromisedChain,
                  PromisedAnswer
    <2> QED
      BY <2>1, <2>2, <2>3 DEF Next, Returned
  <1>3. MintInv /\ ExpiryInv /\ [Next]_vars => ExpiryInv'
    BY NextExpiry
  <1> QED
    BY <1>1, <1>2, <1>3, InitExpiry, MintInvariant, PTL
    DEF Spec, KeepsPromise, Promise!Spec

-----------------------------------------------------------------------------
(* The amount.                                                             *)

\* A remainder below the modulus is the number itself.
LEMMA SmallRemainder ==
  ASSUME NEW a \in Nat, NEW m \in Nat, a < m
  PROVE  a % m = a
  OBVIOUS

\* The function in the definition of Tens.
LEMMA TensLoop ==
  ASSUME NEW n \in Nat
  PROVE  \E t \in [0..n -> Nat] :
           /\ Tens(n) = t[n]
           /\ t[0] = 1
           /\ \A i \in 1..n : t[i] = t[i - 1] * 10
  <1> DEFINE step == [p \in Nat \X (1..n) |-> p[1] * 10]
             Loop(t) == t = [i \in 0..n |-> IF i = 0 THEN 1 ELSE t[i-1] * 10]
             tens == CHOOSE t : Loop(t)
  <1>1. step \in [Nat \X (1..n) -> Nat]
    OBVIOUS
  <1>2. ASSUME NEW v \in Nat, NEW i \in 1..n PROVE step[<< v, i >>] = v * 10
    OBVIOUS
  <1> HIDE DEF step
  <1>3. \E t : Loop(t)
    <2>1. PICK t : Computed(t, n, Nat, 1, step)
      BY <1>1, RecursionUpTo
    <2>2. ASSUME NEW i \in 0..n
          PROVE  t[i] = IF i = 0 THEN 1 ELSE t[i-1] * 10
      <3>1. CASE i = 0
        BY <2>1, <3>1 DEF Computed
      <3>2. CASE i # 0
        <4>1. i \in 1..n
          BY <3>2
        <4>2. t[i - 1] \in Nat /\ t[i] = step[<< t[i - 1], i >>]
          BY <2>1, <4>1, ComputedStep
        <4> QED
          BY <1>2, <3>2, <4>1, <4>2
      <3> QED
        BY <3>1, <3>2
    <2>3. t = [i \in 0..n |-> t[i]]
      BY <2>1 DEF Computed
    <2> QED
      BY <2>2, <2>3
  <1>4. Loop(tens)
    <2> HIDE DEF Loop
    <2> QED
      BY <1>3
  <1>5. Tens(n) = tens[n]
    BY DEF Tens
  <1> HIDE DEF tens
  <1>6. Computed(tens, n, Nat, 1, step)
    <2> DEFINE body == [i \in 0..n |-> IF i = 0 THEN 1 ELSE tens[i-1] * 10]
    <2>1. tens = body
      BY <1>4
    <2>2. /\ body = [i \in 0..n |-> body[i]] /\ body[0] = 1
          /\ \A i \in 1..n : body[i] = tens[i-1] * 10
      OBVIOUS
    <2> HIDE DEF body
    <2>3. /\ tens = [i \in 0..n |-> tens[i]] /\ tens[0] = 1
          /\ \A i \in 1..n : tens[i] = tens[i - 1] * 10
      BY <2>1, <2>2
    <2> QED
      BY <1>1, <1>2, <2>3, ComputedByEquation
  <1>7. tens \in [0..n -> Nat] /\ tens[0] = 1
    BY <1>6 DEF Computed
  <1>8. ASSUME NEW i \in 1..n PROVE tens[i] = tens[i - 1] * 10
    <2>1. tens[i - 1] \in Nat /\ tens[i] = step[<< tens[i - 1], i >>]
      BY <1>6, ComputedStep
    <2> QED
      BY <1>2, <2>1
  <1> QED
    BY <1>5, <1>7, <1>8

\* The loop of scaledAmount.  As long as it has not reported an overflow, each
\* round holds the exact product: none of its multiplications wrapped.
LEMMA ScaledIsExact ==
  ASSUME NEW whole \in UInt64, NEW decimals \in Nat,
         scaledAmount(whole, decimals) # Overflow
  PROVE  scaledAmount(whole, decimals) = whole * Tens(decimals)
  <1> DEFINE V == UInt64 \cup {Overflow}
             Round(v) == IF v = Overflow \/ v > MaxUint64 \div 10 THEN Overflow
                         ELSE (v * 10) % (MaxUint64 + 1)
             step == [p \in V \X (1..decimals) |-> Round(p[1])]
             Loop(f) == f = [i \in 0..decimals |->
                               IF i = 0 THEN whole
                               ELSE IF f[i-1] = Overflow \/ f[i-1] > MaxUint64 \div 10
                                    THEN Overflow
                                    ELSE (f[i-1] * 10) % (MaxUint64 + 1)]
             amount == CHOOSE f : Loop(f)
  <1>1. /\ MaxUint64 \in Nat /\ MaxUint64 + 1 \in Nat
        /\ UInt64 = 0..MaxUint64 /\ Overflow = -1
    BY AmountAssumption DEF UInt64, Overflow
  <1>2. ASSUME NEW v \in V, Round(v) # Overflow
        PROVE  v \in Nat /\ v # Overflow /\ Round(v) = v * 10 /\ v * 10 \in UInt64
    <2>1. v \in 0..MaxUint64 /\ v <= MaxUint64 \div 10
      BY <1>1, <1>2
    <2>2. v * 10 \in Nat /\ v * 10 < MaxUint64 + 1
      BY <1>1, <2>1
    <2>3. (v * 10) % (MaxUint64 + 1) = v * 10
      BY <1>1, <2>2, SmallRemainder
    <2> QED
      BY <1>1, <2>1, <2>2, <2>3
  <1>3. step \in [V \X (1..decimals) -> V] /\ whole \in V
    BY <1>2
  <1>4. ASSUME NEW v \in V, NEW i \in 1..decimals PROVE step[<< v, i >>] = Round(v)
    OBVIOUS
  <1> HIDE DEF step
  <1>5. \E f : Loop(f)
    <2>1. PICK f : Computed(f, decimals, V, whole, step)
      BY <1>3, RecursionUpTo
    <2>2. ASSUME NEW i \in 0..decimals
          PROVE  f[i] = IF i = 0 THEN whole ELSE Round(f[i-1])
      <3>1. CASE i = 0
        BY <2>1, <3>1 DEF Computed
      <3>2. CASE i # 0
        <4>1. i \in 1..decimals
          BY <3>2
        <4>2. f[i - 1] \in V /\ f[i] = step[<< f[i - 1], i >>]
          BY <2>1, <4>1, ComputedStep
        <4>3. f[i] = Round(f[i - 1])
          BY <1>4, <4>1, <4>2
        <4> QED
          BY <3>2, <4>3
      <3> QED
        BY <3>1, <3>2
    <2>3. f = [i \in 0..decimals |-> f[i]]
      BY <2>1 DEF Computed
    <2> QED
      BY <2>2, <2>3
  <1>6. Loop(amount)
    <2> HIDE DEF Loop
    <2> QED
      BY <1>5
  <1>7. scaledAmount(whole, decimals) =
          IF amount[decimals] \in UInt64 THEN amount[decimals] ELSE Overflow
    BY DEF scaledAmount
  <1> HIDE DEF amount
  <1>8. Computed(amount, decimals, V, whole, step)
    <2> DEFINE body == [i \in 0..decimals |-> IF i = 0 THEN whole ELSE Round(amount[i-1])]
    <2>1. amount = body
      BY <1>6
    <2>2. /\ body = [i \in 0..decimals |-> body[i]] /\ body[0] = whole
          /\ \A i \in 1..decimals : body[i] = Round(amount[i-1])
      <3> HIDE DEF Round
      <3> QED
        OBVIOUS
    <2> HIDE DEF body, Round
    <2>3. /\ amount = [i \in 0..decimals |-> amount[i]] /\ amount[0] = whole
          /\ \A i \in 1..decimals : amount[i] = Round(amount[i - 1])
      BY <2>1, <2>2
    <2> HIDE DEF V
    <2> QED
      BY <1>3, <1>4, <2>3, ComputedByEquation
  <1>9. PICK t \in [0..decimals -> Nat] :
          /\ Tens(decimals) = t[decimals]
          /\ t[0] = 1
          /\ \A i \in 1..decimals : t[i] = t[i - 1] * 10
    BY TensLoop
  <1> DEFINE Exact == { i \in 0..decimals :
                          amount[i] # Overflow => amount[i] = whole * t[i] }
  <1>10. 0 \in Exact
    BY <1>1, <1>8, <1>9 DEF Computed
  <1>11. ASSUME NEW i \in 0..(decimals - 1), i \in Exact
         PROVE  i + 1 \in Exact
    <2>1. i + 1 \in 1..decimals /\ (i + 1) - 1 = i /\ i + 1 \in 0..decimals
      OBVIOUS
    <2>2. amount[i] \in V /\ amount[i + 1] = step[<< amount[i], i + 1 >>]
      BY <1>8, <2>1, ComputedStep
    <2>3. amount[i + 1] = Round(amount[i])
      BY <1>4, <2>1, <2>2
    <2>4. ASSUME amount[i + 1] # Overflow
          PROVE  amount[i + 1] = whole * t[i + 1]
      <3>1. amount[i] # Overflow /\ amount[i + 1] = amount[i] * 10
        BY <1>2, <2>2, <2>3, <2>4
      <3>2. amount[i] = whole * t[i] /\ whole \in Int
        BY <1>1, <1>11, <3>1
      <3>3. t[i + 1] = t[i] * 10 /\ t[i] \in Int
        BY <1>9, <2>1
      <3> QED
        BY <3>1, <3>2, <3>3
    <2> QED
      BY <2>1, <2>4
  <1>12. decimals \in Exact
    <2> HIDE DEF Exact
    <2>1. \A i \in 0..decimals : i \in Exact
      BY <1>10, <1>11, InductionUpTo
    <2> QED
      BY <2>1
  <1> QED
    BY <1>7, <1>9, <1>12

\* When the amount fits, every instruction of the transaction finds what it
\* needs, so nothing in it can make it fail.
LEMMA BuiltMintExecutes ==
  ASSUME NEW s, Scaled(s) # Overflow
  PROVE  Executes(buildMint(s))
  <1> DEFINE n  == Scaled(s)
             a1 == Apply(NoAccount, Ix("create", 0))
             a2 == Apply(a1, Ix("createATA", 0))
             a3 == Apply(a2, Ix("mintTo", n))
             a4 == Apply(a3, Ix("revokeFreeze", 0))
             a5 == Apply(a4, Ix("revokeMint", 0))
  <1>1. Exec(buildMint(s)) = a5
    BY DEF Exec, After1, After2, After3, After4, buildMint
  <1>2. n \in UInt64
    BY ScaledType
  <1>3. /\ a1 \in AcctType /\ a1.kind = "mint" /\ a1.supply = 0
        /\ a1.mintAuth = "payer" /\ a1.freezeAuth = "payer"
    BY NoAccountType, ApplyCreate DEF AcctType, AcctKinds, Authority, NoAccount
  <1> HIDE DEF a1, n
  <1>4. /\ a2 \in AcctType /\ a2.kind = "mint" /\ a2.supply = 0 /\ a2.ata
        /\ a2.mintAuth = "payer" /\ a2.freezeAuth = "payer"
    BY <1>3, ApplyCreateATA DEF AcctType
  <1> HIDE DEF a2
  <1>5. /\ a3 \in AcctType /\ a3.kind = "mint"
        /\ a3.mintAuth = "payer" /\ a3.freezeAuth = "payer"
    <2>1. a2.supply + n = n
      BY <1>2, <1>4, AmountAssumption DEF UInt64
    <2>2. a3 = [a2 EXCEPT !.supply = n]
      BY <1>2, <1>4, <2>1, ApplyMintTo
    <2> QED
      BY <1>2, <1>4, <2>2 DEF AcctType
  <1> HIDE DEF a3
  <1>6. a4 \in AcctType /\ a4.kind = "mint" /\ a4.mintAuth = "payer"
    BY <1>5, ApplyRevokeFreeze DEF AcctType, Authority
  <1> HIDE DEF a4
  <1>7. a5.kind = "mint"
    BY <1>6, ApplyRevokeMint DEF AcctType
  <1> QED
    BY <1>1, <1>7 DEF Executes

-----------------------------------------------------------------------------
(* What has been decided by the time a transaction is out.                 *)

\* The network is the one the caller pinned or, if none, what the genesis hash
\* proves; only an unpinned engine asks for it.
NetInv ==
  /\ IF pin = "unpinned" THEN net \in {"mainnet", ClassifyGenesis(cluster)}
                         ELSE net = pin
  /\ pc = "genesis" => pin = "unpinned"

\* The transaction goes out once, from "submit".
SentInv ==
  /\ pc \in Unsent => ~tx.known
  /\ tx.status # "none" => tx.known

\* The amount fits and the policy accepts the plan on the network resolved.
Accepted == Scaled(spec) # Overflow /\ Guard(plan(spec, net))

PolicyInv == pc \notin {"start", "genesis", "done"} \/ tx.known => Accepted

\* The disclosures returned with an address are those of the plan accepted.
ToldInv == pc = "done" /\ outcome.mint => outcome.disclosures = disclosures

CustodyInv == NetInv /\ SentInv /\ PolicyInv /\ ToldInv

\* The invariant holds when Mint is called.
LEMMA InitCustody == Init => CustodyInv
  BY DEF Init, LedgerInit, NoTx, CustodyInv, NetInv, SentInv, PolicyInv,
         ToldInv, Unsent

\* The policy step fixes the network and lets only an accepted plan pass.
LEMMA PolicyAccepts ==
  ASSUME NEW n, ApplyPolicy(n), spec' = spec
  PROVE  /\ net' = n
         /\ \/ pc' = "done" /\ outcome'.mint = FALSE
            \/ pc' = "treasury" /\ Accepted'
  BY DEF ApplyPolicy, Finish, GoTo, Accepted, Scaled, plan, treasury

\* After the policy the lifecycle leaves the network alone, keeps or returns
\* the disclosures, and sends only from "submit".
LEMMA LaterSteps ==
  ASSUME MintInv, Engine, pc \notin {"start", "genesis"}
  PROVE  /\ net' = net
         /\ pc' \notin {"start", "genesis"}
         /\ pc' = "done" /\ outcome'.mint => outcome'.disclosures = disclosures
         /\ tx'.known = tx.known \/ pc = "submit"
         /\ pc' \in Unsent => pc \in Unsent /\ tx'.known = tx.known
  <1>0. tx \in TxType
    BY DEF MintInv, TypeOK, LedgerTypeOK
  <1> USE DEF Unsent
  <1>1. CASE CheckTreasury
    BY <1>1 DEF CheckTreasury, GoTo, Finish, ledger
  <1>2. CASE GetLatestBlockhash
    BY <1>0, <1>2 DEF GetLatestBlockhash, GoTo, TxType
  <1>3. CASE Sign
    BY <1>3 DEF Sign, GoTo, ledger
  <1>4. CASE SendTransaction
    BY <1>4 DEF SendTransaction, GoTo
  <1>5. CASE PollTick \/ PollDone \/ GetSignatureStatuses
    BY <1>5 DEF PollTick, PollDone, GetSignatureStatuses, GoTo, ledger
  <1>6. CASE GetBlockHeight
    BY <1>6 DEF GetBlockHeight, GoTo, ledger
  <1>7. CASE Recheck
    BY <1>7 DEF Recheck, GoTo, Finish, ledger
  <1>8. CASE VerifySafe \/ ResolveUnconfirmed
    BY <1>8 DEF VerifySafe, ResolveUnconfirmed, Finish, ledger
  <1>9. CASE Start \/ ResolveNetwork
    BY <1>9 DEF Start, ResolveNetwork
  <1> QED
    BY <1>1, <1>2, <1>3, <1>4, <1>5, <1>6, <1>7, <1>8, <1>9 DEF Engine

\* Every step of the lifecycle keeps the invariant.
LEMMA EngineCustody ==
  ASSUME MintInv, CustodyInv, Engine
  PROVE  CustodyInv'
  <1>0. /\ UNCHANGED << spec, pin, cluster >> /\ tx'.status = tx.status
        /\ pc # "done"
    BY EngineLedger, EngineRuns DEF MintInv, request
  <1>1. disclosures' = disclosures \/ net' # net
    BY <1>0 DEF disclosures, plan, treasury
  <1>2. Accepted' = Accepted \/ net' # net
    BY <1>0 DEF Accepted, Scaled, plan, treasury
  <1> USE DEF CustodyInv
  <1>3. CASE pc \in {"start", "genesis"}
    <2>1. tx' = tx /\ ~tx.known
      BY <1>3 DEF Engine, Start, ResolveNetwork, CheckTreasury,
             GetLatestBlockhash, Sign, SendTransaction, PollTick, PollDone,
             GetSignatureStatuses, GetBlockHeight, Recheck, VerifySafe,
             ResolveUnconfirmed, ledger, SentInv, Unsent
    <2>2. Start \/ ResolveNetwork
      BY <1>3 DEF Engine, CheckTreasury,
             GetLatestBlockhash, Sign, SendTransaction, PollTick, PollDone,
             GetSignatureStatuses, GetBlockHeight, Recheck, VerifySafe,
             ResolveUnconfirmed
    <2>3. \/ UNCHANGED net /\ pc' = "done" /\ outcome'.mint = FALSE
          \/ UNCHANGED net /\ pc' = "genesis" /\ pin = "unpinned"
          \/ pin # "unpinned" /\ ApplyPolicy(pin)
          \/ /\ pin = "unpinned"
             /\ \E n \in {"mainnet", ClassifyGenesis(cluster)} : ApplyPolicy(n)
      BY <2>2 DEF Start, ResolveNetwork, NetInv, GoTo, Finish
    <2>4. NetInv'
      BY <1>0, <2>3, PolicyAccepts DEF NetInv
    <2>5. SentInv'
      BY <1>0, <2>1 DEF SentInv
    <2>6. PolicyInv'
      BY <1>0, <2>1, <2>3, PolicyAccepts DEF PolicyInv
    <2>7. ToldInv'
      BY <1>0, <2>3, PolicyAccepts DEF ToldInv
    <2> QED
      BY <2>4, <2>5, <2>6, <2>7
  <1>4. CASE pc \notin {"start", "genesis"}
    <2>1. /\ net' = net /\ pc' \notin {"start", "genesis"}
          /\ pc' = "done" /\ outcome'.mint => outcome'.disclosures = disclosures
          /\ tx'.known = tx.known \/ pc = "submit"
          /\ pc' \in Unsent => pc \in Unsent /\ tx'.known = tx.known
      BY <1>4, LaterSteps
    <2>2. NetInv'
      BY <1>0, <2>1 DEF NetInv
    <2>3. SentInv'
      BY <1>0, <2>1 DEF SentInv, Unsent
    <2>4. PolicyInv'
      BY <1>0, <1>2, <1>4, <2>1 DEF PolicyInv
    <2>5. ToldInv'
      BY <1>1, <2>1 DEF ToldInv
    <2> QED
      BY <2>2, <2>3, <2>4, <2>5
  <1> QED
    BY <1>3, <1>4

\* The cluster lands only what is out, and changes nothing Mint decided.
LEMMA ClusterCustody ==
  ASSUME MintInv, CustodyInv, Cluster
  PROVE  CustodyInv'
  <1>0. tx \in TxType
    BY DEF MintInv, TypeOK, LedgerTypeOK
  <1>1. UNCHANGED << spec, pin, cluster, pc, net, outcome >>
    BY DEF Cluster, request, engineVars
  <1>2. tx'.known = tx.known /\ (tx'.status # "none" => tx.known)
    BY <1>0 DEF Cluster, Land, ConfirmBlock, Finalize, Fork, CreateConfig,
                Dropped, TxType, CustodyInv, SentInv
  <1>3. Accepted' = Accepted /\ disclosures' = disclosures
    BY <1>1 DEF Accepted, disclosures, Scaled, plan, treasury
  <1> QED
    BY <1>1, <1>2, <1>3 DEF CustodyInv, NetInv, SentInv, PolicyInv, ToldInv

\* CustodyInv is preserved by every step.
LEMMA NextCustody == MintInv /\ CustodyInv /\ [Next]_vars => CustodyInv'
  <1> SUFFICES ASSUME MintInv, CustodyInv, [Next]_vars PROVE CustodyInv'
    OBVIOUS
  <1>1. CASE Engine
    BY <1>1, EngineCustody
  <1>2. CASE Cluster
    BY <1>2, ClusterCustody
  <1>3. CASE OpBudget \/ Cancel \/ UNCHANGED vars
    <2>1. UNCHANGED << tx, spec, pin, cluster, pc, net, outcome >>
      BY <1>3 DEF OpBudget, Cancel, vars, ledger, request, engineVars
    <2>2. Accepted' = Accepted /\ disclosures' = disclosures
      BY <2>1 DEF Accepted, disclosures, Scaled, plan, treasury
    <2> QED
      BY <2>1, <2>2 DEF CustodyInv, NetInv, SentInv, PolicyInv, ToldInv
  <1> QED
    BY <1>1, <1>2, <1>3 DEF Next, Returned

\* CustodyInv is an invariant, whatever the cluster does.
THEOREM CustodyInvariant == Spec => []CustodyInv
  BY InitCustody, NextCustody, MintInvariant, PTL DEF Spec

\* The transaction that goes out executes whole: no order of its instructions,
\* no amount and no missing account makes it fail.
THEOREM SentTxExecutes == Spec => []BuiltTxExecutes
  <1>1. CustodyInv => BuiltTxExecutes
    BY BuiltMintExecutes DEF CustodyInv, PolicyInv, Accepted, BuiltTxExecutes
  <1> QED
    BY <1>1, CustodyInvariant, PTL

\* The supply on chain is the number of tokens asked for, scaled by its
\* decimals in unbounded arithmetic: for every width of the integers.
THEOREM SupplyIsExact == Spec => []ExactSupply
  <1>1. MintInv => ExactSupply
    <2> SUFFICES ASSUME MintInv, acct.kind = "mint"
                 PROVE  acct.supply = spec.supply * Tens(spec.decimals)
      BY DEF ExactSupply
    <2>1. /\ Executes(buildMint(spec)) /\ acct = Exec(buildMint(spec))
      BY NoAccountType DEF MintInv, AcctInv
    <2>2. acct.supply = Scaled(spec) /\ acct.supply \in UInt64
      BY <2>1, ExecutedMintIsFinished DEF AcctType
    <2>3. spec.supply \in UInt64 /\ spec.decimals \in Nat
      BY EngineAssumption DEF MintInv, TypeOK, SpecType
    <2>4. Scaled(spec) # Overflow
      BY <2>2, AmountAssumption DEF UInt64, Overflow
    <2> QED
      BY <2>2, <2>3, <2>4, ScaledIsExact DEF Scaled
  <1> QED
    BY <1>1, MintInvariant, PTL

\* A supply held by the payer's own key is only ever sent to a cluster that the
\* genesis hash proves to be a test cluster, or that the caller pinned.
THEOREM HotKeyBarred == Spec => []HotKeyOnlyOnTestCluster
  <1>1. CustodyInv => HotKeyOnlyOnTestCluster
    <2> SUFFICES ASSUME CustodyInv, tx.known, treasury(spec) = "payer"
                 PROVE  IF pin = "unpinned" THEN cluster \in {"devnet", "testnet"}
                                            ELSE ~Live(pin)
      BY DEF HotKeyOnlyOnTestCluster
    <2>1. Guard(plan(spec, net))
      BY DEF CustodyInv, PolicyInv, Accepted
    <2>2. ~Live(net)
      <3> DEFINE p == plan(spec, net)
      <3>1. p.LiveNetwork = Live(net) /\ p.TreasuryIsHotSigner = TRUE
        BY DEF plan, ZeroPlan
      <3> HIDE DEF p
      <3>2. "hot_key_treasury" \in DOMAIN BlockRules(p)
        BY DEF BlockRules
      <3>3. ~BlockRules(p)["hot_key_treasury"]
        BY <2>1, <3>2 DEF Guard, Blocking, p
      <3>4. ~(p.LiveNetwork /\ p.TreasuryIsHotSigner)
        BY <3>3 DEF BlockRules
      <3> QED
        BY <3>1, <3>4
    <2> QED
      BY <2>2 DEF CustodyInv, NetInv, Live, ClassifyGenesis
  <1> QED
    BY <1>1, CustodyInvariant, PTL

\* An address never reaches the caller without the disclosures that the request
\* and the real cluster call for, by whichever path Mint returned.
THEOREM DisclosuresReachCaller == Spec => []AddressComesWithDisclosures
  <1>1. CustodyInv => AddressComesWithDisclosures
    <2> SUFFICES ASSUME CustodyInv, pc = "done", outcome.mint
                 PROVE  /\ "creator_concentration" \in disclosures
                        /\ pin = "unpinned" /\ cluster \notin {"devnet", "testnet"}
                             /\ ~spec.contentAddressed =>
                               "mutable_metadata_uri" \in disclosures
      BY DEF CustodyInv, ToldInv, AddressComesWithDisclosures
    <2> DEFINE p == plan(spec, net)
    <2>1. /\ p.CreatorSupplyPct = 100 /\ p.LiveNetwork = Live(net)
          /\ p.MutableMetadataURI = ~spec.contentAddressed
      BY DEF plan, ZeroPlan
    <2>2. disclosures = Blocking(p) \cup Warnings(p)
      BY DEF disclosures, Evaluate
    <2> HIDE DEF p
    <2>3. "creator_concentration" \in Warnings(p)
      <3>1. "creator_concentration" \in DOMAIN WarnRules(p)
        BY DEF WarnRules
      <3>2. WarnRules(p)["creator_concentration"] = (p.CreatorSupplyPct > 30)
        BY DEF WarnRules
      <3>3. p.CreatorSupplyPct > 30
        BY <2>1
      <3> QED
        BY <3>1, <3>2, <3>3 DEF Warnings
    <2>4. ASSUME pin = "unpinned", cluster \notin {"devnet", "testnet"},
                 ~spec.contentAddressed
          PROVE  "mutable_metadata_uri" \in Warnings(p)
      <3>1. Live(net)
        BY <2>4 DEF CustodyInv, NetInv, Live, ClassifyGenesis
      <3> QED
        BY <2>1, <2>4, <3>1 DEF Warnings, WarnRules
    <2> QED
      BY <2>2, <2>3, <2>4
  <1> QED
    BY <1>1, CustodyInvariant, PTL

-----------------------------------------------------------------------------
(* The treasury.                                                           *)

\* Past the treasury check, and while a transaction is out, the address is not
\* a Squads config account.
TreasuryInv ==
  pc \notin {"start", "genesis", "treasury", "done"} \/ tx.known => trez # "config"

\* If nobody creates an account at the treasury address meanwhile, a mint that
\* is final is in an account somebody can sign for: checkTreasurySpendable's
\* answer is still true when it is relied on.
THEOREM TreasuryStaysSpendable ==
  ASSUME TreasuryMayChange = FALSE
  PROVE  Spec => []TreasurySpendable
  <1>1. Init => TreasuryInv
    BY DEF Init, LedgerInit, NoTx, TreasuryInv
  <1>2. /\ MintInv /\ CustodyInv /\ TreasuryInv /\ [Next]_vars
        => TreasuryInv'
    <2> SUFFICES ASSUME MintInv, CustodyInv, TreasuryInv, [Next]_vars
                 PROVE  TreasuryInv'
      OBVIOUS
    <2>0. tx \in TxType
      BY DEF MintInv, TypeOK, LedgerTypeOK
    <2>1. CASE Engine
      <3>1. trez' = trez
        BY <2>1, EngineLedger DEF MintInv
      <3>2. CASE pc \in {"start", "genesis"}
        <4>1. /\ tx' = tx /\ ~tx.known
              /\ pc' \in {"genesis", "treasury", "done"}
          BY <2>1, <3>2
          DEF Engine, Start, ResolveNetwork, ApplyPolicy, CheckTreasury,
              GetLatestBlockhash, Sign, SendTransaction, PollTick, PollDone,
              GetSignatureStatuses, GetBlockHeight, Recheck, VerifySafe,
              ResolveUnconfirmed, ledger, CustodyInv, SentInv, Unsent, GoTo,
              Finish
        <4> QED
          BY <4>1 DEF TreasuryInv
      <3>3. CASE CheckTreasury
        BY <3>1, <3>3
        DEF CheckTreasury, GoTo, Finish, ledger, CustodyInv, SentInv, Unsent,
            TreasuryInv
      <3>4. CASE pc \notin {"start", "genesis", "treasury"}
        <4>1. tx'.known = tx.known \/ pc = "submit"
          BY <2>1, <3>4, LaterSteps
        <4>2. pc # "done"
          BY <2>1, EngineRuns
        <4> QED
          BY <3>1, <3>4, <4>1, <4>2 DEF TreasuryInv
      <3>5. CASE pc = "treasury" /\ ~CheckTreasury
        BY <2>1, <3>5
        DEF Engine, Start, ResolveNetwork,
            GetLatestBlockhash, Sign, SendTransaction, PollTick, PollDone,
            GetSignatureStatuses, GetBlockHeight, Recheck, VerifySafe,
            ResolveUnconfirmed
      <3> QED
        BY <3>2, <3>3, <3>4, <3>5
    <2>2. CASE Cluster
      <3>1. pc' = pc /\ tx'.known = tx.known /\ trez' = trez
        BY <2>0, <2>2
        DEF Cluster, Land, ConfirmBlock, Finalize, Fork, CreateConfig, Dropped,
            TxType, engineVars
      <3> QED
        BY <3>1 DEF TreasuryInv
    <2>3. CASE OpBudget \/ Cancel \/ UNCHANGED vars
      BY <2>3 DEF OpBudget, Cancel, vars, ledger, engineVars, TreasuryInv
    <2> QED
      BY <2>1, <2>2, <2>3 DEF Next, Returned
  <1>3. CustodyInv /\ TreasuryInv => TreasurySpendable
    BY DEF CustodyInv, SentInv, TreasuryInv, TreasurySpendable
  <1> QED
    BY <1>1, <1>2, <1>3, MintInvariant, CustodyInvariant, PTL DEF Spec

-----------------------------------------------------------------------------
(* The skeleton.                                                           *)

\* Every step of the lifecycle goes where MintLifecycle says it may, so what is
\* shown of a session over the skeleton holds of Engine.Mint.
THEOREM EngineFollowsLifecycle == Spec => FollowsLifecycle
  <1> DEFINE Follows == pc' \in Succ(pc, TRUE) \cup Succ(pc, FALSE)
  <1>1. [Next]_vars => [Follows]_pc
    <2> SUFFICES ASSUME [Next]_vars, pc' # pc PROVE Follows
      OBVIOUS
    <2> USE DEF Succ
    <2>1. CASE Start \/ ResolveNetwork
      <3>1. \/ pc = "start" /\ pc' \in {"genesis", "treasury", "done"}
            \/ pc = "genesis" /\ pc' \in {"treasury", "done"}
        BY <2>1 DEF Start, ResolveNetwork, ApplyPolicy, GoTo, Finish
      <3> QED
        BY <3>1
    <2>2. CASE CheckTreasury
      BY <2>2 DEF CheckTreasury, GoTo, Finish
    <2>3. CASE GetLatestBlockhash
      BY <2>3 DEF GetLatestBlockhash, GoTo
    <2>4. CASE Sign
      BY <2>4 DEF Sign, GoTo
    <2>5. CASE SendTransaction
      BY <2>5 DEF SendTransaction, GoTo
    <2>6. CASE PollTick \/ PollDone
      BY <2>6 DEF PollTick, PollDone, GoTo
    <2>7. CASE GetSignatureStatuses
      BY <2>7 DEF GetSignatureStatuses, GoTo
    <2>8. CASE GetBlockHeight
      BY <2>8 DEF GetBlockHeight, GoTo
    <2>9. CASE Recheck
      BY <2>9 DEF Recheck, GoTo, Finish
    <2>10. CASE VerifySafe \/ ResolveUnconfirmed
      BY <2>10 DEF VerifySafe, ResolveUnconfirmed, Finish
    <2>11. CASE OpBudget \/ Cancel \/ Cluster \/ UNCHANGED vars
      BY <2>11 DEF OpBudget, Cancel, Cluster, vars, engineVars
    <2> QED
      BY <2>1, <2>2, <2>3, <2>4, <2>5, <2>6, <2>7, <2>8, <2>9, <2>10, <2>11
      DEF Next, Engine, Returned
  <1> QED
    BY <1>1, PTL DEF Spec, FollowsLifecycle
=============================================================================
