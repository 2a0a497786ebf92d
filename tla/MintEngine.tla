----------------------------- MODULE MintEngine -----------------------------
(***************************************************************************)
(* Engine.Mint (token/mint.go, token/engine.go, token/atomic.go) run       *)
(* against the cluster of Ledger.  pc is the site of MintLifecycle the     *)
(* lifecycle waits at; an action is everything the code does from the      *)
(* answer it gets there up to the next site.  Every read may fail, and a   *)
(* read may be served by a node that lags; the host's signature may be     *)
(* refused or wrong.                                                       *)
(***************************************************************************)
EXTENDS Ledger, Safety, MintLifecycle

CONSTANTS
  Specs,          \* the MintSpecs asked for
  Pins,           \* what WithNetwork named: a Network or "unpinned"
  Clusters,       \* the cluster the endpoint really serves
  LaggingPoll,    \* the status poll may miss a transaction that landed
  LaggingRecheck  \* so may the recheck that precedes errTxExpired

Networks == {"mainnet", "devnet", "testnet", "localnet"}

\* A MintSpec; strings are the lengths and the facts the code tells apart.
SpecType ==
  [ nameLen : Nat, symbolLen : Nat, uriLen : Nat, impersonates : BOOLEAN,
    contentAddressed : BOOLEAN, supply : UInt64, decimals : 0..255,
    treasury : {"zero", "payer", "vault"} ]

ASSUME EngineAssumption ==
  /\ Specs \subseteq SpecType
  /\ Pins \subseteq Networks \cup {"unpinned"}
  /\ LaggingPoll \in BOOLEAN
  /\ LaggingRecheck \in BOOLEAN

VARIABLES
  spec, pin, cluster,  \* the request and the cluster, fixed at the start
  pc,                  \* site of the lifecycle
  net,                 \* e.net
  sig,                 \* the payer signature the host returned
  opExpired,           \* lifecycleBudget ran out
  cancelled,           \* the caller's context was cancelled
  outcome              \* what Mint returned

request    == << spec, pin, cluster >>
engineVars == << pc, net, sig, opExpired, cancelled, outcome >>
vars       == << ledger, request, engineVars >>

Errors == {"running", "ok", "metadata", "supplyZero", "overflow", "blocked",
           "treasuryUnchecked", "treasuryConfig", "notLanded", "unresolved",
           "unsafe", "supplyMismatch", "verifyFailed", "freezable", "inflatable"}

OpDone == opExpired \/ cancelled

-----------------------------------------------------------------------------
(* Pure parts.                                                             *)

maxNameLen   == 32
maxSymbolLen == 10
maxURILen    == 200

validateMetadata(s) ==
  /\ s.nameLen   \in 1..maxNameLen
  /\ s.symbolLen \in 1..maxSymbolLen
  /\ s.uriLen    \in 1..maxURILen

Overflow == -1

\* Mutant: the overflow check of the loop is dropped, so the product wraps.
scaledAmountUnchecked(whole, decimals) ==
  LET amount[i \in 0..decimals] ==
        IF i = 0 THEN whole ELSE (amount[i-1] * 10) % (MaxUint64 + 1)
  IN  amount[decimals]

\* whole scaled by 10^decimals in uint64 arithmetic, or Overflow.  The test
\* of the result against UInt64 is always true: it states the return type.
scaledAmount(whole, decimals) ==
  LET amount[i \in 0..decimals] ==
        IF i = 0 THEN whole
        ELSE IF amount[i-1] = Overflow \/ amount[i-1] > MaxUint64 \div 10
             THEN Overflow
             ELSE (amount[i-1] * 10) % (MaxUint64 + 1)
  IN  IF amount[decimals] \in UInt64 THEN amount[decimals] ELSE Overflow

Scaled(s) == scaledAmount(s.supply, s.decimals)

Live(n) == n \notin {"devnet", "testnet", "localnet"}

\* Mutant: the cluster is named as the endpoint names it.
ClassifyByName(genesis) == genesis

\* Only a recognised test cluster is anything but Mainnet.
ClassifyGenesis(genesis) ==
  IF genesis \in {"devnet", "testnet"} THEN genesis ELSE "mainnet"

treasury(s) == IF s.treasury = "zero" THEN "payer" ELSE s.treasury

\* The TokenPlan of s on network n.
plan(s, n) ==
  [ZeroPlan EXCEPT !.CreatorSupplyPct    = 100,
                   !.Impersonates        = s.impersonates,
                   !.LiveNetwork         = Live(n),
                   !.TreasuryIsHotSigner = (treasury(s) = "payer"),
                   !.MutableMetadataURI  = ~s.contentAddressed]

disclosures == Evaluate(plan(spec, net))

Ix(op, amount) == [ op |-> op, amount |-> amount ]

\* Mutant: the freeze authority Create leaves behind is not revoked.
buildMintKeepsFreeze(s) ==
  << Ix("create", 0), Ix("createATA", 0), Ix("mintTo", Scaled(s)),
     Ix("createATA", 0), Ix("revokeMint", 0) >>

\* Mutant: the mint authority is revoked before MintTo needs it.
buildMintRevokesEarly(s) ==
  << Ix("create", 0), Ix("createATA", 0), Ix("revokeMint", 0),
     Ix("revokeFreeze", 0), Ix("mintTo", Scaled(s)) >>

buildMint(s) ==
  << Ix("create", 0), Ix("createATA", 0), Ix("mintTo", Scaled(s)),
     Ix("revokeFreeze", 0), Ix("revokeMint", 0) >>

\* What a read at a commitment level shows of the mint account.
AccountAt(levels) == IF tx.status \in levels THEN acct ELSE NoAccount

\* Mutant: Verify reads at confirmed commitment.
MintAccountConfirmed == AccountAt({"confirmed", "finalized"})

\* Verify reads the mint account at finalized commitment.
MintAccount == AccountAt({"finalized"})

\* The answers Verify may get: the account, or the absence a lagging node
\* reports; a failed read has the same effect as that.
MintReads == { MintAccount, NoAccount }

\* Verify decodes a classic, initialized SPL mint; all else is an error.
VerifyOK(a)    == a.kind = "mint"
SupplyFixed(a) == a.mintAuth = "none"
Freezable(a)   == a.freezeAuth # "none"

\* checkSupply
SupplyMatches(a) == Scaled(spec) # Overflow /\ a.supply = Scaled(spec)

\* What verifySafe returns of the mint it read, its tests in their order.
verifySafe(a) ==
  IF ~VerifyOK(a) THEN "verifyFailed"
  ELSE IF Freezable(a) THEN "freezable"
  ELSE IF ~SupplyFixed(a) THEN "inflatable"
  ELSE IF ~SupplyMatches(a) THEN "supplyMismatch"
  ELSE "ok"

\* What resolveUnconfirmed returns of it.
resolveUnconfirmed(a) ==
  IF ~VerifyOK(a) THEN "unresolved"
  ELSE IF ~SupplyFixed(a) \/ Freezable(a) THEN "unsafe"
  ELSE IF ~SupplyMatches(a) THEN "supplyMismatch"
  ELSE "ok"

-----------------------------------------------------------------------------
(* The lifecycle.                                                          *)

Init ==
  /\ LedgerInit
  /\ spec \in Specs /\ pin \in Pins /\ cluster \in Clusters
  /\ treasury(spec) = "payer" => trez = "wallet"  \* the payer is funded
  /\ pc = "start"
  /\ net = (IF pin = "unpinned" THEN "mainnet" ELSE pin)
  /\ sig = "none"
  /\ opExpired = FALSE
  /\ cancelled = FALSE
  /\ outcome = [ mint |-> FALSE, err |-> "running", disclosures |-> {} ]

GoTo(site) ==
  /\ pc' = site
  /\ UNCHANGED outcome

\* Mint returns: with the mint address or the zero key, and an error or "ok".
Finish(mint, err, disc) ==
  /\ pc' = "done"
  /\ outcome' = [ mint |-> mint, err |-> err, disclosures |-> disc ]

\* The part of Mint between resolveNetwork and the treasury read: the supply
\* must fit, and the policy must accept the plan on the network resolved.
ApplyPolicy(n) ==
  /\ net' = n
  /\ \/ /\ Scaled(spec) = Overflow
        /\ Finish(FALSE, "overflow", {})
     \/ /\ Scaled(spec) # Overflow
        /\ ~Guard(plan(spec, n))
        /\ Finish(FALSE, "blocked", {})
     \/ /\ Scaled(spec) # Overflow
        /\ Guard(plan(spec, n))
        /\ GoTo("treasury")

\* Mint up to its first read.  A pinned network is not asked for.
Start ==
  /\ pc = "start"
  /\ \/ /\ ~validateMetadata(spec)
        /\ Finish(FALSE, "metadata", {})
        /\ UNCHANGED net
     \/ /\ validateMetadata(spec)
        /\ spec.supply = 0
        /\ Finish(FALSE, "supplyZero", {})
        /\ UNCHANGED net
     \/ /\ validateMetadata(spec)
        /\ spec.supply # 0
        /\ IF pin = "unpinned" THEN GoTo("genesis") /\ UNCHANGED net
                               ELSE ApplyPolicy(pin)
  /\ UNCHANGED << ledger, request, sig, opExpired, cancelled >>

\* Mutant: an unreachable node is taken for a test cluster.
ResolveNetworkTrusting ==
  /\ pc = "genesis"
  /\ \E n \in {"devnet", ClassifyGenesis(cluster)} : ApplyPolicy(n)
  /\ UNCHANGED << ledger, request, sig, opExpired, cancelled >>

\* The genesis hash arrives, or the read fails and the network is Mainnet.
ResolveNetwork ==
  /\ pc = "genesis"
  /\ \E n \in {"mainnet", ClassifyGenesis(cluster)} : ApplyPolicy(n)
  /\ UNCHANGED << ledger, request, sig, opExpired, cancelled >>

\* Mutant: the owner of an existing treasury account is not looked at.
CheckTreasuryExists ==
  /\ pc = "treasury"
  /\ \/ GoTo("blockhash")
     \/ Finish(FALSE, "treasuryUnchecked", disclosures)
  /\ UNCHANGED << ledger, request, net, sig, opExpired, cancelled >>

\* checkTreasurySpendable: an absent account and a wallet pass, a Squads
\* config account is refused, and so is an account that could not be read.  A
\* config account made a moment ago is absent to a node that lags, and in the
\* finalized state that is asked for.
CheckTreasury ==
  /\ pc = "treasury"
  /\ \/ /\ trez # "config" \/ TreasuryMayChange
        /\ GoTo("blockhash")
     \/ /\ trez = "config"
        /\ Finish(FALSE, "treasuryConfig", disclosures)
     \/ Finish(FALSE, "treasuryUnchecked", disclosures)
  /\ UNCHANGED << ledger, request, net, sig, opExpired, cancelled >>

\* send: the newest blockhash the node knows fixes the last valid height.
GetLatestBlockhash ==
  /\ pc = "blockhash"
  /\ \/ /\ \E h \in 0..height : tx' = [tx EXCEPT !.expiry = h + Window]
        /\ GoTo("sign")
     \/ GoTo("resolve") /\ UNCHANGED tx
  /\ UNCHANGED << height, acct, trez, request, net, sig, opExpired, cancelled >>

\* Mutant: a refused signature is only retried by polling.
SignRetries ==
  /\ pc = "sign"
  /\ \/ sig' \in {"good", "bad"} /\ GoTo("submit")
     \/ GoTo("poll") /\ UNCHANGED sig
  /\ UNCHANGED << ledger, request, net, opExpired, cancelled >>

\* The host signs (the engine does not check what it returns) or refuses.
Sign ==
  /\ pc = "sign"
  /\ \/ sig' \in {"good", "bad"} /\ GoTo("submit")
     \/ GoTo("resolve") /\ UNCHANGED sig
  /\ UNCHANGED << ledger, request, net, opExpired, cancelled >>

\* The request goes out or not (it is rejected, or its context is done), and
\* whatever the answer the signature is watched.  A request that went out may
\* reach a leader at any later time: that is Land.
SendTransaction ==
  /\ pc = "submit"
  /\ \E k \in BOOLEAN : /\ k => sig = "good"
                        /\ tx' = [tx EXCEPT !.known = k]
  /\ GoTo("poll")
  /\ UNCHANGED << height, acct, trez, request, net, sig, opExpired, cancelled >>

\* confirmOrExpire waits one poll interval.  A context already done wins the
\* select: the interval has only begun.
PollTick ==
  /\ pc = "poll" /\ ~OpDone
  /\ GoTo("status")
  /\ UNCHANGED << ledger, request, net, sig, opExpired, cancelled >>

\* Mutant: the poll loop does not watch its context.
PollNeverDone == FALSE

PollDone ==
  /\ pc = "poll" /\ OpDone
  /\ GoTo("resolve")
  /\ UNCHANGED << ledger, request, net, sig, opExpired, cancelled >>

\* What a status read shows; a lagging node may not know the signature yet.
StatusReads(lagging) == {tx.status} \cup (IF lagging THEN {"none"} ELSE {})

\* An error on chain ends the wait at any commitment, success only at
\* finalized.  Only a read that says "not found" goes on to the height.
GetSignatureStatuses ==
  /\ pc = "status"
  /\ \/ \E st \in StatusReads(LaggingPoll) :
          \/ st = "none" /\ GoTo("height")
          \/ st # "none" /\ tx.failed /\ GoTo("resolve")
          \/ st = "finalized" /\ ~tx.failed /\ GoTo("verify")
          \/ st \in {"processed", "confirmed"} /\ ~tx.failed /\ GoTo("poll")
     \/ GoTo("poll")  \* unreadable
  /\ UNCHANGED << ledger, request, net, sig, opExpired, cancelled >>

\* The block height some node reports, never ahead of the cluster's.
GetBlockHeight ==
  /\ pc = "height"
  /\ \/ \E h \in 0..height : GoTo(IF h > tx.expiry THEN "recheck" ELSE "poll")
     \/ GoTo("poll")  \* unreadable
  /\ UNCHANGED << ledger, request, net, sig, opExpired, cancelled >>

\* Mutant: an unreadable recheck counts as a "not found".
RecheckUnreadable ==
  /\ pc = "recheck"
  /\ \/ \E st \in StatusReads(LaggingRecheck) :
          \/ st = "none" /\ Finish(FALSE, "notLanded", disclosures)
          \/ st # "none" /\ GoTo("poll")
     \/ Finish(FALSE, "notLanded", disclosures)
  /\ UNCHANGED << ledger, request, net, sig, opExpired, cancelled >>

\* The second "not found": errTxExpired, and Mint reports nothing landed.
Recheck ==
  /\ pc = "recheck"
  /\ \/ \E st \in StatusReads(LaggingRecheck) :
          \/ st = "none" /\ Finish(FALSE, "notLanded", disclosures)
          \/ st # "none" /\ GoTo("poll")
     \/ GoTo("poll")  \* unreadable
  /\ UNCHANGED << ledger, request, net, sig, opExpired, cancelled >>

\* verifySafe, after the transaction was seen finalized.
VerifySafe ==
  /\ pc = "verify"
  /\ \E a \in MintReads : Finish(TRUE, verifySafe(a), disclosures)
  /\ UNCHANGED << ledger, request, net, sig, opExpired, cancelled >>

\* Mutant: the recovered mint is returned without its disclosures.
ResolveSilently ==
  /\ pc = "resolve"
  /\ \E a \in MintReads :
       Finish(TRUE, IF VerifyOK(a) THEN "ok" ELSE "unresolved", {})
  /\ UNCHANGED << ledger, request, net, sig, opExpired, cancelled >>

\* resolveUnconfirmed: any failure of send but expiry is settled by reading
\* the mint account, under a context the caller's cancellation does not reach.
ResolveUnconfirmed ==
  /\ pc = "resolve"
  /\ \E a \in MintReads : Finish(TRUE, resolveUnconfirmed(a), disclosures)
  /\ UNCHANGED << ledger, request, net, sig, opExpired, cancelled >>

\* lifecycleBudget runs out.
OpBudget ==
  /\ pc \in OpSites /\ ~opExpired
  /\ opExpired' = TRUE
  /\ UNCHANGED << ledger, request, pc, net, sig, cancelled, outcome >>

\* The caller cancels the context it gave Mint (Session.Close).
Cancel ==
  /\ pc # "done" /\ ~cancelled
  /\ cancelled' = TRUE
  /\ UNCHANGED << ledger, request, pc, net, sig, opExpired, outcome >>

Engine ==
  \/ Start \/ ResolveNetwork \/ CheckTreasury \/ GetLatestBlockhash \/ Sign
  \/ SendTransaction \/ PollTick \/ PollDone \/ GetSignatureStatuses
  \/ GetBlockHeight \/ Recheck \/ VerifySafe \/ ResolveUnconfirmed

Cluster ==
  /\ Land(buildMint(spec)) \/ ConfirmBlock \/ Finalize \/ Fork \/ CreateConfig
  /\ UNCHANGED << request, engineVars >>

\* The lifecycle has returned and the cluster may stand still.
Returned == pc = "done" /\ UNCHANGED vars

Next == Engine \/ OpBudget \/ Cancel \/ Cluster \/ Returned

\* The host answers every call and the goroutine is scheduled; the deadline of
\* opCtx passes.  Nothing is assumed of the cluster: it may stall for ever.
Fairness == WF_vars(Engine) /\ WF_vars(OpBudget)

Spec == Init /\ [][Next]_vars /\ Fairness

-----------------------------------------------------------------------------
(* Properties.                                                             *)

\* Every variable keeps its type; the sites are those of MintLifecycle.
TypeOK ==
  /\ LedgerTypeOK
  /\ spec \in Specs /\ pin \in Pins /\ cluster \in Clusters
  /\ pc \in Sites \cup {"start", "done"}
  /\ net \in Networks
  /\ sig \in {"none", "good", "bad"}
  /\ opExpired \in BOOLEAN
  /\ cancelled \in BOOLEAN
  /\ outcome.mint \in BOOLEAN
  /\ outcome.err \in Errors

\* A mint that exists carries the shape verifySafe demands of it.
Finished(a) == SupplyFixed(a) /\ ~Freezable(a) /\ a.supply = Scaled(spec)

\* When Mint returns no error, by the direct path or through
\* resolveUnconfirmed, the transaction is finalized and did not fail, and the
\* account has no mint authority, no freeze authority and the requested
\* supply: in that state and in every later one.
SuccessIsFinal ==
  outcome.err = "ok" =>
    tx.status = "finalized" /\ ~tx.failed /\ VerifyOK(acct) /\ Finished(acct)

\* At no commitment level, on no fork and whatever was lost or cancelled, does
\* the chain hold the mint with a live authority or part of its supply: the
\* atomicity buildMint's comment claims.
OnChainAlwaysFinished == acct.kind # "absent" => VerifyOK(acct) /\ Finished(acct)

\* The transaction that is sent out executes: each instruction finds the
\* authority and the accounts the ones before it left (revoke after mintTo).
BuiltTxExecutes == tx.known => Executes(buildMint(spec))

\* 10^n in unbounded arithmetic.
Tens(n) ==
  LET t[i \in 0..n] == IF i = 0 THEN 1 ELSE t[i-1] * 10 IN t[n]

\* The supply on chain is the product itself, not a wrapped one: scaledAmount
\* against its definition in unbounded arithmetic.
ExactSupply == acct.kind = "mint" => acct.supply = spec.supply * Tens(spec.decimals)

\* When Mint returns without an address (an early refusal, or errTxExpired),
\* the transaction is on no fork, now or ever: "provably nothing happened".
NoAddressNothingLanded ==
  pc = "done" /\ ~outcome.mint => tx.status = "none"

\* No transaction that mints the supply into the payer's own key goes out on a
\* cluster that is not really a test cluster, unless the caller pinned one.
HotKeyOnlyOnTestCluster ==
  tx.known /\ treasury(spec) = "payer" =>
    IF pin = "unpinned" THEN cluster \in {"devnet", "testnet"} ELSE ~Live(pin)

\* The supply is never final in an account nobody can sign for.
TreasurySpendable ==
  tx.status = "finalized" /\ ~tx.failed => trez # "config"

\* An address is always returned together with the disclosures the request
\* and the cluster call for, on the recovery path too.
AddressComesWithDisclosures ==
  pc = "done" /\ outcome.mint =>
    /\ "creator_concentration" \in outcome.disclosures
    /\ pin = "unpinned" /\ cluster \notin {"devnet", "testnet"}
         /\ ~spec.contentAddressed =>
           "mutable_metadata_uri" \in outcome.disclosures

\* Mint returns, even if the cluster stalls for ever or no node answers.
Terminates == <>(pc = "done")

\* The lifecycle moves along the sites of MintLifecycle, which is what
\* HostSession takes it to do.
FollowsLifecycle ==
  [][pc' \in Succ(pc, TRUE) \cup Succ(pc, FALSE)]_pc

\* The refinement mapping: where the token is, and which of its answers Mint
\* has given.
PromisedChain ==
  IF tx.status = "none" \/ tx.failed THEN "absent"
  ELSE IF tx.status = "finalized" THEN "final"
  ELSE "tentative"

PromisedAnswer ==
  IF pc # "done" THEN "pending"
  ELSE IF outcome.err = "ok" THEN "success"
  ELSE IF outcome.mint THEN "address"
  ELSE "nothing"

Promise == INSTANCE MintPromise WITH chain <- PromisedChain, answer <- PromisedAnswer

\* Engine.Mint over the cluster implements MintPromise: no behaviour of the
\* network makes it answer what the chain then belies.
KeepsPromise == Promise!Spec
=============================================================================
