# A TLA+ model of flynn-extensions

The repository holds *extensions* for the flynn host: processes that speak MCP
(JSON-RPC lines on stdin and stdout). The token extension mints and verifies SPL
tokens; it has neither a network nor a key and hands every request and every
signature back to the host. The signer extension holds a key and signs what its
policy approves. This directory models both from the loop that reads their input
down to the bytes the policy reads, checks the models with TLC and proves, with
TLAPS, their safety properties and the refinements between them.

## 1. The system

| Part | State | Operations | Talks to |
| --- | --- | --- | --- |
| Mint lifecycle `token/engine.go`, `token/mint.go`, `token/atomic.go` | network resolved, disclosures, signature, contexts | `Mint`, `send`, `confirmOrExpire`, `resolveUnconfirmed`, `Verify` | the cluster, through an RPC client; the payer's signer |
| Network `token/network.go` | none | `ClassifyGenesis`, `Live`, `ContentAddressed` | called by `Mint` |
| Safety policy `token/safety` | none | `Evaluate`, `Guard`, `ImpersonationTarget` | called by `Mint` |
| Session and transport `token/session.go`, `token/hostrpc.go` | three channels, `pending`, `outcome`, a context | `StartMint`, `StartVerify`, `Advance`, `Close`; `roundTrip`, `Sign` | runs the lifecycle in a goroutine; driven by the tool handlers |
| Token service `cmd/token` | two session registries | `token_mint`, `token_verify` | called by the MCP loop |
| MCP loop `mcpserver` | the tools | `Serve`, `dispatch`, `callResult` | the host |
| Signer `signer`, `cmd/solana-signer` | the unlocked key, the bound policy, a flag | `signer_unlock`, `signer_sign`, `seal` | the host, a sealed file |
| Signing policy `solana` | the bound key | `Approve`, `parseMessage` | called by the signer |
| Clock `clock` | time and pending timers | `NewTimer`, `Stop`, `Reset`, `Advance`, `Set` | the poll loop of the engine |

What is hard in it:

* **Unreliable outcome of one irreversible step.** A submitted transaction may
  land at any time until its blockhash expires, after its submission "failed",
  while a node that lags says it is unknown; a block that holds it may be forked
  out. `Mint` must nevertheless say something true.
* **Two goroutines over unbuffered channels, with three contexts.** A fetch can be
  given up by a deadline, a signature cannot; responses are matched by position.
* **Budgets racing a slow host.** The host answers between two lines of input and
  may take longer than `lifecycleBudget`.
* **An untrusted order of calls.** A host may resume a session twice, late, or in
  the wrong form; unlock another key at any time; have the parts of a mint signed
  one by one and submit them in another order.
* **Two readers of the same bytes.** The policy approves what it reads and the
  cluster executes what it reads; a length with two encodings would part them.
* **Files written in place**, a process that may die, and a raw key the operator
  deletes when he is told to.

Correctness, per part: an answer of `Mint` is true of the chain and stays true; the
chain never holds a half-made token; custody rules are never relaxed by a network
that could not be identified; a session hands each reply to the call it answers
and ends; the registries hold exactly the live sessions; a safe report is given
only of a safe mint; the parser accepts exactly what can be written; a token keeps
no authority over its supply if every signed message that mints it revokes that
token's own (the policy claims this of every signed message and cannot see it, section
3); no key is lost; every armed timer has one fate. `PROJECT.json` lists the hazards
line by line with the property that watches each.

## 2. The modules

```
 token                                                     signer
 Safety   MintLifecycle    Ledger -- MintAccount (external) --+   MessageParser -- MessageReader
    \      |    |    \       /                                |      |
     \     |    |   MintEngine -- MintPromise                 |   SignPolicy  SealedKey
      +----|----|---/                                         |      |       /
           |    |                                             SignerService
  ParkedSession |
           |    |
        HostSession     TokenService -- McpServer, Verify      ManualClock

 proofs
 MintEngineProofs       HostSessionProofs       TokenServiceProofs       ManualClockProofs
 MessageParserProofs -- MessageReaderProofs, SignerServiceProofs
 Induction (used by MintEngineProofs, MessageParserProofs, ManualClockProofs)
```

* **Safety** - the rules of `Evaluate` and `Guard` as operators over a `TokenPlan`.
* **MintLifecycle** - the *sites* at which a lifecycle waits (an RPC call, a
  signature, a poll interval), the context each waits under, and `Succ`: where it
  goes when the site is answered and when it fails. Everything between two sites
  is local computation, so this is the interface between the machines below.
  `NextPark` closes `Succ` under what no host sees: poll intervals that pass and,
  with late hosts, calls that are given up before they were taken.
* **MintAccount**, **Ledger** - the Solana cluster, external code. `MintAccount` is the
  mint account and `Apply`, one instruction of the token programs on it; a failed
  transaction leaves nothing. `Ledger` is the fate of one transaction: known to a
  node or not, its status, its expiry, the account at the treasury address, the
  height.
* **MintEngine** - `Engine.Mint` against the ledger. `pc` is the site; an action is
  all the code runs from the answer it gets to the next site:

  | Action | Code |
  | --- | --- |
  | `Start`, `ResolveNetwork`, `ApplyPolicy` | `Mint` up to the treasury check, `resolveNetwork`, `safety.Guard` |
  | `CheckTreasury` | `checkTreasurySpendable` |
  | `GetLatestBlockhash`, `Sign`, `SendTransaction` | `send` |
  | `PollTick`, `PollDone`, `GetSignatureStatuses`, `GetBlockHeight`, `Recheck` | `confirmOrExpire` |
  | `VerifySafe`, `ResolveUnconfirmed` | the functions of the same names, with `Verify` and `checkSupply` |
  | `OpBudget`, `Cancel` | the deadline of `opCtx`, the caller's cancellation |

  Any read may fail at any time, and any may be served by a node that lags: a
  treasury read finds no account where one was made since, if the treasury may
  change at all (`TreasuryMayChange`). The host may return a signature that is wrong;
  the engine does not check it. `MintSpec` strings are their lengths and the facts
  the code derives from them. Amounts keep their width: arithmetic is modulo
  `MaxUint64 + 1`.
* **MintPromise** - the abstract specification of `Mint`: the token is absent,
  tentative or final; `Mint` gives one answer; "success" only when final, "nothing"
  only when absent for ever. `MintEngine` implements it (`KeepsPromise`; the mapping
  is `chain` and `answer`).
* **HostSession** - `session[T]` and `hostRPC`: the goroutine (running, offering a
  call, awaiting a reply, waiting a poll interval, exited), the driver (parked,
  idle, delivering a reply, gone). A rendezvous on an unbuffered channel is one
  step. The request id is a counter modulo `IdSpace`, for the masked counter of
  `CallForInto`; it also identifies calls in `ReplyAnswersItsCall`. Whether a host
  may be late is chosen at the start (`late`): the deadlines of a prompt host's
  session pass only in a poll interval or after `Close` (`Overdue`).
* **ParkedSession** - the abstract specification of a session, as a tool handler sees
  it: whose turn it is, the call it is parked on, whether that call was given up.
  `HostSession` implements it (`ImplementsParkedSession`, mapping `Shown`).
* **Verify** - `Engine.Verify`. What an account *is* is kept apart from what `Verify`
  can *see* of it: a token account read as a mint may show anything.
* **McpServer** - `dispatch` as a function of a line.
* **TokenService** - the loop, both tools, the registries. A session is what
  `ParkedSession` shows of it, and moves by the same `NextPark`; between two lines a
  budget may run out (`stale`), after which `Advance` does not return
  (`server = "stuck"`, the finding below). An answer that cannot be written ends the
  loop after the step it reports.
* **MessageParser** - `parseMessage` byte for byte, with a shorter address; and
  `Encode`, the wire format as a serializer writes it, as its reference. `MessageType`
  is every message the format can hold: counts that fit in 16 bits, whole addresses, a
  first byte without the version mark.
* **MessageReader** - one payload handed to `parseMessage`; its properties set what was
  read against what serializers write.
* **SignPolicy** - `Approve`, `approveSystem`, `approveToken`: the whole decision as one
  predicate of a payload and a payer. `IsEngineMint` is the shape of the message that
  `buildMint` makes: its five instructions, their programs and the bytes that mark a
  `MintTo` and the two revocations; names, amounts and accounts are left open.
* **SealedKey** - the files of `SealEd25519Key` and `OpenEd25519Key`, `seal` in three
  steps that may be cut short, and the operator. A file is sealed under a passphrase
  or is one that nothing opens (`Unsealed`: absent, torn, foreign). That the
  operator does not seal over the file of another key is `OperatorChooses`, a guard the
  code does not have.
* **SignerService** - `signer_unlock`, `signer_sign`, restarts; composed with
  `SealedKey` and with a cluster that executes signed messages in any order, any
  number of times. The cluster is external code. Unlike the policy it reads the account
  indexes: an instruction acts on the mint it names (`DoesTo`), so a message may create
  one mint and revoke the authorities of another, and it knows the `Mint` of Token
  Metadata for what it is. `Messages` are the messages payloads are the bytes of;
  `EngineMints` is the set of mints an engine may build for a key, any messages of that
  shape.
* **ManualClock** - `clock.Manual` and its timers; each method holds the mutex, so it
  is one step, and the owner's receive is another.

`MC*` modules give constants their values. Definitions marked *Mutant* are plausible
mistakes; each property is shown to fail when one of them takes the place of
the definition it precedes.

## 3. What is checked

Passing runs (distinct states in brackets):

| Run | Shows |
| --- | --- |
| `mint_engine` [119,336] | What an answer says is true: `NoAddressNothingLanded`, `AddressComesWithDisclosures`; the transaction is right: `BuiltTxExecutes`, `ExactSupply`; custody: `HotKeyOnlyOnTestCluster`, `TreasurySpendable`; `Terminates`; `FollowsLifecycle`, so that sessions may use the skeleton; `KeepsPromise`. |
| `mint_engine_hostile` [85,430] | `SuccessIsFinal` and `OnChainAlwaysFinished` need no assumption on the cluster: blocks are forked out, all status reads may lag, the treasury changes. |
| `host_session` [2,202] | `ReplyAnswersItsCall`, `SignIsAttended`, `PendingOrOutcome`, `LifecycleEnds`, `CloseUnwindsUnlessSigning` with late answers and abandoned sessions; under hosts that keep to the budgets, the comments of `park` and `Advance` are right: `EmittedCallBlocks`, `AdvanceReturnsInTime`; `ImplementsParkedSession`. |
| `token_service` [153,462] | `RegistryExact` and `EndedStaysEnded` under any order and form of calls; `SafeReportIsTrue` for every account a verify may meet. |
| `message_parser` [721,426] | `AcceptsWhatIsWritten`, `ReadsWhatWasWritten`, `LengthsAreCanonical`: the parser accepts what is written and nothing else, and sees in it what was written, on every byte string of the set. |
| `signer_service` [148,257] | `KeyRecoverable`, `SignsAsTold`, `SignsOwnTransactions`, `FlagNamesTheKey` over sealing, re-sealing, dying, unlocking and restarting; `MintedSupplyIsFixed`: whatever is signed and executed in any order, a token whose mints revoke its own authorities keeps none, also when mints of other tokens and parts of a mint are signed beside it; `EngineMintIsSigned`: the policy does not refuse the transaction `buildMint` makes. |
| `manual_clock` [10,109] | `EveryArmingHasOneFate`, `NoEarlyFire`, `PendingIsAhead`, with a clock that is set back and durations of zero and less. |

Runs that expect a violation; each states a line of the repository that the code
does not keep, and `PROJECT.json` quotes it:

| Run | Shows |
| --- | --- |
| `late_answer_hangs` | `Advance` sends on `repCh` without a select: after a deadline it blocks for ever, and the MCP loop with it. |
| `close_leaks_signer` | `Close` while a signature is pending leaves the goroutine blocked. |
| `expired_despite_landing` | The first "not found" is read before the height, so a single lagging recheck declares a landed transaction dead. |
| `other_token_revoked` | `Approve` signs a message that mints one token and revokes both authorities of another, so the first can be inflated and frozen: it counts kinds of instructions and reads no account index. |
| `notification_answered` | Messages without an id are answered for four methods. |

Three disagreements are plain to see in the code and have no run.
`Approve` promises that the key "does not send SOL to an address of the extension's
choosing" (`solana/solana.go:74`), but `approveSystem` looks only at the discriminator of
a System instruction and lets every `CreateAccount` pass (`solana/solana.go:151`),
whatever its lamports and to whatever account the message names: the fee balance can
leave the key that way. SOL is not modelled, so no property here says where it goes.
`resolveUnconfirmed` says that the transaction "was submitted" (`token/mint.go:191`)
also when reading the blockhash or signing failed and nothing was. The report of a
Token-2022 mint names the zero key, because `Verify` returns an empty `MintState`
with that error (`token/engine.go:201`, `cmd/token/main.go:225`).

Two more boundaries can be seen by changing the constants of
`MCMintEngineLaggingRecheck.cfg`, and are not kept as runs. With
`ConfirmedForks = TRUE` and `LaggingRecheck = FALSE`, `NoAddressNothingLanded` is
violated: the height that proves expiry is read at confirmed commitment and a fork
can take it back. With `TreasuryMayChange = TRUE` and the invariant
`TreasurySpendable`, the supply ends in a config account that was created at an
unused treasury address after the check, or shortly before it and not yet seen by the
node, or in the finalized state, that the check reads. `TreasurySpendable` is thus a
property of the check on an account that does not change, no more.

**Bounds.** `MaxHeight = 4` with `Window = 2` lets the height pass the expiry of a
blockhash read at height 0 and at height 1, with the transaction landing in any
block before, and leaves a block to fork out after it. `MaxUint64 = 255` puts
overflow within reach of small supplies: 26 and one decimal overflows at once, 3
and two decimals only at the second step, 255 and none fits exactly. The specs are
a plain one and, for each guard, one on its far side. `IdSpace = 3` lets call
numbers wrap around during a session. `MaxSessions = 2` per tool lets one session
end while another lives, which is what reusing an id needs. `MaxBody = 9` over the
bytes 0, 1, 2 and 128 holds, with addresses of one byte, messages of up to two
accounts, of one instruction with account indexes and data and of two bare ones, and
every way to cut, pad, extend or shift one; all strings of up to four bytes at the
edges of a length (0, 1, 3, 4, 127, 128, 129, 131, 132, 255) hold the overlong, the
padded and the 17-bit lengths. `signer_service` has two keys and two
paths, so that either key may be in either file, and two mints, so that a message may
mint one and revoke the other; its messages are the engine's mint for each key, the two
parts of a mint, a mint that keeps an authority, one through Token Metadata, and two
tokens in one. `MaxSigned = 2` lets any two of them be executed in any order, which is
what putting a mint together from parts needs. `maxPayloadBytes = 100` is more than
every message has. Three timers, which are alike, and a time of 0 to 3 with durations from
-1 to 2.

**Fairness.** `MintEngine`: the goroutine is scheduled, the host answers every call
(with a result or an error) and the deadline of `opCtx` passes; nothing is assumed of
the cluster, which may stall for ever. `HostSession`: both goroutines are scheduled,
a rendezvous that stays possible happens, the host answers what it is given, and
deadlines pass. This last fairness is strong: with a prompt host a deadline can only
pass in a poll interval, so the step is enabled again and again, not throughout,
while time, which the model does not have, runs on. Nobody has to call `Close`.
`TokenService`, `SignerService` and `ManualClock` have no fairness and no liveness
property: nothing in them has to happen unless a caller asks.

**Deadlock** is checked in every run; the ends of the systems (a returned lifecycle,
an exited goroutine or a driver that left, a loop that is stuck or has ended, a
payload that was read) are explicit stuttering steps.

**What the signer's properties take for granted.** The policy does not read account
indexes, so it cannot tie the `MintTo` of a message to the mint its `SetAuthority`
names; nor does it tell the `Mint` of Token Metadata from a `Create`. So
`NoTokenLeftOpen`, which the comment of `Approve` promises, is violated, and
`MintedSupplyIsFixed` is what remains of it: it excepts the tokens for which a message
was signed that mints them without revoking their own authorities
(`RevokesWhatItMints`). For those it says nothing. It does speak of every other token,
whatever else the key signs, and of a message the policy has to refuse: one that mints
without revoking both. The mint accounts of two keys are kept apart (`mint[k][a]`):
an authority is the key that paid for the mint, and no message is signed by two. The
operator does not seal a key over the file of another (`OperatorChooses`; neither
`seal` nor `SealEd25519Key` looks, and without it `KeyRecoverable` is false: the file
of a key whose raw form is gone is overwritten), keeps raw and sealed files at
different paths, and deletes a raw key only when the command has told him to.

## 4. What is proved

For every value of the constants that satisfies the named assumptions. They are
types (`LedgerAssumption`, `AmountAssumption`, `EngineAssumption`,
`SessionAssumption`, `ServiceAssumption`, `AddrAssumption`, `ReaderAssumption`,
`SignerAssumption`, `ClockAssumption`); in `ProgramAssumption`, that the four programs
have different addresses; and in `SignerAssumption`, that what an engine builds for a key
has the shape of `buildMint` (`IsEngineMint`), and that a payload the parser accepts is
the encoding of one of `Messages`. With all of `MessageType` for `Messages` the latter is
no assumption but `ParsesOnlyWritten`; it allows the runs to have few. Where a theorem needs more of the cluster, it says so as a hypothesis.

* **MintEngineProofs.** `MintInv` adds to the types that the account is exactly what
  the executed transaction left, or nothing (`AcctInv`), and that an "ok" was read
  from finalized state (`AnswerInv`). `ExecutedMintIsFinished` executes the five
  instructions one lemma at a time. From it: `TypeCorrect`, `AtomicMint`
  (`OnChainAlwaysFinished`), `SuccessStands` (`SuccessIsFinal`), with forks, lag and a
  changing treasury allowed. `ExpiryIsProof` proves `NoAddressNothingLanded` under two
  assumptions the code makes of its nodes: `ConfirmedForks = FALSE` and
  `LaggingRecheck = FALSE`. `ExpiryInv` carries that the height is past the expiry from
  the recheck on, and that a transaction past its expiry cannot land. The polls may
  still lag: the recheck is what makes the answer a proof. Under the same two
  hypotheses `PromiseKept` shows that `MintEngine` implements `MintPromise`
  (`KeepsPromise`): each step of the engine and of the cluster is a step of the
  promise or a stutter. Without them it is false, as `expired_despite_landing` shows.
  A second invariant, `CustodyInv`, says what is settled by the time a transaction is
  out: the network is the pinned one, the one the genesis hash proves or, failing
  that, mainnet (`NetInv`); nothing is out before "submit" (`SentInv`); past the policy
  step the plan was accepted on that very network (`PolicyInv`); what is returned with
  an address is what the policy said of that plan (`ToldInv`). From it, with nothing
  assumed of forks or lag: `SentTxExecutes` (`BuiltTxExecutes`), `HotKeyBarred`
  (`HotKeyOnlyOnTestCluster`), `DisclosuresReachCaller`
  (`AddressComesWithDisclosures`). `SupplyIsExact` (`ExactSupply`) is an induction over
  `decimals`, for every width of the integers: the loop of `scaledAmount` stops before
  the first product that does not fit, and otherwise is the product in unbounded
  arithmetic. `TreasuryStaysSpendable` (`TreasurySpendable`) has the hypothesis
  `TreasuryMayChange = FALSE`, that nobody creates an account at the treasury address
  after `checkTreasurySpendable` has looked; section 3 says what happens otherwise.
  `EngineFollowsLifecycle` (`FollowsLifecycle`) ties the skeleton the sessions run to
  the engine.
* **HostSessionProofs.** `TurnInv` is inductive. It adds to the type invariant what
  the channels enforce together: which of a pending call, a reply and an outcome
  the driver holds in each of its states (`DriverTurn`); that a goroutine which awaits
  does so for the call the driver has pending or is answering, and that it has
  exited once there is an outcome (`GoroutineTurn`); that "sign" is reached only from
  an answered blockhash, which leaves the driver parked (`SignTurn`). None of
  `ReplyAnswersItsCall`, `SignIsAttended`, `PendingOrOutcome` is inductive alone: each
  needs to know what the other side was doing when a call was given up. From it:
  `TypeCorrect`, `RepliesMatch`, `SignersAttended`, `AlwaysSomethingToRender`.
  `SessionRefines`: a session implements `ParkedSession`. The
  mapping shows the driver the last call it was given, so the invariant `ShownInv` has
  to say where the goroutine can be since: `PathInv` bounds it by `Unseen`, which
  `UnseenClosed` shows to be closed under every step no driver sees, and `PromptInv`
  says that with a prompt host no deadline can have struck anywhere but in a poll
  interval, after which no call under it is left. From the same invariant
  `CallsBlock` (`EmittedCallBlocks`). Each of the eleven actions is then one step of
  `ParkedSession` or a stutter.
* **TokenServiceProofs.** `ServiceInv` adds to `TypeOK`, `RegistryExact` and
  `SafeReportIsTrue` only `NumberInv`, that no session has a number beyond the id
  counter: without it a new session could take the place of an old one. From it
  `TypeCorrect`, `RegistriesExact`, `SafeReportsTrue`, and `IdsAreNotReused`
  (`EndedStaysEnded`, an action property), for any number of sessions of both tools.
* **MessageParserProofs.** `LengthsCanonical`: at every offset of every byte string,
  `compactU16` accepts exactly the one to three bytes a serializer writes for some
  length, and reads that length (`CanonicalAt`). `MessagesWellFormed`: an accepted payload was read
  to its last byte, into whole addresses and instructions with their data, for any
  length of address. The arithmetic of one length is proved on its bytes (`Val2`,
  `Val3`); after that the readers are used only through what they return (`Reads`), and
  the loops over instructions and accounts by induction. On top of these stands the round
  trip. `ParsesWritten`: for every `m` in `MessageType`, `parseMessage(Encode(m))` succeeds
  at the last byte with `View(m)`. `ParsesOnlyWritten`: a payload that is accepted is
  `Encode(m)` for a message `m` whose view is what was read. The argument is about *where
  a part stands*: `Stands(b, o, s)` says that the bytes of `s` are in `b` from offset
  `o` on. A reader that succeeds at an offset has the encoding of what it read standing
  there, and where an encoding stands the reader succeeds and ends behind it; one pair of
  lemmas says so for a counted string, an instruction, the address list and the list of
  instructions. Parts that stand end to end make up their concatenation. Addresses, all
  of one length, are cut and joined by position (`CutsOfJoined`, `JoinedOfCuts`);
  instructions, of different lengths, need the loop `takeInstructions` unrolled one
  instruction at a time from the front (`Loops`), by induction over their number.
* **MessageReaderProofs.** The same said of the runs' properties, for any set of payloads
  and of messages: `WrittenIsAccepted` (`AcceptsWhatIsWritten`), `ReadIsWritten`
  (`ReadsWhatWasWritten`) and `LengthsReadAsWritten` (`LengthsAreCanonical`). `ReaderInv` is
  that the result is the one `parseMessage` gives for this payload.
* **SignerServiceProofs.** `SignerInv` has two halves. `CustodyInv`: while the seal
  command writes, its key is raw, its passphrase can be sent by a host and its file
  holds no other key; once it is done, some file opens to its key. `KeyRecoverable`
  alone does not survive `DeleteRaw`. `VaultInv`: vault, policy and host agree on the
  key in use, which is what `signer_sign` relies on after any number of unlocks. From
  them: `KeysAgree`, `NoKeyLost`, `SignaturesAsTold`, `OwnTransactionsOnly`, and
  `FlagWins`, an action property. `ServiceInv` adds the types and the chain (`ChainInv`:
  a token is fixed, or unminted, or excepted for good by a signed message, `Exempt`). By
  `ParsesWritten` the policy saw in the bytes the instructions that the cluster
  executes, though not their accounts (`KindsAgree`). `RunInv` is what is known of
  the account at one address after the first `i` instructions of one message: supply
  came from a mint of it before, by either program, and a revocation of it that has passed holds. At
  the end of a message the policy's rule (a `MintTo` only next to both revocations), with
  the revocations naming that mint, turns it into what holds between messages
  (`ApprovedIsHarmless`), so messages may be executed in any order and number:
  `SupplyStaysFixed` (`MintedSupplyIsFixed`), for any number of mints, keys and
  messages.
  `EngineMintsAreSigned` (`EngineMintIsSigned`) is the other direction, that the policy is
  not too strict: by `ParsesWritten` it sees in the encoded mint the instructions that were
  written, the five have the kinds it allows, and both revocations are among them
  (`EngineMintApproved`); a refusal while that key is unlocked would need the vault and the
  policy to disagree on the key, which `VaultInv` excludes.
* **ManualClockProofs.** `TypeOK`, `EveryArmingHasOneFate`, `NoEarlyFire` and
  `PendingIsAhead` are inductive together. That no fire is dropped at a full slot needs
  the first of them: the slot of a pending timer is empty. The loop of
  `fireDueLocked`, which filters the list in place, is shown by induction to keep
  exactly the timers that are not due. From it `TypeCorrect`, `OneFatePerArming`,
  `FiresInTime`, `PendingAhead`, for any number of timers and any durations.
* **Induction.** The library's induction theorems have an operator as a parameter,
  which the provers cannot instantiate. Here the property is a *set* and the step of a
  recursion a *function*, both ordinary values: `LeastNumber` comes from the well-founded
  order of the numbers, `InductionUpTo` and `RecursionUpTo` from it. A recursive
  function over `0..n` of the models is then a `Computed` one, and what it computes can
  be proved.

Only model-checked: liveness and everything under fairness (`Terminates`,
`LifecycleEnds`, `CloseUnwindsUnlessSigning`, `AdvanceReturnsInTime`), which are out of the
prover's reach. Every other property of the passing runs is stated by a theorem.

## 5. What is not modelled

* SOL: fees, rent, and what a `CreateAccount` takes along (section 3).
* The cryptography of the sealed file (only the very passphrase opens it), base58 and
  base64, address parsing and borsh: conversions for the wire with no state.
* The Unicode folding of `ImpersonationTarget` and the URL rules of `ContentAddressed`:
  their results are facts of a spec.
* JSON texts, wording, the stable sort of a report; `Register`, which runs before the
  loop.
* `clock.System`, which is Go's time package. The engine needs only that an interval
  passes.
* The example extension, an echo tool over the same loop; scripts and CI.
* Memory: sessions a host never resumes stay in the map, with no limit.
* A duplicated resume is an answer to the next call of its session. The protocol does
  not number calls, so no property can tell it from the answer that call was to get;
  `TokenService` lets every answer meet every pending call.

## 6. What could come next

* The bytes of `createV1Data` and of solana-go's instructions, with which `IsEngineMint`
  could be derived from `buildMint` and need not be an assumption on `EngineMints`.
* A numbering of host calls, if the protocol gets one: a duplicated resume could then be
  told from an answer, and `TokenService` could say that each answer meets its call.
