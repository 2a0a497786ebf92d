---------------------------- MODULE SignerService ----------------------------
(***************************************************************************)
(* The signer extension (signer/signer.go, cmd/solana-signer): a process   *)
(* that starts locked, unlocks a sealed key and signs what its policy      *)
(* approves.  The MCP loop handles one request at a time, so a handler is  *)
(* one step.  Around it are the key files of SealedKey, a host that asks   *)
(* for anything, and the cluster, which executes signed messages in any    *)
(* order, on as many mint accounts as the messages name.                   *)
(***************************************************************************)
EXTENDS SealedKey, SignPolicy, MintAccount

CONSTANTS
  Payloads,         \* what hosts ask to have signed
  Messages,         \* what the cluster reads in payloads
  Mints,            \* the addresses of the mint accounts that are followed
  maxPayloadBytes,  \* the largest payload looked at
  MaxSigned,        \* bound: signatures given out
  EngineMints       \* EngineMints[k]: the mints the engine builds for payer k

ASSUME SignerAssumption ==
  /\ Keys \subseteq [1..AddrLen -> 0..255]
  /\ Payloads \subseteq Seq(0..255)
  /\ Messages \subseteq MessageType
  /\ \A p \in Payloads : parseMessage(p).ok => \E m \in Messages : Encode(m) = p
  /\ maxPayloadBytes \in Nat
  /\ MaxSigned \in Nat
  /\ \A k \in Keys : \A m \in EngineMints[k] : m \in MessageType /\ IsEngineMint(m, k)

VARIABLES
  flag,    \* the path given with --key, or NoPath
  key,     \* v.key: the unlocked key, or NoKey
  payer,   \* policy.Payer
  told,    \* the public key the host was last given
  reply,   \* the answer to the last request, and the payload it refuses
  signed,  \* the signatures given out: who signed what
  mint     \* mint[k][a]: the mint account at address a, if k pays for it

process == << flag, key, payer >>
vars    == << custody, process, told, reply, signed, mint >>

NoKey   == << >>
NoReply == [ kind |-> "none", key |-> NoKey, payload |-> << >> ]
Refusal == [ kind |-> "error", key |-> NoKey, payload |-> << >> ]

\* Tables, so that TLC reads and writes a payload once.
Wire     == [ m \in Messages |-> Encode(m) ]
EnginePayloads == [ k \in Keys |-> { Encode(m) : m \in EngineMints[k] } ]
Parsed   == [ p \in Payloads |-> parseMessage(p) ]
Approved == { pk \in Payloads \X (Keys \cup {NoKey}) : Approve(pk[1], pk[2]) }

Answer(kind, k, payload) == [ kind |-> kind, key |-> k, payload |-> payload ]

Init ==
  /\ CustodyInit
  /\ flag \in Paths \cup {NoPath}
  /\ key = NoKey /\ payer = NoKey
  /\ told = NoKey /\ reply = NoReply
  /\ signed = {}
  /\ mint = [k \in Keys |-> [a \in Mints |-> NoAccount]]

-----------------------------------------------------------------------------
(* The process.                                                            *)

\* Mutant: the path the host names wins.
keyPathHostWins(fromHost) == IF fromHost # NoPath THEN fromHost ELSE flag

\* The opener of serveWith: the flag wins over the path the host names.
keyPath(fromHost) == IF flag # NoPath THEN flag ELSE fromHost

open(pass, fromHost) ==
  IF keyPath(fromHost) = NoPath THEN {} ELSE OpenEd25519Key(keyPath(fromHost), pass)

\* Mutant: the policy is bound to the first key only.
BindKeyOnce(k) == IF payer = NoKey THEN k ELSE payer

\* Mutant: the policy is given the key in an encoded form.
BindKeyEncoded(k) == << 49 >> \o k

\* BindKey: what policy.Payer becomes.
BindKey(k) == k

\* Mutant: the vault keeps the first key it was given.
vaultSetOnce(k) == IF key = NoKey THEN k ELSE key

\* v.set: what v.key becomes.
vaultSet(k) == k

\* signer_unlock, at any time and any number of times.  A key that does not
\* open leaves the one that is held.
Unlock ==
  /\ \E pass \in Passphrases, p \in Paths \cup {NoPath} :
       \/ \E k \in open(pass, p) :
            /\ payer' = BindKey(k) /\ key' = vaultSet(k) /\ told' = k
            /\ reply' = Answer("public", k, << >>)
       \/ /\ open(pass, p) = {}
          /\ reply' = Refusal
          /\ UNCHANGED << payer, key, told >>
  /\ UNCHANGED << custody, flag, signed, mint >>

\* signer_sign: locked, empty, too large, refused by the policy, or signed.
Sign ==
  /\ \E payload \in Payloads :
       LET passes == /\ Len(payload) \in 1..maxPayloadBytes
                     /\ << payload, payer >> \in Approved
       IN  \/ /\ key = NoKey
              /\ reply' = Refusal
              /\ UNCHANGED signed
           \/ /\ key # NoKey /\ ~passes
              /\ reply' = Answer("error", key, payload)
              /\ UNCHANGED signed
           \/ /\ key # NoKey /\ passes
              /\ signed' = signed \cup {[ key |-> key, payload |-> payload ]}
              /\ Cardinality(signed') <= MaxSigned
              /\ reply' = Answer("signature", key, << >>)
  /\ UNCHANGED << custody, process, told, mint >>

\* A request that is not JSON, or whose payload is not base64.
BadRequest ==
  /\ reply' = Refusal
  /\ UNCHANGED << custody, process, told, signed, mint >>

\* The process dies and is launched again, perhaps with another flag.
Restart ==
  /\ key' = NoKey /\ payer' = NoKey
  /\ flag' \in Paths \cup {NoPath}
  /\ reply' = NoReply
  /\ UNCHANGED << custody, told, signed, mint >>

-----------------------------------------------------------------------------
(* The cluster, which reads the account indexes too.                       *)

\* What an instruction does to a mint account: the Create and the Mint of
\* Token Metadata, the making of a token account, and of the token program
\* MintTo and the two revocations.  Nothing else makes supply or ends an
\* authority.
ClusterOp(m, ix) ==
  LET prog       == programOf(m, ix)
      starts(s)  == Len(ix.data) >= Len(s) /\ SubSeq(ix.data, 1, Len(s)) = s
  IN  CASE prog = metadataProgram /\ starts(<< 42 >>)   -> "create"
        [] prog = metadataProgram /\ starts(<< 43 >>)   -> "metadataMint"
        [] prog = ataProgram                            -> "createATA"
        [] prog = tokenProgram /\ starts(<< 7 >>)       -> "mintTo"
        [] prog = tokenProgram /\ starts(<< 6, 0, 0 >>) -> "revokeMint"
        [] prog = tokenProgram /\ starts(<< 6, 1, 0 >>) -> "revokeFreeze"
        [] OTHER                                        -> "none"

\* Where each of them lists the mint among its accounts.
MintPosition ==
  [ create |-> 3, metadataMint |-> 6, createATA |-> 4,
    mintTo |-> 1, revokeMint |-> 1, revokeFreeze |-> 1 ]

\* Instruction ix of m does op, and does it to the mint at address a.
DoesTo(m, ix, op, a) ==
  /\ ClusterOp(m, ix) = op /\ op # "none"
  /\ MintPosition[op] <= Len(ix.accounts)
  /\ LET index == ix.accounts[MintPosition[op]]
     IN  index < Len(m.accounts) /\ m.accounts[index + 1] = a

\* What is left of the account c at address a after one instruction of m.
AfterOne(c, m, ix, a) ==
  LET op == ClusterOp(m, ix)
  IN  IF ~DoesTo(m, ix, op, a) THEN c
      ELSE Apply(c, [ op |-> IF op = "metadataMint" THEN "mintTo" ELSE op,
                      amount |-> 1 ])

\* And after all of them, one after the other.
AfterAll(c, m, a) ==
  LET run[i \in 0..Len(m.instructions)] ==
        IF i = 0 THEN c ELSE AfterOne(run[i-1], m, m.instructions[i], a)
  IN  run[Len(m.instructions)]

\* A signed message is executed, all of it, if all of it succeeds.
Execute ==
  /\ \E s \in signed, m \in Messages :
       LET after == [ a \in Mints |-> AfterAll(mint[s.key][a], m, a) ]
       IN  /\ Wire[m] = s.payload
           /\ \A a \in Mints : after[a].kind # "notmint"
           /\ mint' = [mint EXCEPT ![s.key] = after]
  /\ UNCHANGED << custody, process, told, reply, signed >>

Process == Unlock \/ Sign \/ BadRequest \/ Restart

Next ==
  \/ Process
  \/ Custody /\ UNCHANGED << process, told, reply, signed, mint >>
  \/ Execute

Spec == Init /\ [][Next]_vars

-----------------------------------------------------------------------------
(* Properties.                                                             *)

\* Every variable keeps its type.
TypeOK ==
  /\ CustodyTypeOK
  /\ flag \in Paths \cup {NoPath}
  /\ {key, payer, told} \subseteq Keys \cup {NoKey}
  /\ reply.kind \in {"none", "public", "signature", "error"}
  /\ signed \subseteq [ key : Keys, payload : Payloads ]
  /\ mint \in [Keys -> [Mints -> AcctType]]

\* Whatever was unlocked, failed to unlock, re-sealed or restarted, a signature
\* is made with the key whose public half the host was last given.
SignsAsTold == reply.kind = "signature" => reply.key = told

\* The flag an operator typed names the key: no host can have another one used.
FlagNamesTheKey ==
  [][key' # key /\ key' # NoKey /\ flag # NoPath =>
       disk[flag].kind = "sealed" /\ disk[flag].key = key']_vars

\* A key signs only transactions it pays for: no message that makes another
\* account its fee payer was ever signed, under any sequence of unlocks.
SignsOwnTransactions ==
  \A s \in signed : Parsed[s.payload].val.accounts[1] = s.key

\* No authority is left over the supply of an account.
FixedSupply(c) == c.supply > 0 => c.mintAuth = "none" /\ c.freezeAuth = "none"

\* "An extension that has been replaced wholesale still cannot obtain a
\* signature over a token it could later inflate or freeze": whatever signed
\* messages the cluster executes, in whichever order, no token with supply has
\* an authority left.
NoTokenLeftOpen == \A k \in Keys, a \in Mints : FixedSupply(mint[k][a])

\* m makes supply of a only by MintTo, and its revocations are then of a too.
RevokesWhatItMints(m, a) ==
  LET does(op, b) == \E i \in DOMAIN m.instructions : DoesTo(m, m.instructions[i], op, b)
  IN  /\ ~does("metadataMint", a)
      /\ does("mintTo", a) =>
           \A i \in DOMAIN m.instructions :
             LET op == ClusterOp(m, m.instructions[i])
             IN  op \in {"revokeMint", "revokeFreeze"} => DoesTo(m, m.instructions[i], op, a)

SignedBy(k) == { m \in Messages : [ key |-> k, payload |-> Wire[m] ] \in signed }

\* What the policy's rule does ensure of each token: if the revocations of the
\* messages that mint it name it, which the policy cannot see, no order of
\* these and of all other signed messages leaves it with supply and an
\* authority; not even a mint that was signed in parts.
MintedSupplyIsFixed ==
  \A k \in Keys, a \in Mints :
    \/ FixedSupply(mint[k][a])
    \/ \E m \in SignedBy(k) : ~RevokesWhatItMints(m, a)

\* The mint the engine builds for a key is never refused while that key is
\* unlocked: the policy and buildMint agree on what a mint is.
EngineMintIsSigned ==
  \A k \in Keys : \A p \in EnginePayloads[k] :
    Len(p) <= maxPayloadBytes => reply # Answer("error", k, p)
=============================================================================
