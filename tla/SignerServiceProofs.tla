------------------------- MODULE SignerServiceProofs -------------------------
(***************************************************************************)
(* Proofs about SignerService, for any keys, paths, passphrases, payloads  *)
(* and mints.                                                              *)
(*                                                                         *)
(* The key at rest and the key in use: what they are safe from needs of    *)
(* the policy only what Approve says of the fee payer.                     *)
(*                                                                         *)
(* What signed messages do to a token needs all of it.  A message that was *)
(* signed is read by the policy as it was written (ParsesWritten), so the  *)
(* cluster finds the instructions the policy counted (KindsAgree), though  *)
(* not the accounts they name.  RunInv is what holds of one mint account   *)
(* after the first i instructions of one message; ApprovedIsHarmless       *)
(* follows by induction on i, for messages of any length whose revocations *)
(* name the mint.  ChainInv is what then holds between messages, in any    *)
(* order and number of them.                                               *)
(*                                                                         *)
(* Last, that the policy is not too strict: every mint of the engine is    *)
(* read as it was written (ParsesWritten) and passes every rule.           *)
(***************************************************************************)
EXTENDS SignerService, MessageParserProofs, TLAPS

-----------------------------------------------------------------------------
(* The key at rest.                                                        *)

\* A sealed file opens to k under a passphrase a host can send.
Openable(k) ==
  \E p \in Paths, t \in Texts :
    k \in OpenEd25519Key(p, [ text |-> t, eol |-> FALSE ])

\* KeyRecoverable needs to know how far the seal command is: what it writes
\* is a usable passphrase over a raw key, into a file that holds no key yet,
\* and it says "done" only of a key that some file opens to.
CustodyInv ==
  /\ \A k \in Keys : k \in raw \/ Openable(k)
  /\ disk \in [Paths -> {Unsealed}
                          \cup { Sealed(k, pass) : k \in Keys, pass \in Passphrases }]
  /\ sealing.step = "writing" =>
       /\ sealing.key \in raw /\ sealing.key \in Keys
       /\ sealing.path \in Paths /\ disk[sealing.path] = Unsealed
       /\ sealing.pass \in Passphrases /\ sealing.pass # NoPassphrase
       /\ ~sealing.pass.eol
  /\ sealing.step = "done" => Openable(sealing.key)

\* A file that is overwritten costs no key but the one it held.
LEMMA OverwriteFacts ==
  ASSUME NEW p \in Paths, NEW k \in Keys,
         \A q \in Paths : q # p => disk'[q] = disk[q],
         disk[p].kind = "sealed" => disk[p].key # k,
         Openable(k)
  PROVE  Openable(k)'
  <1>1. PICK q \in Paths, t \in Texts :
          k \in OpenEd25519Key(q, [ text |-> t, eol |-> FALSE ])
    BY DEF Openable
  <1>2. /\ disk[q] = Sealed(k, [ text |-> t, eol |-> FALSE ])
        /\ [ text |-> t, eol |-> FALSE ] # NoPassphrase
    BY <1>1 DEF OpenEd25519Key
  <1>3. disk[q].kind = "sealed" /\ disk[q].key = k
    BY <1>2 DEF Sealed
  <1>4. disk'[q] = disk[q]
    BY <1>3
  <1>5. k \in OpenEd25519Key(q, [ text |-> t, eol |-> FALSE ])'
    BY <1>2, <1>4 DEF OpenEd25519Key
  <1> QED
    BY <1>5 DEF Openable

\* The steps of the seal command and its operator keep every key recoverable.
LEMMA CustodyStep == CustodyInv /\ Custody => CustodyInv'
  <1> SUFFICES ASSUME CustodyInv, Custody PROVE CustodyInv'
    OBVIOUS
  <1>1. CASE SealBegin
    <2>1. PICK k \in Keys, p \in Paths, line \in Passphrases :
            /\ disk[p].kind = "sealed" => disk[p].key = k
            /\ \/ /\ k \in raw /\ readPassphrase(line) # NoPassphrase
                  /\ disk' = [disk EXCEPT ![p] = Unsealed]
                  /\ sealing' = [ step |-> "writing", key |-> k, path |-> p,
                                  pass |-> readPassphrase(line) ]
               \/ /\ k \notin raw \/ readPassphrase(line) = NoPassphrase
                  /\ sealing' = Idle
                  /\ UNCHANGED disk
      BY <1>1 DEF SealBegin, OperatorChooses
    <2>2. UNCHANGED raw
      BY <1>1 DEF SealBegin
    <2>3. CASE sealing' = Idle /\ UNCHANGED disk
      BY <2>2, <2>3 DEF CustodyInv, Openable, OpenEd25519Key, Idle
    <2>4. CASE /\ k \in raw /\ readPassphrase(line) # NoPassphrase
               /\ disk' = [disk EXCEPT ![p] = Unsealed]
               /\ sealing' = [ step |-> "writing", key |-> k, path |-> p,
                               pass |-> readPassphrase(line) ]
      <3>1. /\ readPassphrase(line) \in Passphrases
            /\ ~readPassphrase(line).eol
        BY DEF readPassphrase, Passphrases
      <3>2. \A j \in Keys : j \in raw' \/ Openable(j)'
        <4> TAKE j \in Keys
        <4>1. CASE j = k
          BY <2>2, <2>4, <4>1
        <4>2. CASE j # k
          <5>1. disk[p].kind = "sealed" => disk[p].key # j
            BY <2>1, <4>2
          <5>2. \A q \in Paths : q # p => disk'[q] = disk[q]
            BY <2>4 DEF CustodyInv
          <5>3. Openable(j) => Openable(j)'
            BY <5>1, <5>2, OverwriteFacts
          <5> QED
            BY <2>2, <5>3 DEF CustodyInv
        <4> QED
          BY <4>1, <4>2
      <3>3. disk' \in [Paths -> {Unsealed}
                  \cup { Sealed(kk, pass) : kk \in Keys, pass \in Passphrases }]
        BY <2>4 DEF CustodyInv
      <3>4. disk'[p] = Unsealed
        BY <2>4 DEF CustodyInv
      <3>5. /\ sealing'.step = "writing" /\ sealing'.key = k
            /\ sealing'.path = p /\ sealing'.pass = readPassphrase(line)
        BY <2>4
      <3> QED
        BY <2>2, <2>4, <3>1, <3>2, <3>3, <3>4, <3>5 DEF CustodyInv
    <2> QED
      BY <2>1, <2>3, <2>4
  <1>2. CASE SealDone
    <2>1. /\ sealing.step = "writing" /\ UNCHANGED raw
          /\ disk' = [disk EXCEPT ![sealing.path] = Sealed(sealing.key, sealing.pass)]
          /\ sealing' = [ step |-> "done", key |-> sealing.key ]
      BY <1>2 DEF SealDone
    <2>2. PICK k \in Keys, p \in Paths, pass \in Passphrases :
            /\ k = sealing.key /\ p = sealing.path /\ pass = sealing.pass
            /\ k \in raw /\ disk[p] = Unsealed
            /\ pass # NoPassphrase /\ ~pass.eol
      BY <2>1 DEF CustodyInv
    <2>3. disk' = [disk EXCEPT ![p] = Sealed(k, pass)]
      BY <2>1, <2>2
    <2>4. pass.text \in Texts /\ pass = [ text |-> pass.text, eol |-> FALSE ]
      BY <2>2 DEF Passphrases
    <2>5. disk'[p] = Sealed(k, pass)
      BY <2>3 DEF CustodyInv
    <2>6. Openable(k)'
      <3>1. k \in OpenEd25519Key(p, [ text |-> pass.text, eol |-> FALSE ])'
        BY <2>2, <2>4, <2>5 DEF OpenEd25519Key
      <3> QED
        BY <2>4, <3>1 DEF Openable
    <2>7. \A j \in Keys : j \in raw' \/ Openable(j)'
      <3> TAKE j \in Keys
      <3>1. disk[p].kind # "sealed"
        BY <2>2 DEF Unsealed
      <3>2. \A q \in Paths : q # p => disk'[q] = disk[q]
        BY <2>3 DEF CustodyInv
      <3>3. Openable(j) => Openable(j)'
        BY <3>1, <3>2, OverwriteFacts
      <3> QED
        BY <2>1, <3>3 DEF CustodyInv
    <2>8. disk' \in [Paths -> {Unsealed}
                \cup { Sealed(kk, pp) : kk \in Keys, pp \in Passphrases }]
      BY <2>3 DEF CustodyInv
    <2>9. sealing'.step = "done" /\ sealing'.key = k
      BY <2>1, <2>2
    <2> QED
      BY <2>6, <2>7, <2>8, <2>9 DEF CustodyInv
  <1>3. CASE SealCutShort
    <2>1. sealing' = Idle /\ UNCHANGED << disk, raw >>
      BY <1>3 DEF SealCutShort
    <2>2. \A j : Openable(j)' <=> Openable(j)
      BY <2>1 DEF Openable, OpenEd25519Key
    <2> QED
      BY <2>1, <2>2 DEF CustodyInv, Idle
  <1>4. CASE DeleteRaw
    <2>1. /\ sealing.step = "done" /\ raw' = raw \ {sealing.key}
          /\ sealing' = Idle /\ UNCHANGED disk
      BY <1>4 DEF DeleteRaw
    <2>2. \A j : Openable(j)' <=> Openable(j)
      BY <2>1 DEF Openable, OpenEd25519Key
    <2>3. \A j \in Keys : j \in raw' \/ Openable(j)'
      BY <2>1, <2>2 DEF CustodyInv
    <2> QED
      BY <2>1, <2>3 DEF CustodyInv, Idle
  <1> QED
    BY <1>1, <1>2, <1>3, <1>4 DEF Custody

-----------------------------------------------------------------------------
(* The key in use.                                                         *)

\* SignsAsTold and SignsOwnTransactions need that the three places a key is
\* kept in agree: the vault, the policy and what the host was told.
VaultInv ==
  /\ key # NoKey => payer = key /\ told = key
  /\ SignsAsTold
  /\ SignsOwnTransactions

SignerInv == CustodyInv /\ VaultInv

\* A payload the policy lets pass is paid for by the key it is bound to.
LEMMA ApprovedPayer ==
  ASSUME NEW payload \in Payloads, NEW k, << payload, k >> \in Approved
  PROVE  Parsed[payload].val.accounts[1] = k
  <1>1. Approve(payload, k)
    BY DEF Approved
  <1>2. parseMessage(payload).val.accounts[1] = k
    BY <1>1 DEF Approve
  <1> QED
    BY <1>2 DEF Parsed

\* Whatever has not touched the key files keeps what is true of them.
LEMMA CustodyStutter == CustodyInv /\ UNCHANGED custody => CustodyInv'
  <1> SUFFICES ASSUME CustodyInv, UNCHANGED custody PROVE CustodyInv'
    OBVIOUS
  <1>1. UNCHANGED disk /\ UNCHANGED raw /\ UNCHANGED sealing
    BY DEF custody
  <1>2. \A j : Openable(j)' <=> Openable(j)
    BY <1>1 DEF Openable, OpenEd25519Key
  <1> QED
    BY <1>1, <1>2 DEF CustodyInv

\* It holds when the process is launched for the first time.
LEMMA InitSigner == Init => SignerInv
  <1> SUFFICES ASSUME Init PROVE SignerInv
    OBVIOUS
  <1>1. CustodyInv
    BY DEF Init, CustodyInit, CustodyInv, Idle
  <1>2. VaultInv
    BY DEF Init, VaultInv, SignsAsTold, SignsOwnTransactions, NoReply
  <1> QED
    BY <1>1, <1>2 DEF SignerInv

\* It is preserved by every request, every crash and every execution.
LEMMA NextSigner == SignerInv /\ [Next]_vars => SignerInv'
  <1> SUFFICES ASSUME SignerInv, [Next]_vars PROVE SignerInv'
    OBVIOUS
  <1> USE DEF SignerInv
  <1>1. CASE Unlock
    <2>1. CustodyInv' /\ UNCHANGED signed
      BY <1>1, CustodyStutter DEF Unlock
    <2>2. \/ \E k : /\ payer' = k /\ key' = k /\ told' = k
                    /\ reply' = Answer("public", k, << >>)
          \/ reply' = Refusal /\ UNCHANGED << payer, key, told >>
      BY <1>1 DEF Unlock, BindKey, vaultSet
    <2>3. VaultInv'
      BY <2>1, <2>2 DEF VaultInv, SignsAsTold, SignsOwnTransactions, Answer, Refusal
    <2> QED
      BY <2>1, <2>3
  <1>2. CASE Sign
    <2>1. CustodyInv' /\ UNCHANGED << key, payer, told >>
      BY <1>2, CustodyStutter DEF Sign, process
    <2>2. PICK payload \in Payloads :
            \/ /\ reply' = Refusal \/ reply' = Answer("error", key, payload)
               /\ UNCHANGED signed
            \/ /\ key # NoKey /\ << payload, payer >> \in Approved
               /\ signed' = signed \cup {[ key |-> key, payload |-> payload ]}
               /\ reply' = Answer("signature", key, << >>)
      BY <1>2 DEF Sign
    <2>3. CASE /\ reply' = Refusal \/ reply' = Answer("error", key, payload)
               /\ UNCHANGED signed
      BY <2>1, <2>3 DEF VaultInv, SignsAsTold, SignsOwnTransactions, Answer, Refusal
    <2>4. CASE /\ key # NoKey /\ << payload, payer >> \in Approved
               /\ signed' = signed \cup {[ key |-> key, payload |-> payload ]}
               /\ reply' = Answer("signature", key, << >>)
      <3>1. payer = key /\ told = key
        BY <2>4 DEF VaultInv
      <3>2. Parsed[payload].val.accounts[1] = key
        BY <2>4, <3>1, ApprovedPayer
      <3>3. SignsOwnTransactions'
        BY <2>4, <3>2 DEF VaultInv, SignsOwnTransactions
      <3>4. SignsAsTold'
        BY <2>1, <2>4, <3>1 DEF SignsAsTold, Answer
      <3> QED
        BY <2>1, <3>1, <3>3, <3>4 DEF VaultInv
    <2> QED
      BY <2>2, <2>3, <2>4
  <1>3. CASE BadRequest
    <2>1. CustodyInv'
      BY <1>3, CustodyStutter DEF BadRequest
    <2>2. VaultInv'
      BY <1>3 DEF BadRequest, process, VaultInv, SignsAsTold,
                  SignsOwnTransactions, Refusal
    <2> QED
      BY <2>1, <2>2
  <1>4. CASE Restart
    <2>1. CustodyInv'
      BY <1>4, CustodyStutter DEF Restart
    <2>2. VaultInv'
      BY <1>4 DEF Restart, VaultInv, SignsAsTold, SignsOwnTransactions, NoReply
    <2> QED
      BY <2>1, <2>2
  <1>5. CASE Custody /\ UNCHANGED << process, told, reply, signed, mint >>
    <2>1. CustodyInv'
      BY <1>5, CustodyStep
    <2>2. VaultInv'
      BY <1>5 DEF process, VaultInv, SignsAsTold, SignsOwnTransactions
    <2> QED
      BY <2>1, <2>2
  <1>6. CASE Execute
    <2>1. UNCHANGED << custody, process, told, reply, signed >>
      BY <1>6 DEF Execute
    <2>2. CustodyInv'
      BY <2>1, CustodyStutter
    <2>3. VaultInv'
      BY <2>1 DEF process, VaultInv, SignsAsTold, SignsOwnTransactions
    <2> QED
      BY <2>2, <2>3
  <1>7. CASE UNCHANGED vars
    <2>1. CustodyInv'
      BY <1>7, CustodyStutter DEF vars
    <2>2. VaultInv'
      BY <1>7 DEF vars, process, VaultInv, SignsAsTold, SignsOwnTransactions
    <2> QED
      BY <2>1, <2>2
  <1> QED
    BY <1>1, <1>2, <1>3, <1>4, <1>5, <1>6, <1>7 DEF Next, Process

\* Vault, policy and host agree on the key, and no key is lost.
THEOREM KeysAgree == Spec => []SignerInv
  <1>1. Init => SignerInv
    BY InitSigner
  <1>2. SignerInv /\ [Next]_vars => SignerInv'
    BY NextSigner
  <1> QED
    BY <1>1, <1>2, PTL DEF Spec

\* The seal command, which writes its file in place, loses no key: not when it
\* is killed, repeated or pointed at a file in use, if its operator deletes a
\* raw key only when it says so.
THEOREM NoKeyLost == Spec => []KeyRecoverable
  <1>1. SignerInv => KeyRecoverable
    BY DEF SignerInv, CustodyInv, KeyRecoverable, Openable
  <1> QED
    BY <1>1, KeysAgree, PTL

\* Under any sequence of unlocks, failed unlocks, re-seals and restarts a
\* signature is made with the key the host was last told.
THEOREM SignaturesAsTold == Spec => []SignsAsTold
  <1>1. SignerInv => SignsAsTold
    BY DEF SignerInv, VaultInv
  <1> QED
    BY <1>1, KeysAgree, PTL

\* No key ever signed a message that another account pays for.
THEOREM OwnTransactionsOnly == Spec => []SignsOwnTransactions
  <1>1. SignerInv => SignsOwnTransactions
    BY DEF SignerInv, VaultInv
  <1> QED
    BY <1>1, KeysAgree, PTL

\* A host cannot make a signer that was started with --key use another file.
THEOREM FlagWins == Spec => FlagNamesTheKey
  <1>1. [Next]_vars =>
          [key' # key /\ key' # NoKey /\ flag # NoPath =>
             disk[flag].kind = "sealed" /\ disk[flag].key = key']_vars
    <2> SUFFICES ASSUME [Next]_vars, key' # key, key' # NoKey, flag # NoPath
                 PROVE  disk[flag].kind = "sealed" /\ disk[flag].key = key'
      OBVIOUS
    <2>1. Unlock
      BY DEF Next, Process, vars, process, Sign, BadRequest, Restart, Execute
    <2>2. PICK pass \in Passphrases, p \in Paths \cup {NoPath} :
            \E k \in open(pass, p) : key' = k
      BY <2>1 DEF Unlock, vaultSet
    <2>3. disk[flag] = Sealed(key', pass)
      BY <2>2 DEF open, keyPath, OpenEd25519Key
    <2> QED
      BY <2>3 DEF Sealed
  <1> QED
    BY <1>1, PTL DEF Spec, FlagNamesTheKey

-----------------------------------------------------------------------------
(* What a signed message can do on the chain.                              *)

\* What the policy makes of instruction i of what it read, and what the
\* cluster does with instruction i of what was written.
Kind(v, i) == instructionKind(v, v.instructions[i])
Op(m, i)   == ClusterOp(m, m.instructions[i])

\* Instruction i does op to the mint at address a.
Does(m, i, op, a) == DoesTo(m, m.instructions[i], op, a)

\* The policy sees in a written message the programs its instructions name.
LEMMA SeesPrograms ==
  ASSUME NEW m \in MessageType, NEW i \in DOMAIN m.instructions
  PROVE  LET ix == View(m).instructions[i]
         IN  /\ programOf(View(m), ix) = programOf(m, m.instructions[i])
             /\ ix.data = m.instructions[i].data
             /\ ix.data \in Seq(Byte)
  <1> DEFINE s  == m.instructions
             ix == View(m).instructions[i]
  <1>1. s \in Seq(Instruction)
    BY MessageFields
  <1>2. s[i] \in Instruction
    BY <1>1, ElementOfSeq
  <1>3. View(m).accounts = m.accounts /\ ix = Visible(s[i])
    BY DEF View
  <1>4. ix.programIndex = s[i].programIndex /\ ix.data = s[i].data
    BY <1>3 DEF Visible
  <1>5. s[i].data \in Seq(Byte)
    BY <1>2 DEF Instruction, Counted
  <1> HIDE DEF ix, s
  <1>6. programOf(View(m), ix) = programOf(m, s[i])
    BY <1>3, <1>4 DEF programOf
  <1> QED
    BY <1>4, <1>5, <1>6 DEF ix, s

\* The kind of an instruction by its program.
LEMMA KindByProgram ==
  ASSUME NEW m, NEW ix
  PROVE  /\ programOf(m, ix) \in {ataProgram, metadataProgram} =>
              instructionKind(m, ix) = "other"
         /\ programOf(m, ix) = tokenProgram =>
              instructionKind(m, ix) = approveToken(ix.data)
  BY ProgramAssumption DEF instructionKind

\* The first three bytes of a SetAuthority that revokes, one by one.
LEMMA SetAuthorityBytes ==
  ASSUME NEW d \in Seq(Byte), Len(d) >= 3, NEW t
  PROVE  SubSeq(d, 1, 3) = << splSetAuthority, t, 0 >> <=>
           d[1] = splSetAuthority /\ d[2] = t /\ d[3] = 0
  <1>1. 0 \in Nat /\ 0 + 3 <= Len(d)
    BY LenProperties
  <1>2. At(d, 0, 3) = << d[0 + 1], d[0 + 2], d[0 + 3] >>
    BY <1>1, At3, Zenon
  <1>3. 0 + 1 = 1 /\ 0 + 2 = 2 /\ 0 + 3 = 3
    OBVIOUS
  <1>4. SubSeq(d, 1, 3) = << d[1], d[2], d[3] >>
    BY <1>2, <1>3, Zenon DEF At
  <1> QED
    BY <1>4

\* What the bytes of a token instruction are when the policy calls it a
\* MintTo or a revocation.
LEMMA TokenKinds ==
  ASSUME NEW d \in Seq(Byte)
  PROVE  /\ approveToken(d) = "mintTo" <=> Len(d) >= 1 /\ d[1] = splMintTo
         /\ approveToken(d) = "revokeMint" <=>
              Len(d) >= 3 /\ SubSeq(d, 1, 3) = << splSetAuthority, 0, 0 >>
         /\ approveToken(d) = "revokeFreeze" <=>
              Len(d) >= 3 /\ SubSeq(d, 1, 3) = << splSetAuthority, 1, 0 >>
  <1> DEFINE mints == Len(d) >= 1 /\ d[1] = splMintTo
             sets  == Len(d) >= 3 /\ d[1] = splSetAuthority /\ d[3] = 0
             rm    == sets /\ d[2] = authorityMintTokens
             rf    == sets /\ d[2] = authorityFreezeAccnt
  <1>1. approveToken(d) = CASE mints -> "mintTo" [] rm -> "revokeMint"
                            [] rf -> "revokeFreeze" [] OTHER -> "refused"
    BY DEF approveToken
  <1>2. ~(mints /\ rm) /\ ~(mints /\ rf) /\ ~(rm /\ rf)
    BY DEF splMintTo, splSetAuthority, authorityMintTokens, authorityFreezeAccnt
  <1>3. /\ rm <=> Len(d) >= 3 /\ SubSeq(d, 1, 3) = << splSetAuthority, 0, 0 >>
        /\ rf <=> Len(d) >= 3 /\ SubSeq(d, 1, 3) = << splSetAuthority, 1, 0 >>
    BY SetAuthorityBytes, Zenon DEF authorityMintTokens, authorityFreezeAccnt
  <1> HIDE DEF mints, rm, rf
  <1>4. /\ approveToken(d) = "mintTo" <=> mints
        /\ approveToken(d) = "revokeMint" <=> rm
        /\ approveToken(d) = "revokeFreeze" <=> rf
    BY <1>1, <1>2
  <1> QED
    BY <1>3, <1>4, Zenon DEF mints

\* A MintTo starts with its one-byte discriminator.
LEMMA FirstByte ==
  ASSUME NEW d \in Seq(Byte), NEW x, Len(d) >= 1, SubSeq(d, 1, 1) = << x >>
  PROVE  d[1] = x
  <1>1. SubSeq(d, 1, 1)[1] = d[1]
    OBVIOUS
  <1>2. << x >>[1] = x
    OBVIOUS
  <1> QED
    BY <1>1, <1>2, Zenon

\* Which program an instruction names decides which rule looks at it, and on
\* the cluster which program runs it: what mints for the cluster mints for the
\* policy, and what revokes for the policy revokes for the cluster.
LEMMA KindsAgree ==
  ASSUME NEW m \in MessageType, NEW i \in DOMAIN m.instructions
  PROVE  /\ Op(m, i) = "mintTo" => Kind(View(m), i) = "mintTo"
         /\ Kind(View(m), i) = "revokeMint" => Op(m, i) = "revokeMint"
         /\ Kind(View(m), i) = "revokeFreeze" => Op(m, i) = "revokeFreeze"
  <1> DEFINE v    == View(m)
             ix   == m.instructions[i]
             prog == programOf(m, ix)
             d    == ix.data
             starts(s) == Len(d) >= Len(s) /\ SubSeq(d, 1, Len(s)) = s
             mints == Len(d) >= 1 /\ d[1] = splMintTo
             rm == Len(d) >= 3 /\ SubSeq(d, 1, 3) = << splSetAuthority, 0, 0 >>
             rf == Len(d) >= 3 /\ SubSeq(d, 1, 3) = << splSetAuthority, 1, 0 >>
             C42 == starts(<< 42 >>)
             C43 == starts(<< 43 >>)
             C7  == starts(<< 7 >>)
             C60 == starts(<< 6, 0, 0 >>)
             C61 == starts(<< 6, 1, 0 >>)
  <1>1. /\ programOf(v, v.instructions[i]) = prog
        /\ v.instructions[i].data = d /\ d \in Seq(Byte)
    BY SeesPrograms
  <1>2. Kind(v, i) =
          CASE prog = systemProgram -> IF approveSystem(d) THEN "other" ELSE "refused"
            [] prog = tokenProgram  -> approveToken(d)
            [] prog \in {ataProgram, metadataProgram} -> "other"
            [] OTHER -> "refused"
    BY <1>1 DEF Kind, instructionKind
  <1>3. Op(m, i) =
          CASE prog = metadataProgram /\ C42 -> "create"
            [] prog = metadataProgram /\ C43 -> "metadataMint"
            [] prog = ataProgram             -> "createATA"
            [] prog = tokenProgram /\ C7     -> "mintTo"
            [] prog = tokenProgram /\ C60    -> "revokeMint"
            [] prog = tokenProgram /\ C61    -> "revokeFreeze"
            [] OTHER -> "none"
    BY DEF Op, ClusterOp
  <1>4. /\ approveToken(d) = "mintTo" <=> mints
        /\ approveToken(d) = "revokeMint" <=> rm
        /\ approveToken(d) = "revokeFreeze" <=> rf
    BY <1>1, TokenKinds, Zenon
  <1>5. /\ Len(<< 7 >>) = 1 /\ Len(<< 6, 0, 0 >>) = 3 /\ Len(<< 6, 1, 0 >>) = 3
    OBVIOUS
  <1>6. C7 => mints
    BY <1>1, <1>5, FirstByte DEF splMintTo
  <1>7. (C60 <=> rm) /\ (C61 <=> rf)
    BY <1>5 DEF splSetAuthority
  <1>8. /\ systemProgram # tokenProgram /\ systemProgram # ataProgram
        /\ systemProgram # metadataProgram /\ tokenProgram # ataProgram
        /\ tokenProgram # metadataProgram /\ ataProgram # metadataProgram
    BY ProgramAssumption
  <1>9. rm => ~mints /\ ~rf
    BY <1>4
  <1>10. rf => ~mints /\ ~rm
    BY <1>4
  <1> HIDE DEF v, prog, d, mints, rm, rf, C42, C43, C7, C60, C61
  <1>11. CASE prog = tokenProgram
    <2>1. Kind(v, i) = approveToken(d)
      BY <1>2, <1>8, <1>11
    <2>2. Op(m, i) = CASE C7  -> "mintTo" [] C60 -> "revokeMint"
                       [] C61 -> "revokeFreeze" [] OTHER -> "none"
      BY <1>3, <1>8, <1>11
    <2>3. Op(m, i) = "mintTo" => C7
      BY <2>2, <1>6, <1>7, <1>9, <1>10
    <2>4. rm => Op(m, i) = "revokeMint"
      BY <2>2, <1>6, <1>7, <1>9
    <2>5. rf => Op(m, i) = "revokeFreeze"
      BY <2>2, <1>6, <1>7, <1>10
    <2> QED
      BY <2>1, <2>3, <2>4, <2>5, <1>4, <1>6 DEF v
  <1>12. CASE prog # tokenProgram
    <2>1. Kind(v, i) \in {"other", "refused"}
      BY <1>2, <1>12
    <2>2. Op(m, i) # "mintTo"
      BY <1>3, <1>12
    <2> QED
      BY <2>1, <2>2 DEF v
  <1> QED
    BY <1>11, <1>12

\* One instruction: a failed transaction stays failed, a revoked authority
\* stays revoked, and only MintTo makes supply.
LEMMA ApplyFacts ==
  ASSUME NEW a \in AcctType, NEW op, NEW c, c = Apply(a, [ op |-> op, amount |-> 1 ])
  PROVE  /\ c \in AcctType
         /\ c.kind # "notmint" =>
              /\ a.kind # "notmint" /\ c.kind = "mint"
              /\ a.kind = "mint" /\ a.mintAuth = "none" => c.mintAuth = "none"
              /\ a.kind = "mint" /\ a.freezeAuth = "none" => c.freezeAuth = "none"
              /\ op = "revokeMint" => c.mintAuth = "none"
              /\ op = "revokeFreeze" => c.freezeAuth = "none"
              /\ op # "mintTo" => c.supply = a.supply
  <1> DEFINE ix == [ op |-> op, amount |-> 1 ]
  <1>1. ix.op = op /\ ix.amount = 1
    OBVIOUS
  <1>2. /\ a.kind \in AcctKinds /\ a.mintAuth \in Authority
        /\ a.freezeAuth \in Authority /\ a.ata \in BOOLEAN /\ a.supply \in UInt64
    BY DEF AcctType
  <1>3. Broken \in AcctType /\ Broken.kind = "notmint"
    <2>1. 0 \in UInt64
      BY AmountAssumption DEF UInt64
    <2>2. NoAccount \in AcctType
      BY <2>1 DEF NoAccount, AcctType, AcctKinds, Authority
    <2> QED
      BY <2>2 DEF Broken, AcctType, AcctKinds
  <1> DEFINE creates == op = "create" /\ a.kind = "absent"
             holds   == op = "createATA" /\ a.kind = "mint"
             mints   == /\ op = "mintTo" /\ a.kind = "mint" /\ a.ata
                        /\ a.mintAuth = "payer" /\ a.supply + 1 \in UInt64
             thaws   == op = "revokeFreeze" /\ a.kind = "mint" /\ a.freezeAuth = "payer"
             closes  == op = "revokeMint" /\ a.kind = "mint" /\ a.mintAuth = "payer"
  <1>4. /\ creates => c = [a EXCEPT !.kind = "mint", !.mintAuth = "payer",
                                    !.freezeAuth = "payer"]
        /\ holds   => c = [a EXCEPT !.ata = TRUE]
        /\ mints   => c = [a EXCEPT !.supply = a.supply + 1]
        /\ thaws   => c = [a EXCEPT !.freezeAuth = "none"]
        /\ closes  => c = [a EXCEPT !.mintAuth = "none"]
        /\ creates \/ holds \/ mints \/ thaws \/ closes \/ c = Broken
    BY <1>1 DEF Apply
  <1>5. CASE creates
    BY <1>2, <1>4, <1>5 DEF AcctType, AcctKinds, Authority
  <1>6. CASE holds
    BY <1>2, <1>4, <1>6 DEF AcctType
  <1>7. CASE mints
    BY <1>2, <1>4, <1>7 DEF AcctType
  <1>8. CASE thaws
    BY <1>2, <1>4, <1>8 DEF AcctType, Authority
  <1>9. CASE closes
    BY <1>2, <1>4, <1>9 DEF AcctType, Authority
  <1>10. CASE c = Broken
    BY <1>3, <1>10
  <1> QED
    BY <1>4, <1>5, <1>6, <1>7, <1>8, <1>9, <1>10

\* An account whose supply can no longer change and cannot be frozen.
Fixed(c) == c.supply > 0 => /\ c.kind = "mint"
                            /\ c.mintAuth = "none" /\ c.freezeAuth = "none"

\* Some instruction of those in I does op to a.
Did(m, I, op, a) == \E j \in I : Does(m, j, op, a)

\* What is known of the account at address a, c before, and e after the first
\* i instructions of m.
RunInv(c, m, a, i, e) ==
  e.kind # "notmint" =>
    /\ e.supply > 0 => \/ c.supply > 0
                       \/ Did(m, 1..i, "mintTo", a) \/ Did(m, 1..i, "metadataMint", a)
    /\ c.supply > 0 \/ Did(m, 1..i, "revokeMint", a) =>
         e.kind = "mint" /\ e.mintAuth = "none"
    /\ c.supply > 0 \/ Did(m, 1..i, "revokeFreeze", a) =>
         e.kind = "mint" /\ e.freezeAuth = "none"

\* One turn of the loop in AfterAll.
Turn(m, a, c, i) == AfterOne(c, m, m.instructions[i], a)

\* What a turn comes to.
LEMMA TurnFacts ==
  ASSUME NEW m, NEW a, NEW c \in AcctType, NEW i, NEW e, e = Turn(m, a, c, i)
  PROVE  /\ e \in AcctType
         /\ \/ e = c /\ \A op : ~Does(m, i, op, a)
            \/ \E op : /\ \A o : Does(m, i, o, a) <=> o = op
                       /\ e.kind # "notmint" =>
                            /\ c.kind # "notmint" /\ e.kind = "mint"
                            /\ c.kind = "mint" /\ c.mintAuth = "none" => e.mintAuth = "none"
                            /\ c.kind = "mint" /\ c.freezeAuth = "none" => e.freezeAuth = "none"
                            /\ op = "revokeMint" => e.mintAuth = "none"
                            /\ op = "revokeFreeze" => e.freezeAuth = "none"
                            /\ op \notin {"mintTo", "metadataMint"} => e.supply = c.supply
  <1> DEFINE op == Op(m, i)
             as == IF op = "metadataMint" THEN "mintTo" ELSE op
  <1>1. \A o : Does(m, i, o, a) => o = op
    BY DEF Does, DoesTo, Op
  <1>2. e = IF ~Does(m, i, op, a) THEN c ELSE Apply(c, [ op |-> as, amount |-> 1 ])
    BY DEF Turn, AfterOne, Does, Op
  <1> HIDE DEF op
  <1>3. CASE ~Does(m, i, op, a)
    BY <1>1, <1>2, <1>3
  <1>4. CASE Does(m, i, op, a)
    <2>1. e = Apply(c, [ op |-> as, amount |-> 1 ])
      BY <1>2, <1>4
    <2>2. \A o : Does(m, i, o, a) <=> o = op
      BY <1>1, <1>4
    <2>3. /\ as = "revokeMint" <=> op = "revokeMint"
          /\ as = "revokeFreeze" <=> op = "revokeFreeze"
          /\ op \notin {"mintTo", "metadataMint"} => as # "mintTo"
      OBVIOUS
    <2>4. ASSUME NEW b, e = Apply(c, [ op |-> b, amount |-> 1 ])
          PROVE  /\ e \in AcctType
                 /\ e.kind # "notmint" =>
                      /\ c.kind # "notmint" /\ e.kind = "mint"
                      /\ c.kind = "mint" /\ c.mintAuth = "none" => e.mintAuth = "none"
                      /\ c.kind = "mint" /\ c.freezeAuth = "none" => e.freezeAuth = "none"
                      /\ b = "revokeMint" => e.mintAuth = "none"
                      /\ b = "revokeFreeze" => e.freezeAuth = "none"
                      /\ b # "mintTo" => e.supply = c.supply
      BY <2>4, ApplyFacts
    <2> HIDE DEF as
    <2>5. /\ e \in AcctType
          /\ e.kind # "notmint" =>
               /\ c.kind # "notmint" /\ e.kind = "mint"
               /\ c.kind = "mint" /\ c.mintAuth = "none" => e.mintAuth = "none"
               /\ c.kind = "mint" /\ c.freezeAuth = "none" => e.freezeAuth = "none"
               /\ op = "revokeMint" => e.mintAuth = "none"
               /\ op = "revokeFreeze" => e.freezeAuth = "none"
               /\ op \notin {"mintTo", "metadataMint"} => e.supply = c.supply
      BY <2>1, <2>3, <2>4
    <2> QED
      BY <2>2, <2>5
  <1> QED
    BY <1>3, <1>4

\* One instruction of a message keeps what is known in the middle of its
\* execution.
LEMMA TurnKeepsRun ==
  ASSUME NEW c \in AcctType, NEW m, NEW a, NEW i \in Nat,
         NEW d \in AcctType, RunInv(c, m, a, i, d),
         NEW e, e = Turn(m, a, d, i + 1)
  PROVE  RunInv(c, m, a, i + 1, e)
  <1>1. 1..(i + 1) = (1..i) \cup {i + 1}
    OBVIOUS
  <1>2. \A o : Did(m, 1..(i + 1), o, a) <=> Did(m, 1..i, o, a) \/ Does(m, i + 1, o, a)
    BY <1>1, Zenon DEF Did
  <1>3. CASE e = d /\ \A op : ~Does(m, i + 1, op, a)
    BY <1>2, <1>3 DEF RunInv
  <1>4. ASSUME NEW op,
               \A o : Does(m, i + 1, o, a) <=> o = op,
               e.kind # "notmint" =>
                 /\ d.kind # "notmint" /\ e.kind = "mint"
                 /\ d.kind = "mint" /\ d.mintAuth = "none" => e.mintAuth = "none"
                 /\ d.kind = "mint" /\ d.freezeAuth = "none" => e.freezeAuth = "none"
                 /\ op = "revokeMint" => e.mintAuth = "none"
                 /\ op = "revokeFreeze" => e.freezeAuth = "none"
                 /\ op \notin {"mintTo", "metadataMint"} => e.supply = d.supply
        PROVE  RunInv(c, m, a, i + 1, e)
    BY <1>2, <1>4 DEF RunInv
  <1> QED
    BY <1>3, <1>4, TurnFacts

\* The instructions of a message, one after the other.
LEMMA AfterAllRuns ==
  ASSUME NEW c \in AcctType, NEW m, NEW a, m.instructions \in Seq(Instruction)
  PROVE  /\ AfterAll(c, m, a) \in AcctType
         /\ Fixed(c) => RunInv(c, m, a, Len(m.instructions), AfterAll(c, m, a))
  <1> DEFINE n == Len(m.instructions)
             V == AcctType
             step == [p \in V \X (1..n) |-> Turn(m, a, p[1], p[2])]
             Loop(f) == f = [i \in 0..n |-> IF i = 0 THEN c ELSE Turn(m, a, f[i-1], i)]
             run == CHOOSE f : Loop(f)
  <1>0. n \in Nat
    BY LenProperties
  <1> HIDE DEF n
  <1>1. \A d \in V, i \in 1..n : Turn(m, a, d, i) \in V
    BY TurnFacts
  <1>2. step \in [V \X (1..n) -> V]
    BY <1>1
  <1>3. ASSUME NEW d \in V, NEW i \in 1..n PROVE step[<< d, i >>] = Turn(m, a, d, i)
    OBVIOUS
  <1> HIDE DEF step, V
  <1>4. c \in V
    BY DEF V
  <1>5. \E f : Loop(f)
    <2>1. PICK f : Computed(f, n, V, c, step)
      BY <1>0, <1>2, <1>4, RecursionUpTo
    <2>2. ASSUME NEW i \in 0..n
          PROVE  f[i] = IF i = 0 THEN c ELSE Turn(m, a, f[i-1], i)
      <3>1. CASE i = 0
        BY <2>1, <3>1 DEF Computed
      <3>2. CASE i # 0
        <4>1. i \in 1..n
          BY <1>0, <3>2
        <4>2. f[i - 1] \in V /\ f[i] = step[<< f[i - 1], i >>]
          BY <1>0, <2>1, <4>1, ComputedStep
        <4> QED
          BY <1>3, <3>2, <4>1, <4>2
      <3> QED
        BY <3>1, <3>2
    <2>3. f = [i \in 0..n |-> f[i]]
      BY <2>1 DEF Computed
    <2> QED
      BY <2>2, <2>3
  <1>6. Loop(run)
    <2> HIDE DEF Loop
    <2> QED
      BY <1>5
  <1>7. AfterAll(c, m, a) = run[n]
    BY DEF AfterAll, Turn, n
  <1> HIDE DEF run
  <1>8. Computed(run, n, V, c, step)
    <2> DEFINE body == [i \in 0..n |-> IF i = 0 THEN c ELSE Turn(m, a, run[i-1], i)]
    <2>1. run = body
      BY <1>6
    <2>2. /\ body = [i \in 0..n |-> body[i]] /\ body[0] = c
          /\ \A i \in 1..n : body[i] = Turn(m, a, run[i-1], i)
      BY <1>0
    <2> HIDE DEF body
    <2>3. /\ run = [i \in 0..n |-> run[i]] /\ run[0] = c
          /\ \A i \in 1..n : run[i] = Turn(m, a, run[i - 1], i)
      BY <2>1, <2>2
    <2> QED
      BY <1>0, <1>2, <1>3, <1>4, <2>3, ComputedByEquation
  <1>9. run[n] \in AcctType
    BY <1>0, <1>8 DEF Computed, V
  <1>10. ASSUME Fixed(c) PROVE RunInv(c, m, a, n, run[n])
    <2> DEFINE Good == { i \in 0..n : RunInv(c, m, a, i, run[i]) }
    <2>1. 0 \in Good
      <3>1. run[0] = c /\ 0 \in 0..n
        BY <1>0, <1>8 DEF Computed
      <3>2. RunInv(c, m, a, 0, c)
        BY <1>10 DEF RunInv, Did, Fixed
      <3> QED
        BY <3>1, <3>2
    <2>2. ASSUME NEW i \in 0..(n - 1), i \in Good PROVE i + 1 \in Good
      <3>1. i + 1 \in 1..n /\ (i + 1) - 1 = i /\ i + 1 \in 0..n /\ i \in Nat
        BY <1>0
      <3>2. run[i] \in V /\ run[i + 1] = Turn(m, a, run[i], i + 1)
        <4>1. run[i] \in V /\ run[i + 1] = step[<< run[i], i + 1 >>]
          BY <1>0, <1>8, <3>1, ComputedStep
        <4> QED
          BY <1>3, <3>1, <4>1
      <3>3. RunInv(c, m, a, i, run[i])
        BY <2>2
      <3>4. RunInv(c, m, a, i + 1, run[i + 1])
        BY <3>1, <3>2, <3>3, TurnKeepsRun DEF V
      <3> QED
        BY <3>1, <3>4
    <2> HIDE DEF Good
    <2>3. \A i \in 0..n : i \in Good
      BY <1>0, <2>1, <2>2, InductionUpTo
    <2>4. n \in Good
      BY <1>0, <2>3
    <2> QED
      BY <2>4 DEF Good
  <1> QED
    BY <1>7, <1>9, <1>10 DEF n

\* A message the policy approves, executed on a mint its revocations name,
\* leaves it without authorities, if it has supply.
LEMMA ApprovedIsHarmless ==
  ASSUME NEW m \in MessageType, NEW k, Approve(Encode(m), k),
         NEW a, RevokesWhatItMints(m, a), NEW c \in AcctType, Fixed(c),
         NEW e, e = AfterAll(c, m, a), e.kind # "notmint"
  PROVE  Fixed(e)
  <1> DEFINE ixs   == m.instructions
             v     == View(m)
             kinds == { Kind(v, i) : i \in DOMAIN ixs }
  <1>1. RevokesBoth(kinds)
    <2>1. parseMessage(Encode(m)).val = v
      BY ParsesWritten, ReadFields
    <2>2. DOMAIN v.instructions = DOMAIN ixs
      BY DEF View
    <2> HIDE DEF v
    <2>3. RevokesBoth({ Kind(v, i) : i \in DOMAIN v.instructions })
      BY <2>1 DEF Approve, Kind
    <2> QED
      BY <2>2, <2>3
  <1>2. ixs \in Seq(Instruction) /\ DOMAIN ixs = 1..Len(ixs)
    BY MessageFields, LenProperties
  <1>3. RunInv(c, m, a, Len(ixs), e)
    BY <1>2, AfterAllRuns
  <1>4. ASSUME NEW i \in DOMAIN ixs
        PROVE  /\ Op(m, i) = "mintTo" => Kind(v, i) = "mintTo"
               /\ Kind(v, i) = "revokeMint" => Op(m, i) = "revokeMint"
               /\ Kind(v, i) = "revokeFreeze" => Op(m, i) = "revokeFreeze"
    BY KindsAgree
  <1>5. ~Did(m, DOMAIN ixs, "metadataMint", a)
    BY DEF RevokesWhatItMints, Did, Does
  <1>6. ASSUME Did(m, DOMAIN ixs, "mintTo", a)
        PROVE  Did(m, DOMAIN ixs, "revokeMint", a) /\ Did(m, DOMAIN ixs, "revokeFreeze", a)
    <2>1. PICK j \in DOMAIN ixs : Does(m, j, "mintTo", a)
      BY <1>6 DEF Did
    <2>2. Op(m, j) = "mintTo"
      BY <2>1 DEF Does, DoesTo, Op
    <2>3. "mintTo" \in kinds
      BY <1>4, <2>2
    <2>4. "revokeMint" \in kinds /\ "revokeFreeze" \in kinds
      BY <1>1, <2>3 DEF RevokesBoth
    <2> HIDE DEF v
    <2>5. PICK r \in DOMAIN ixs : Kind(v, r) = "revokeMint"
      BY <2>4, Zenon
    <2>6. PICK f \in DOMAIN ixs : Kind(v, f) = "revokeFreeze"
      BY <2>4, Zenon
    <2>7. Op(m, r) = "revokeMint" /\ Op(m, f) = "revokeFreeze"
      BY <1>4, <2>5, <2>6
    <2>8. \A i \in DOMAIN ixs :
            Op(m, i) \in {"revokeMint", "revokeFreeze"} => Does(m, i, Op(m, i), a)
      BY <2>1 DEF RevokesWhatItMints, Does, Op
    <2> QED
      BY <2>7, <2>8 DEF Did
  <1>7. ASSUME e.supply > 0
        PROVE  e.kind = "mint" /\ e.mintAuth = "none" /\ e.freezeAuth = "none"
    <2>1. c.supply > 0 \/ Did(m, DOMAIN ixs, "mintTo", a)
      BY <1>2, <1>3, <1>5, <1>7 DEF RunInv
    <2>2. c.supply > 0 \/ (/\ Did(m, DOMAIN ixs, "revokeMint", a)
                           /\ Did(m, DOMAIN ixs, "revokeFreeze", a))
      BY <1>6, <2>1
    <2> QED
      BY <1>2, <1>3, <2>2 DEF RunInv
  <1> QED
    BY <1>7 DEF Fixed

-----------------------------------------------------------------------------
(* The chain, and every type.                                              *)

\* A message that was signed for k makes supply of a in a way the policy
\* cannot see through.
Exempt(k, a) == \E m \in SignedBy(k) : ~RevokesWhatItMints(m, a)

\* MintedSupplyIsFixed needs that each signature is one the policy gave for
\* the key it was made with, and that an account with supply is a live mint.
ChainInv ==
  /\ \A s \in signed : << s.payload, s.key >> \in Approved
  /\ \A k \in Keys, a \in Mints : Fixed(mint[k][a]) \/ Exempt(k, a)

ServiceInv == SignerInv /\ TypeOK /\ ChainInv

\* What was signed stays signed.
LEMMA ExemptStays ==
  ASSUME signed \subseteq signed', NEW k, NEW a, Exempt(k, a)
  PROVE  Exempt(k, a)'
  BY DEF Exempt, SignedBy

\* Whatever leaves the chain alone and is approved keeps ChainInv.
LEMMA ChainStutter ==
  ASSUME ChainInv, UNCHANGED mint, signed \subseteq signed',
         \A s \in signed' : << s.payload, s.key >> \in Approved
  PROVE  ChainInv'
  BY ExemptStays DEF ChainInv

\* The files and the seal command keep their types.
LEMMA CustodyTypes == CustodyTypeOK /\ Custody => CustodyTypeOK'
  <1> SUFFICES ASSUME CustodyTypeOK, Custody PROVE CustodyTypeOK'
    OBVIOUS
  <1>1. CASE SealBegin
    <2>1. PICK k \in Keys, p \in Paths, line \in Passphrases :
            \/ /\ disk' = [disk EXCEPT ![p] = Unsealed]
               /\ sealing' = [ step |-> "writing", key |-> k, path |-> p,
                               pass |-> readPassphrase(line) ]
            \/ sealing' = Idle /\ UNCHANGED disk
      BY <1>1 DEF SealBegin
    <2>2. readPassphrase(line) \in Passphrases
      BY DEF readPassphrase, Passphrases
    <2>3. UNCHANGED raw
      BY <1>1 DEF SealBegin
    <2> QED
      BY <2>1, <2>2, <2>3 DEF CustodyTypeOK
  <1>2. CASE SealDone
    <2>1. /\ sealing.step = "writing" /\ UNCHANGED raw
          /\ disk' = [disk EXCEPT ![sealing.path] = Sealed(sealing.key, sealing.pass)]
          /\ sealing' = [ step |-> "done", key |-> sealing.key ]
      BY <1>2 DEF SealDone
    <2>2. sealing.key \in Keys /\ sealing.path \in Paths /\ sealing.pass \in Passphrases
      BY <2>1 DEF CustodyTypeOK, Idle
    <2> QED
      BY <2>1, <2>2 DEF CustodyTypeOK
  <1>3. CASE SealCutShort
    BY <1>3 DEF SealCutShort, CustodyTypeOK
  <1>4. CASE DeleteRaw
    BY <1>4 DEF DeleteRaw, CustodyTypeOK
  <1> QED
    BY <1>1, <1>2, <1>3, <1>4 DEF Custody

\* The signer starts with no key in use and an empty chain.
LEMMA InitService == Init => ServiceInv
  <1> SUFFICES ASSUME Init PROVE ServiceInv
    OBVIOUS
  <1>1. NoAccount \in AcctType /\ Fixed(NoAccount)
    <2>1. 0 \in UInt64
      BY AmountAssumption DEF UInt64
    <2> QED
      BY <2>1 DEF NoAccount, AcctType, AcctKinds, Authority, Fixed
  <1>2. CustodyTypeOK
    BY DEF Init, CustodyInit, CustodyTypeOK
  <1>3. TypeOK
    BY <1>1, <1>2 DEF Init, TypeOK, NoReply
  <1>4. ChainInv
    BY <1>1 DEF Init, ChainInv
  <1> QED
    BY <1>3, <1>4, InitSigner DEF ServiceInv

\* Only Execute touches the chain.
LEMMA ExecuteKeepsChain ==
  ServiceInv /\ Execute =>
    /\ mint' \in [Keys -> [Mints -> AcctType]]
    /\ \A k \in Keys, a \in Mints : Fixed(mint'[k][a]) \/ Exempt(k, a)
  <1> SUFFICES ASSUME ServiceInv, Execute
               PROVE  /\ mint' \in [Keys -> [Mints -> AcctType]]
                      /\ \A k \in Keys, a \in Mints : Fixed(mint'[k][a]) \/ Exempt(k, a)
    OBVIOUS
  <1>1. PICK s \in signed, m \in Messages :
          LET after == [ a \in Mints |-> AfterAll(mint[s.key][a], m, a) ]
          IN  /\ Wire[m] = s.payload
              /\ \A a \in Mints : after[a].kind # "notmint"
              /\ mint' = [mint EXCEPT ![s.key] = after]
    BY DEF Execute
  <1> DEFINE after == [ a \in Mints |-> AfterAll(mint[s.key][a], m, a) ]
  <1>2. /\ s.key \in Keys /\ s.payload \in Payloads
        /\ s = [ key |-> s.key, payload |-> s.payload ]
        /\ << s.payload, s.key >> \in Approved
        /\ mint \in [Keys -> [Mints -> AcctType]]
        /\ \A k \in Keys, a \in Mints : Fixed(mint[k][a]) \/ Exempt(k, a)
    BY DEF ServiceInv, TypeOK, ChainInv
  <1>3. m \in MessageType /\ Encode(m) = s.payload /\ Approve(Encode(m), s.key)
    <2>1. m \in MessageType /\ Encode(m) = s.payload
      BY <1>1, SignerAssumption DEF Wire
    <2> QED
      BY <1>2, <2>1 DEF Approved
  <1>4. m.instructions \in Seq(Instruction)
    BY <1>3, MessageFields
  <1>5. ASSUME NEW a \in Mints
        PROVE  /\ after[a] \in AcctType
               /\ Fixed(after[a]) \/ Exempt(s.key, a)
    <2>1. mint[s.key][a] \in AcctType /\ after[a] = AfterAll(mint[s.key][a], m, a)
      BY <1>2
    <2>2. after[a] \in AcctType /\ after[a].kind # "notmint"
      BY <1>1, <1>4, <2>1, AfterAllRuns
    <2>3. CASE Fixed(mint[s.key][a]) /\ RevokesWhatItMints(m, a)
      <3> HIDE DEF after
      <3>1. Fixed(after[a])
        BY <1>3, <2>1, <2>2, <2>3, ApprovedIsHarmless
      <3> QED
        BY <2>2, <3>1
    <2>4. CASE ~RevokesWhatItMints(m, a)
      <3>1. m \in SignedBy(s.key)
        BY <1>1, <1>2 DEF SignedBy
      <3> QED
        BY <2>2, <2>4, <3>1 DEF Exempt
    <2> QED
      BY <1>2, <2>2, <2>3, <2>4
  <1>6. mint' = [mint EXCEPT ![s.key] = after] /\ after = [a \in Mints |-> after[a]]
    BY <1>1
  <1> HIDE DEF after
  <1>7. after \in [Mints -> AcctType]
    BY <1>5, <1>6
  <1>8. ASSUME NEW k \in Keys, NEW a \in Mints
        PROVE  Fixed(mint'[k][a]) \/ Exempt(k, a)
    <2>1. CASE k = s.key
      BY <1>2, <1>5, <1>6, <2>1
    <2>2. CASE k # s.key
      BY <1>2, <1>6, <2>2
    <2> QED
      BY <2>1, <2>2
  <1> QED
    BY <1>2, <1>6, <1>7, <1>8

\* Every step of the signer, the host, the operator and the cluster keeps the
\* invariant.
LEMMA NextService == ServiceInv /\ [Next]_vars => ServiceInv'
  <1> SUFFICES ASSUME ServiceInv, [Next]_vars PROVE ServiceInv'
    OBVIOUS
  <1> USE DEF ServiceInv
  <1>0. SignerInv'
    BY NextSigner
  <1> DEFINE settled == UNCHANGED signed /\ UNCHANGED mint
  <1>s. settled => ChainInv'
    BY ChainStutter DEF ChainInv
  <1>1. CASE Unlock
    <2>1. UNCHANGED << custody, flag, signed, mint >>
      BY <1>1 DEF Unlock
    <2>2. PICK pass \in Passphrases, p \in Paths \cup {NoPath} :
            \/ \E k \in open(pass, p) :
                 /\ payer' = k /\ key' = k /\ told' = k
                 /\ reply' = Answer("public", k, << >>)
            \/ reply' = Refusal /\ UNCHANGED << payer, key, told >>
      BY <1>1 DEF Unlock, BindKey, vaultSet
    <2>3. open(pass, p) \subseteq Keys
      BY DEF open, OpenEd25519Key
    <2>4. /\ {key', payer', told'} \subseteq Keys \cup {NoKey}
          /\ reply'.kind \in {"none", "public", "signature", "error"}
      BY <2>2, <2>3 DEF TypeOK, Answer, Refusal
    <2>5. TypeOK'
      BY <2>1, <2>4 DEF TypeOK, CustodyTypeOK, custody
    <2>6. ChainInv'
      BY <2>1, <1>s
    <2> QED
      BY <1>0, <2>5, <2>6
  <1>2. CASE Sign
    <2>1. UNCHANGED << custody, process, told, mint >>
      BY <1>2 DEF Sign
    <2>2. PICK payload \in Payloads :
            \/ /\ reply' = Refusal \/ reply' = Answer("error", key, payload)
               /\ UNCHANGED signed
            \/ /\ key # NoKey /\ << payload, payer >> \in Approved
               /\ signed' = signed \cup {[ key |-> key, payload |-> payload ]}
               /\ reply' = Answer("signature", key, << >>)
      BY <1>2 DEF Sign
    <2>3. key # NoKey => payer = key /\ key \in Keys
      BY DEF SignerInv, VaultInv, TypeOK
    <2>4. /\ signed \subseteq signed'
          /\ signed' \subseteq [ key : Keys, payload : Payloads ]
          /\ \A s \in signed' : << s.payload, s.key >> \in Approved
      BY <2>2, <2>3 DEF TypeOK, ChainInv
    <2>5. reply'.kind \in {"none", "public", "signature", "error"}
      BY <2>2 DEF Answer, Refusal
    <2>6. TypeOK'
      BY <2>1, <2>4, <2>5 DEF TypeOK, CustodyTypeOK, custody, process
    <2>7. ChainInv'
      BY <2>1, <2>4, ChainStutter
    <2> QED
      BY <1>0, <2>6, <2>7
  <1>3. CASE BadRequest
    <2>1. TypeOK'
      BY <1>3 DEF BadRequest, Refusal, TypeOK, CustodyTypeOK, custody, process
    <2>2. ChainInv'
      BY <1>3, <1>s DEF BadRequest
    <2> QED
      BY <1>0, <2>1, <2>2
  <1>4. CASE Restart
    <2>1. TypeOK'
      BY <1>4 DEF Restart, NoReply, TypeOK, CustodyTypeOK, custody
    <2>2. ChainInv'
      BY <1>4, <1>s DEF Restart
    <2> QED
      BY <1>0, <2>1, <2>2
  <1>5. CASE Custody /\ UNCHANGED << process, told, reply, signed, mint >>
    <2>1. CustodyTypeOK'
      BY <1>5, CustodyTypes DEF TypeOK
    <2>2. TypeOK'
      BY <1>5, <2>1 DEF TypeOK, process
    <2>3. ChainInv'
      BY <1>5, <1>s
    <2> QED
      BY <1>0, <2>2, <2>3
  <1>6. CASE Execute
    <2>1. UNCHANGED << custody, process, told, reply, signed >>
      BY <1>6 DEF Execute
    <2>2. /\ mint' \in [Keys -> [Mints -> AcctType]]
          /\ \A k \in Keys, a \in Mints : Fixed(mint'[k][a]) \/ Exempt(k, a)
      BY <1>6, ExecuteKeepsChain
    <2>3. TypeOK'
      BY <2>1, <2>2 DEF TypeOK, CustodyTypeOK, custody, process
    <2>4. ChainInv'
      BY <2>1, <2>2, ExemptStays DEF ChainInv
    <2> QED
      BY <1>0, <2>3, <2>4
  <1>7. CASE UNCHANGED vars
    <2>1. TypeOK'
      BY <1>7 DEF vars, TypeOK, CustodyTypeOK, custody, process
    <2>2. ChainInv'
      BY <1>7, <1>s DEF vars
    <2> QED
      BY <1>0, <2>1, <2>2
  <1> QED
    BY <1>1, <1>2, <1>3, <1>4, <1>5, <1>6, <1>7 DEF Next, Process

\* The strengthening the theorems below follow from.
THEOREM ServiceInvariant == Spec => []ServiceInv
  <1> QED
    BY InitService, NextService, PTL DEF Spec

\* Every variable of the signer, its key files and the chain keeps its type.
THEOREM TypeCorrect == Spec => []TypeOK
  <1>1. ServiceInv => TypeOK
    BY DEF ServiceInv
  <1> QED
    BY <1>1, ServiceInvariant, PTL

\* Of each token: if the revocations of the messages that mint it name it, then
\* whatever else hosts have signed and in whichever order the cluster executes
\* it, the token never has supply together with an authority.
THEOREM SupplyStaysFixed == Spec => []MintedSupplyIsFixed
  <1>1. ServiceInv => MintedSupplyIsFixed
    <2> SUFFICES ASSUME ServiceInv, NEW k \in Keys, NEW a \in Mints
                 PROVE  FixedSupply(mint[k][a]) \/ Exempt(k, a)
      BY DEF MintedSupplyIsFixed, Exempt
    <2> QED
      BY DEF ServiceInv, ChainInv, Fixed, FixedSupply
  <1> QED
    BY <1>1, ServiceInvariant, PTL

-----------------------------------------------------------------------------
(* What the signer is for.                                                 *)

\* The five instructions of buildMint, as the policy names them, are a mint
\* that gives up both authorities.
LEMMA EngineMintKinds ==
  ASSUME NEW m \in MessageType, NEW k, IsEngineMint(m, k), NEW v, v = View(m)
  PROVE  /\ DOMAIN v.instructions = 1..5
         /\ Kind(v, 1) = "other" /\ Kind(v, 2) = "other"
         /\ Kind(v, 3) = "mintTo"
         /\ Kind(v, 4) = "revokeFreeze" /\ Kind(v, 5) = "revokeMint"
  <1> DEFINE prog(i) == programOf(m, m.instructions[i])
             data(i) == m.instructions[i].data
             ix(i)   == v.instructions[i]
  <1>1. /\ Len(m.instructions) = 5
        /\ prog(1) = metadataProgram /\ prog(2) = ataProgram
        /\ \A i \in 3..5 : prog(i) = tokenProgram
        /\ Len(data(3)) >= 1 /\ data(3)[1] = splMintTo
        /\ Len(data(4)) >= 3 /\ SubSeq(data(4), 1, 3) = << splSetAuthority, 1, 0 >>
        /\ Len(data(5)) >= 3 /\ SubSeq(data(5), 1, 3) = << splSetAuthority, 0, 0 >>
    BY DEF IsEngineMint, Revokes, splMintTo, splSetAuthority
  <1>2. DOMAIN m.instructions = 1..5 /\ DOMAIN v.instructions = 1..5
    <2>1. DOMAIN m.instructions = 1..5
      BY <1>1, MessageFields, LenProperties
    <2>2. DOMAIN v.instructions = DOMAIN m.instructions
      BY DEF View
    <2> QED
      BY <2>1, <2>2
  <1>3. ASSUME NEW i \in 1..5
        PROVE  /\ programOf(v, ix(i)) = prog(i)
               /\ ix(i).data = data(i) /\ data(i) \in Seq(Byte)
    BY <1>2, <1>3, SeesPrograms
  <1> HIDE DEF prog, data, ix
  <1>4. ASSUME NEW i \in 1..5, prog(i) \in {ataProgram, metadataProgram}
        PROVE  instructionKind(v, ix(i)) = "other"
    BY <1>3, <1>4, KindByProgram
  <1>5. ASSUME NEW i \in 1..5, prog(i) = tokenProgram
        PROVE  instructionKind(v, ix(i)) = approveToken(data(i))
    BY <1>3, <1>5, KindByProgram
  <1>6. 1 \in 1..5 /\ 2 \in 1..5 /\ 3 \in 1..5 /\ 4 \in 1..5 /\ 5 \in 1..5
        /\ 3 \in 3..5 /\ 4 \in 3..5 /\ 5 \in 3..5
    OBVIOUS
  <1>7. /\ instructionKind(v, ix(1)) = "other"
        /\ instructionKind(v, ix(2)) = "other"
    BY <1>1, <1>4, <1>6
  <1>8. /\ instructionKind(v, ix(3)) = approveToken(data(3))
        /\ instructionKind(v, ix(4)) = approveToken(data(4))
        /\ instructionKind(v, ix(5)) = approveToken(data(5))
    BY <1>1, <1>5, <1>6
  <1>9. data(3) \in Seq(Byte) /\ data(4) \in Seq(Byte) /\ data(5) \in Seq(Byte)
    BY <1>3, <1>6
  <1>10. /\ approveToken(data(3)) = "mintTo"
         /\ approveToken(data(4)) = "revokeFreeze"
         /\ approveToken(data(5)) = "revokeMint"
    BY <1>1, <1>9, TokenKinds, Zenon
  <1> QED
    BY <1>2, <1>7, <1>8, <1>10, Zenon DEF Kind, ix

\* The policy approves every mint of the engine for the key that pays for it:
\* the parser reads it, whatever the token is called and however much of it
\* there is, and every rule lets it pass.
LEMMA EngineMintApproved ==
  ASSUME NEW m \in MessageType, NEW k, IsEngineMint(m, k)
  PROVE  Approve(Encode(m), k) /\ Len(Encode(m)) >= 1
  <1> DEFINE b     == Encode(m)
             r     == parseMessage(b)
             v     == View(m)
             kinds == { Kind(v, i) : i \in DOMAIN v.instructions }
  <1>1. b \in Seq(Byte) /\ r = Read(Len(b), v)
    BY ParsesWritten
  <1>2. r.ok /\ r.val = v
    BY <1>1, ReadFields
  <1>3. Len(v.accounts) > 0 /\ v.accounts[1] = k
    BY DEF View, IsEngineMint
  <1>4. /\ DOMAIN v.instructions = 1..5
        /\ Kind(v, 1) = "other" /\ Kind(v, 2) = "other" /\ Kind(v, 3) = "mintTo"
        /\ Kind(v, 4) = "revokeFreeze" /\ Kind(v, 5) = "revokeMint"
    BY EngineMintKinds
  <1>5. Len(b) >= 1
    <2>1. Len(b) # 0
      <3>1. r.ok => Len(b) # 0
        BY DEF parseMessage, Failed
      <3> QED
        BY <1>2, <3>1
    <2>2. Len(b) \in Nat
      BY <1>1, LenProperties
    <2> QED
      BY <2>1, <2>2
  <1> HIDE DEF v, b
  <1>6. kinds = {"other", "mintTo", "revokeFreeze", "revokeMint"}
    <2>1. \A i \in 1..5 : i = 1 \/ i = 2 \/ i = 3 \/ i = 4 \/ i = 5
      OBVIOUS
    <2>2. 1 \in 1..5 /\ 3 \in 1..5 /\ 4 \in 1..5 /\ 5 \in 1..5
      OBVIOUS
    <2> QED
      BY <1>4, <2>1, <2>2
  <1> HIDE DEF kinds
  <1>7. "refused" \notin kinds /\ RevokesBoth(kinds)
    BY <1>6 DEF RevokesBoth
  <1>8. kinds = { instructionKind(v, v.instructions[i]) : i \in DOMAIN v.instructions }
    BY DEF kinds, Kind
  <1> HIDE DEF r
  <1>9. kinds = { instructionKind(r.val, r.val.instructions[i]) :
                    i \in DOMAIN r.val.instructions }
    BY <1>2, <1>8, Zenon
  <1>10. Approve(b, k) <=>
           r.ok /\ Len(r.val.accounts) > 0 /\ r.val.accounts[1] = k
             /\ "refused" \notin kinds /\ RevokesBoth(kinds)
    BY <1>9, Zenon DEF Approve, r
  <1>11. Approve(b, k)
    BY <1>2, <1>3, <1>7, <1>10
  <1> QED
    BY <1>5, <1>11 DEF b

\* A key is not the empty one a locked vault holds.
LEMMA KeyIsKey == ASSUME NEW k \in Keys PROVE k # NoKey
  <1>1. k \in [1..AddrLen -> 0..255] /\ 1 \in 1..AddrLen
    BY SignerAssumption, AddrAssumption
  <1>2. 1 \in DOMAIN k
    BY <1>1
  <1>3. 1 \notin DOMAIN << >>
    OBVIOUS
  <1> QED
    BY <1>2, <1>3, Zenon DEF NoKey

\* A mint of the engine that fits is in the table for its key, so signer_sign
\* cannot refuse it to that key.
LEMMA EngineMintPasses ==
  ASSUME NEW k \in Keys, NEW m \in EngineMints[k], Encode(m) \in Payloads,
         Len(Encode(m)) <= maxPayloadBytes
  PROVE  /\ << Encode(m), k >> \in Approved
         /\ Len(Encode(m)) \in 1..maxPayloadBytes
  <1>1. m \in MessageType /\ IsEngineMint(m, k) /\ maxPayloadBytes \in Nat
    BY SignerAssumption
  <1>2. Approve(Encode(m), k) /\ Len(Encode(m)) >= 1
    BY <1>1, EngineMintApproved
  <1>3. Len(Encode(m)) \in Nat
    BY <1>1, ParsesWritten, LenProperties
  <1>4. Len(Encode(m)) \in 1..maxPayloadBytes
    BY <1>1, <1>2, <1>3
  <1> QED
    BY <1>2, <1>4 DEF Approved

\* An answer that is not an error about a payload refuses no mint.
LEMMA OtherReplies ==
  ASSUME NEW k \in Keys, NEW p
  PROVE  /\ NoReply # Answer("error", k, p)
         /\ Refusal # Answer("error", k, p)
         /\ \A j, q : Answer("public", j, q) # Answer("error", k, p)
         /\ \A j, q : Answer("signature", j, q) # Answer("error", k, p)
         /\ \A j, q : Answer("error", j, q) = Answer("error", k, p) => j = k /\ q = p
  BY KeyIsKey DEF NoReply, Refusal, Answer

\* Nothing refuses a mint but signer_sign, and it does not refuse this one:
\* the vault's key is the policy's payer, however the key came to be unlocked.
LEMMA NextEngineMint ==
  SignerInv /\ EngineMintIsSigned /\ [Next]_vars => EngineMintIsSigned'
  <1> SUFFICES ASSUME SignerInv, EngineMintIsSigned, [Next]_vars,
                      NEW k \in Keys, NEW p \in EnginePayloads[k],
                      Len(p) <= maxPayloadBytes,
                      reply' = Answer("error", k, p)
               PROVE  FALSE
    BY DEF EngineMintIsSigned
  <1>0. PICK m \in EngineMints[k] : p = Encode(m)
    BY DEF EnginePayloads
  <1>1. reply # Answer("error", k, p)
    BY DEF EngineMintIsSigned
  <1>2. CASE Unlock
    <2>1. \/ \E j : reply' = Answer("public", j, << >>)
          \/ reply' = Refusal
      BY <1>2 DEF Unlock
    <2> QED
      BY <2>1, OtherReplies
  <1>3. CASE Sign
    <2>1. PICK payload \in Payloads :
            \/ reply' = Refusal \/ reply' = Answer("signature", key, << >>)
            \/ /\ \/ Len(payload) \notin 1..maxPayloadBytes
                  \/ << payload, payer >> \notin Approved
               /\ reply' = Answer("error", key, payload)
      BY <1>3 DEF Sign
    <2>2. key = k /\ payload = p
      BY <2>1, OtherReplies
    <2>3. key # NoKey /\ payer = key
      BY <2>2, KeyIsKey DEF SignerInv, VaultInv
    <2>4. << payload, payer >> \in Approved /\ Len(payload) \in 1..maxPayloadBytes
      BY <1>0, <2>1, <2>2, <2>3, EngineMintPasses
    <2> QED
      BY <2>1, <2>3, <2>4, OtherReplies
  <1>4. CASE BadRequest
    BY <1>4, OtherReplies DEF BadRequest
  <1>5. CASE Restart
    BY <1>5, OtherReplies DEF Restart
  <1>6. CASE \/ Custody /\ UNCHANGED << process, told, reply, signed, mint >>
             \/ Execute \/ UNCHANGED vars
    <2>1. UNCHANGED reply
      BY <1>6 DEF Execute, vars
    <2> QED
      BY <1>1, <2>1
  <1> QED
    BY <1>2, <1>3, <1>4, <1>5, <1>6 DEF Next, Process

\* The mint the engine builds for a key is never refused while that key is
\* unlocked, whichever keys were unlocked before and whatever else was asked.
THEOREM EngineMintsAreSigned == Spec => []EngineMintIsSigned
  <1>1. Init => EngineMintIsSigned
    BY OtherReplies DEF Init, EngineMintIsSigned
  <1> QED
    BY <1>1, NextEngineMint, KeysAgree, PTL DEF Spec
=============================================================================
