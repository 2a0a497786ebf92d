------------------------------ MODULE SealedKey ------------------------------
(***************************************************************************)
(* The custody of keys at rest: `solana-signer seal` and the key file of   *)
(* signer/key.go.  A path holds a key sealed under a passphrase, or what   *)
(* no passphrase opens: no file, a raw key, another version, a write that  *)
(* was cut short.  The cryptography is that only the very passphrase opens *)
(* the file.                                                               *)
(*                                                                         *)
(* The operator is part of it: he seals a raw key, and deletes it once the *)
(* command tells him to.                                                   *)
(***************************************************************************)
EXTENDS FiniteSets

CONSTANTS
  Keys,   \* the operator's keys, as their public halves
  Paths,  \* places for sealed files
  Texts   \* what a passphrase is without its line end; may hold ""

VARIABLES
  disk,    \* the file at each path
  raw,     \* the keys whose raw file still exists
  sealing  \* the seal command: its arguments and how far it got

custody == << disk, raw, sealing >>

\* A passphrase as bytes: the text, and whether a line end follows it.
Passphrases  == [ text : Texts, eol : BOOLEAN ]
NoPassphrase == [ text |-> "", eol |-> FALSE ]

Unsealed        == [ kind |-> "unsealed" ]
Sealed(k, pass) == [ kind |-> "sealed", key |-> k, pass |-> pass ]

NoPath == "none"
Idle   == [ step |-> "idle" ]

CustodyInit ==
  /\ disk = [p \in Paths |-> Unsealed]
  /\ raw = Keys
  /\ sealing = Idle

-----------------------------------------------------------------------------
\* Mutant: the line as it was read.
readPassphraseWhole(line) == line

\* readPassphrase: a terminal gives the text, a pipe a line, whose end is cut.
readPassphrase(line) == [line EXCEPT !.eol = FALSE]

\* The operator does not choose a path that holds another key.  The command
\* would not notice: it overwrites whatever is there.
OperatorChooses(p, k) == disk[p].kind = "sealed" => disk[p].key = k

\* seal up to the moment SealEd25519Key opens its file, which empties it.  A
\* bad raw key or an empty passphrase ends it before.
SealBegin ==
  /\ sealing.step # "writing"
  /\ \E k \in Keys, p \in Paths, line \in Passphrases :
       LET pass == readPassphrase(line)
       IN  /\ OperatorChooses(p, k)
           /\ \/ /\ k \in raw /\ pass # NoPassphrase
                 /\ disk' = [disk EXCEPT ![p] = Unsealed]
                 /\ sealing' = [ step |-> "writing", key |-> k, path |-> p,
                                 pass |-> pass ]
              \/ /\ k \notin raw \/ pass = NoPassphrase
                 /\ sealing' = Idle
                 /\ UNCHANGED disk
  /\ UNCHANGED raw

\* The file is written, and the operator is told to delete the raw key.
SealDone ==
  /\ sealing.step = "writing"
  /\ disk' = [disk EXCEPT ![sealing.path] = Sealed(sealing.key, sealing.pass)]
  /\ sealing' = [ step |-> "done", key |-> sealing.key ]
  /\ UNCHANGED raw

\* Mutant: an error of the write is not looked at.
SealCutShortUnnoticed ==
  /\ sealing.step = "writing"
  /\ sealing' = [ step |-> "done", key |-> sealing.key ]
  /\ UNCHANGED << disk, raw >>

\* The write fails or the command is killed: part of a file stays.
SealCutShort ==
  /\ sealing.step = "writing"
  /\ sealing' = Idle
  /\ UNCHANGED << disk, raw >>

\* The operator follows the command's last line.
DeleteRaw ==
  /\ sealing.step = "done"
  /\ raw' = raw \ {sealing.key}
  /\ sealing' = Idle
  /\ UNCHANGED disk

Custody == SealBegin \/ SealDone \/ SealCutShort \/ DeleteRaw

-----------------------------------------------------------------------------
\* OpenEd25519Key: the set of keys (one or none) the file opens to.
OpenEd25519Key(path, pass) ==
  { k \in Keys : pass # NoPassphrase /\ disk[path] = Sealed(k, pass) }

\* A key is always in the operator's hands: its raw file exists, or a sealed
\* file opens to it under a passphrase without a line end, as hosts send it.
\* The file is written in place and a command may die at any point of it.
KeyRecoverable ==
  \A k \in Keys :
    k \in raw \/ \E p \in Paths, t \in Texts :
                   k \in OpenEd25519Key(p, [ text |-> t, eol |-> FALSE ])

CustodyTypeOK ==
  /\ disk \in [Paths -> {Unsealed}
                          \cup { Sealed(k, pass) : k \in Keys, pass \in Passphrases }]
  /\ raw \subseteq Keys
  /\ sealing \in {Idle} \cup [ step : {"done"}, key : Keys ]
                  \cup [ step : {"writing"}, key : Keys, path : Paths,
                         pass : Passphrases ]
=============================================================================
