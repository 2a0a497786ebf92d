---------------------------- MODULE MintPromise ----------------------------
(***************************************************************************)
(* What Engine.Mint promises its caller, whatever the network does.  The   *)
(* token is absent from the chain, tentative or final; Mint has not        *)
(* answered yet or has given its one answer:                               *)
(*                                                                         *)
(*   "success"  the token is final, and a final token stays final;         *)
(*   "nothing"  no address was returned: the token is not on the chain and *)
(*              never will be, so asking again cannot mint it twice;       *)
(*   "address"  an error with the mint address: the caller has to look.    *)
(***************************************************************************)
VARIABLES chain, answer

Init ==
  /\ chain = "absent"
  /\ answer = "pending"

Land ==
  /\ chain = "absent" /\ answer # "nothing"
  /\ chain' = "tentative"
  /\ UNCHANGED answer

Drop ==
  /\ chain = "tentative"
  /\ chain' = "absent"
  /\ UNCHANGED answer

Settle ==
  /\ chain = "tentative"
  /\ chain' = "final"
  /\ UNCHANGED answer

Answer(a) ==
  /\ answer = "pending"
  /\ a = "success" => chain = "final"
  /\ a = "nothing" => chain = "absent"
  /\ answer' = a
  /\ UNCHANGED chain

Next ==
  \/ Land \/ Drop \/ Settle
  \/ \E a \in {"success", "nothing", "address"} : Answer(a)

\* Safety only; that Mint answers at all is Terminates of MintEngine.
Spec == Init /\ [][Next]_<< chain, answer >>
=============================================================================
