---------------------------- MODULE MintLifecycle ----------------------------
(***************************************************************************)
(* The control skeleton of the two lifecycles a session runs: Engine.Mint  *)
(* and Engine.Verify.  A SITE is a place where the lifecycle waits for     *)
(* something outside itself: a JSON-RPC call or a payer signature, both    *)
(* answered by the host, or one poll interval of confirmOrExpire.  All the *)
(* code between two sites is local, so a lifecycle is described by where   *)
(* it may go from each site when the site is answered and when it fails.   *)
(*                                                                         *)
(* HostSession drives this skeleton through the channels of a session;     *)
(* MintEngine is shown to follow it (property FollowsLifecycle).           *)
(***************************************************************************)

\* Sites whose context is the one the session cancels on Close.
SessionSites == {"genesis", "treasury", "read"}

\* Sites under opCtx, the context bounded by lifecycleBudget.
OpSites == {"blockhash", "sign", "submit", "poll", "status", "height",
            "recheck", "verify"}

\* Sites under checkCtx: detached from Close, bounded by cleanupBudget.
CheckSites == {"resolve"}

Sites == SessionSites \cup OpSites \cup CheckSites

\* The sites that are a call handed to the host; "poll" only waits on a timer.
HostCalls == Sites \ {"poll"}

\* Mutant: send goes on to sign although no blockhash was read.
SuccIgnoringBlockhashError(site, ok) ==
  CASE site = "start"     -> {"genesis", "treasury", "done"}
    [] site = "startVerify" -> {"read"}
    [] site = "genesis"   -> {"treasury", "done"}
    [] site = "treasury"  -> IF ok THEN {"blockhash", "done"} ELSE {"done"}
    [] site = "blockhash" -> {"sign"}
    [] site = "sign"      -> IF ok THEN {"submit"} ELSE {"resolve"}
    [] site = "submit"    -> {"poll"}
    [] site = "poll"      -> IF ok THEN {"status"} ELSE {"resolve"}
    [] site \in {"status", "height", "recheck"} -> {"poll"}
    [] OTHER              -> {"done"}

\* Where the lifecycle may be after `site` was answered (ok) or failed (~ok).
\* "treasury": an absent account is an answer (errors.Is ErrNotFound).
\* "submit":   a submit error is not terminal, the signature is watched.
\* "status", "height", "recheck": an unreadable answer only polls again.
Succ(site, ok) ==
  CASE site = "start"     -> {"genesis", "treasury", "done"}
    [] site = "startVerify" -> {"read"}
    [] site = "genesis"   -> {"treasury", "done"}
    [] site = "treasury"  -> IF ok THEN {"blockhash", "done"} ELSE {"done"}
    [] site = "blockhash" -> IF ok THEN {"sign"} ELSE {"resolve"}
    [] site = "sign"      -> IF ok THEN {"submit"} ELSE {"resolve"}
    [] site = "submit"    -> {"poll"}
    [] site = "poll"      -> IF ok THEN {"status"} ELSE {"resolve"}
    [] site = "status"    -> IF ok THEN {"poll", "verify", "resolve", "height"}
                                   ELSE {"poll"}
    [] site = "height"    -> IF ok THEN {"poll", "recheck"} ELSE {"poll"}
    [] site = "recheck"   -> IF ok THEN {"poll", "done"} ELSE {"poll"}
    [] site \in {"verify", "resolve", "read"} -> {"done"}
    [] OTHER              -> {}

-----------------------------------------------------------------------------
(* From one host call to the next.                                         *)

\* Mutant: the poll interval is taken for a host call.
NextParkPolls(site, ok, late) == Succ(site, ok)

\* The sites a deadline can end before the host is given their call.
Skippable == (OpSites \cup CheckSites) \ {"sign"}

\* Where else a lifecycle at a site of S may be once its poll interval ended or,
\* if a host may be late, it gave up a call nobody took.
Onward(S, late) ==
  S \cup (IF "poll" \in S THEN UNION { Succ("poll", b) : b \in BOOLEAN } ELSE {})
    \cup (IF late THEN UNION { Succ(s, FALSE) : s \in S \cap Skippable } ELSE {})

\* Where a lifecycle may be before the host sees anything of it again.  No path
\* is longer than from "sign" over "submit", "poll" and "resolve" to the end.
Unseen(site, ok, late) ==
  Onward(Onward(Onward(Succ(site, ok), late), late), late)

\* The host calls, or the end, a lifecycle can show its driver next once the
\* call at `site` is answered.
NextPark(site, ok, late) == Unseen(site, ok, late) \ {"poll"}
=============================================================================
