---------------------------- MODULE ParkedSession ----------------------------
(***************************************************************************)
(* A session as the tool handlers of cmd/token see it: whose turn it is,   *)
(* and which host call it is parked on.  This is what TokenService builds  *)
(* on, and what HostSession implements with two goroutines, three channels *)
(* and three contexts.                                                     *)
(***************************************************************************)
EXTENDS MintLifecycle

CONSTANT Starts  \* which lifecycles: "start" (mint), "startVerify"

VARIABLES
  parked,  \* the call the host was given last; "done" with the outcome
  ok,      \* whether the host answered it with a result
  turn,    \* who moves: "host", "engine"; or "stuck", "closed" for ever
  stale,   \* the lifecycle has given up that call
  late     \* the host may answer after a deadline

sessionVars == << parked, ok, turn, stale, late >>

Init ==
  /\ parked \in Starts /\ ok = TRUE
  /\ turn = "engine" /\ stale = FALSE
  /\ late \in BOOLEAN

\* StartMint, StartVerify or Advance returns.
Park ==
  /\ turn = "engine"
  /\ parked' \in NextPark(parked, ok, late)
  /\ ok' = TRUE
  /\ turn' = "host"
  /\ UNCHANGED << stale, late >>

\* The host's answer reaches the lifecycle.
Answer ==
  /\ turn = "host" /\ parked # "done" /\ ~stale
  /\ ok' \in BOOLEAN
  /\ turn' = "engine"
  /\ UNCHANGED << parked, stale, late >>

\* A deadline passes before it does, perhaps while it is being sent.
GiveUp ==
  /\ turn = "host" /\ parked \in Skippable /\ ~stale /\ late
  /\ stale' = TRUE
  /\ turn' \in {"host", "stuck"}
  /\ UNCHANGED << parked, ok, late >>

\* The answer to a call that was given up keeps Advance for ever.
LateAnswer ==
  /\ turn = "host" /\ stale
  /\ turn' = "stuck"
  /\ UNCHANGED << parked, ok, stale, late >>

Abandon ==
  /\ turn = "host"
  /\ turn' = "closed" /\ stale' = FALSE
  /\ UNCHANGED << parked, ok, late >>

Spec ==
  Init /\ [][Park \/ Answer \/ GiveUp \/ LateAnswer \/ Abandon]_sessionVars
=============================================================================
