----------------------------- MODULE HostSession -----------------------------
(***************************************************************************)
(* One session of token/session.go with the transport of token/hostrpc.go: *)
(* a lifecycle goroutine and the driver that answers its host calls, and   *)
(* the three channels between them.  reqCh and repCh are unbuffered, so a  *)
(* send and its receive are one step; doneCh has room for one outcome.     *)
(*                                                                         *)
(* The lifecycle is the skeleton of MintLifecycle.  Three clocks run       *)
(* beside it: Close cancels the session context, lifecycleBudget ends      *)
(* opCtx and cleanupBudget ends checkCtx.                                  *)
(***************************************************************************)
EXTENDS Integers, MintLifecycle

CONSTANTS
  Starts,         \* which lifecycles: "start" (mint), "startVerify"
  IdSpace,        \* bound: host calls are numbered modulo IdSpace
  Lateness,       \* hosts: may their answers outlast a budget? both kinds
  MayClose        \* the driver may abandon the session

ASSUME SessionAssumption ==
  /\ Starts \subseteq {"start", "startVerify"}
  /\ IdSpace \in Nat \ {0}
  /\ Lateness \subseteq BOOLEAN
  /\ MayClose \in BOOLEAN

VARIABLES
  site,       \* the site the goroutine is at, or last left
  gor,        \* what the goroutine is doing
  ok,         \* whether the site was answered, while gor = "run"
  call,       \* the number of the newest host call
  drv,        \* what the driver is doing
  pending,    \* s.pending: the number of that call, or NoCall
  reply,      \* the HostReply a sender on repCh holds, or NoReply
  doneCh,     \* the buffer of doneCh is full
  outcome,    \* s.outcome is set
  cancelled,  \* the session context is cancelled
  opExpired,  \* the deadline of opCtx passed
  checkExpired,  \* the deadline of checkCtx passed
  late,       \* the host may answer after a deadline; fixed at the start
  asked       \* history: the last call the host was given, how it answered

lifecycle == << site, gor, ok, call >>
driver    == << drv, pending, outcome >>
contexts  == << cancelled, opExpired, checkExpired, late >>
vars      == << lifecycle, driver, reply, doneCh, contexts, asked >>

CallIds == 0..(IdSpace - 1)
NoCall  == -1
NoReply == [ call |-> NoCall, ok |-> FALSE ]

\* Is the context of the goroutine's current site done?
CtxDone ==
  \/ site \in SessionSites /\ cancelled
  \/ site \in OpSites      /\ (cancelled \/ opExpired)
  \/ site \in CheckSites   /\ checkExpired

\* startMint and startVerify: the goroutine is launched, and the caller parks.
Init ==
  /\ site \in Starts /\ gor = "run" /\ ok = TRUE /\ call = 0
  /\ drv = "park" /\ pending = NoCall /\ outcome = FALSE
  /\ reply = NoReply /\ doneCh = FALSE
  /\ cancelled = FALSE /\ opExpired = FALSE /\ checkExpired = FALSE
  /\ late \in Lateness
  /\ asked = [ site |-> site, ok |-> TRUE ]

-----------------------------------------------------------------------------
(* The goroutine.                                                          *)

\* Mutant: the request counter is never brought back into range.
NextCallUnmasked(c) == c + 1

\* hostRPC numbers its requests and masks the number.
NextCall(c) == (c + 1) % IdSpace

\* Mutant: doneCh has no buffer, the goroutine must find its driver parked.
StepUnbuffered ==
  /\ gor = "run"
  /\ \E s \in Succ(site, ok) :
       /\ site' = s
       /\ gor'    = (CASE s = "done" -> "exited" [] s = "poll" -> "wait"
                       [] OTHER -> "offer")
       /\ call'   = (IF s \in HostCalls THEN NextCall(call) ELSE call)
       /\ doneCh' = (s = "done")
       /\ s = "done" => drv = "park"
  /\ UNCHANGED << ok, driver, reply, contexts, asked >>

\* The code from one site to the next; the end is the send on doneCh.
Step ==
  /\ gor = "run"
  /\ \E s \in Succ(site, ok) :
       /\ site' = s
       /\ gor'    = (CASE s = "done" -> "exited" [] s = "poll" -> "wait"
                       [] OTHER -> "offer")
       /\ call'   = (IF s \in HostCalls THEN NextCall(call) ELSE call)
       /\ doneCh' = (s = "done")
  /\ UNCHANGED << ok, driver, reply, contexts, asked >>

\* The site is over, answered or failed, and the goroutine runs on.
Resume(answered) ==
  /\ gor' = "run"
  /\ ok' = answered
  /\ UNCHANGED << site, call, doneCh, contexts >>

\* A poll interval passes, unless opCtx is done first.
Poll ==
  /\ gor = "wait"
  /\ Resume(~CtxDone)
  /\ UNCHANGED << driver, reply, asked >>

\* Mutant: roundTrip stops watching the context once the request is taken.
CtxUnblocksOffer ==
  /\ gor = "offer" /\ site # "sign"
  /\ CtxDone
  /\ Resume(FALSE)
  /\ UNCHANGED << driver, reply, asked >>

\* Mutant: roundTrip gives up whenever no reply is there yet.
CtxUnblocksAnyTime ==
  /\ gor \in {"offer", "await"} /\ site # "sign"
  /\ Resume(FALSE)
  /\ UNCHANGED << driver, reply, asked >>

\* roundTrip returns ctx.Err() from either of its two selects.  Sign has no
\* context: it stays where it is.
CtxUnblocks ==
  /\ gor \in {"offer", "await"} /\ site # "sign"
  /\ CtxDone
  /\ Resume(FALSE)
  /\ UNCHANGED << driver, reply, asked >>

-----------------------------------------------------------------------------
(* The driver.                                                             *)

\* park receives the next host call.
ParkCall ==
  /\ drv = "park" /\ gor = "offer"
  /\ gor' = "await"
  /\ pending' = call
  /\ drv' = "idle"
  /\ asked' = [ site |-> site, ok |-> TRUE ]
  /\ UNCHANGED << site, ok, call, outcome, reply, doneCh, contexts >>

\* Mutant: park only waits for host calls.
ParkNeverDone == FALSE

\* park receives the outcome and cancels the session context.
ParkDone ==
  /\ drv = "park" /\ doneCh
  /\ doneCh' = FALSE
  /\ outcome' = TRUE
  /\ cancelled' = TRUE
  /\ drv' = "idle"
  /\ UNCHANGED << lifecycle, pending, reply, opExpired, checkExpired, late, asked >>

\* Mutant: Advance leaves the send on repCh to another goroutine and parks.
AdvanceAsync ==
  /\ drv = "idle" /\ ~outcome /\ pending # NoCall
  /\ pending' = NoCall
  /\ \E answered \in BOOLEAN : reply' = [ call |-> pending, ok |-> answered ]
  /\ drv' = "park"
  /\ UNCHANGED << lifecycle, outcome, doneCh, contexts, asked >>

\* Mutant: Advance does not clear the call it answers.
AdvanceKeepsPending ==
  /\ drv = "idle" /\ ~outcome /\ pending # NoCall
  /\ UNCHANGED pending
  /\ \E answered \in BOOLEAN : reply' = [ call |-> pending, ok |-> answered ]
  /\ drv' = "deliver"
  /\ UNCHANGED << lifecycle, outcome, doneCh, contexts, asked >>

\* Advance takes the host's answer, a result or an error, and starts to send
\* it.  On a completed session, or with no call pending, it changes nothing.
Advance ==
  /\ drv = "idle" /\ ~outcome /\ pending # NoCall
  /\ pending' = NoCall
  /\ \E answered \in BOOLEAN : reply' = [ call |-> pending, ok |-> answered ]
  /\ drv' = "deliver"
  /\ UNCHANGED << lifecycle, outcome, doneCh, contexts, asked >>

\* The send on repCh meets its receiver, and Advance goes on to park.
Deliver ==
  /\ reply # NoReply /\ gor = "await"
  /\ Resume(reply.ok)
  /\ asked' = [asked EXCEPT !.ok = reply.ok]
  /\ reply' = NoReply
  /\ drv' = (IF drv = "deliver" THEN "park" ELSE drv)
  /\ UNCHANGED << pending, outcome >>

\* Close, by the driver between two Advances; it then leaves the session.
Close ==
  /\ MayClose
  /\ drv = "idle"
  /\ cancelled' = TRUE
  /\ drv' = "closed"
  /\ UNCHANGED << lifecycle, pending, outcome, reply, doneCh, opExpired,
                  checkExpired, late, asked >>

-----------------------------------------------------------------------------
(* The deadlines, and the whole.                                           *)

\* When a deadline may pass: while a call waits for a late host, or for one
\* nobody asks any more; with a prompt host, between two polls.
Overdue == late \/ drv = "closed" \/ gor = "wait"

OpBudget ==
  /\ Overdue
  /\ site \in OpSites /\ ~opExpired
  /\ opExpired' = TRUE
  /\ UNCHANGED << lifecycle, driver, reply, doneCh, cancelled,
                  checkExpired, late, asked >>

CheckBudget ==
  /\ Overdue
  /\ site \in CheckSites /\ ~checkExpired
  /\ checkExpired' = TRUE
  /\ UNCHANGED << lifecycle, driver, reply, doneCh, cancelled,
                  opExpired, late, asked >>

Goroutine == Step \/ Poll \/ CtxUnblocks
Park      == ParkCall \/ ParkDone
Budgets   == OpBudget \/ CheckBudget

\* The goroutine is gone, or its driver is: either may be the end.
Rest == (gor = "exited" \/ drv = "closed") /\ UNCHANGED vars

Next == Goroutine \/ Park \/ Advance \/ Deliver \/ Close \/ Budgets \/ Rest

\* Both goroutines are scheduled, the host answers the call it was given, and
\* deadlines pass: strongly, for a lifecycle that polls has moments in which
\* its deadline cannot pass, but not for ever.  Nobody has to call Close.
Fairness ==
  /\ WF_vars(Goroutine) /\ WF_vars(Park) /\ WF_vars(Deliver)
  /\ WF_vars(Advance)
  /\ SF_vars(Budgets)

Spec == Init /\ [][Next]_vars /\ Fairness

-----------------------------------------------------------------------------
(* Properties.                                                             *)

\* Every variable keeps its type.
TypeOK ==
  /\ site \in Sites \cup {"start", "startVerify", "done"}
  /\ gor \in {"run", "offer", "await", "wait", "exited"}
  /\ ok \in BOOLEAN
  /\ call \in CallIds
  /\ drv \in {"park", "idle", "deliver", "closed"}
  /\ pending \in CallIds \cup {NoCall}
  /\ reply \in [ call : CallIds \cup {NoCall}, ok : BOOLEAN ]
  /\ doneCh \in BOOLEAN /\ outcome \in BOOLEAN
  /\ cancelled \in BOOLEAN /\ opExpired \in BOOLEAN /\ checkExpired \in BOOLEAN
  /\ late \in BOOLEAN
  /\ asked \in [ site : HostCalls \cup {"start", "startVerify"}, ok : BOOLEAN ]

\* A reply is only ever received by the call it answers.  Nothing in the code
\* matches them (the response is read "positionally"), and a call may have
\* been given up and another made since the host was asked.
ReplyAnswersItsCall == reply # NoReply /\ gor = "await" => reply.call = call

\* A Sign, which no context can end, is only offered to a driver that is
\* parked and so takes it: the goroutine is never stuck on the send.
SignIsAttended == gor = "offer" /\ site = "sign" => drv = "park"

\* When StartMint, StartVerify or Advance has returned, the session has a
\* pending call or an outcome, and not both: what the tool handlers render.
PendingOrOutcome == drv = "idle" => (outcome <=> pending = NoCall)

\* The lifecycle of a session nobody abandons ends, whatever the host answers
\* and however late: doneCh takes the outcome even if the driver never parks
\* again.
LifecycleEnds == <>(gor = "exited" \/ drv = "closed")

\* After Close the goroutine unwinds, unless Close found it waiting for a
\* signature.
CloseUnwindsUnlessSigning ==
  (drv = "closed" /\ ~(site = "sign" /\ gor = "await")) ~> (gor = "exited")

\* Close cancels the context "so the engine goroutine unwinds rather than
\* leaking".
CloseUnwinds == (drv = "closed") ~> (gor = "exited")

\* Advance returns to its caller, with the next call or the outcome.
AdvanceReturns == (drv = "deliver") ~> (drv = "idle")

\* It does whenever hosts answer within the budgets of their calls.
AdvanceReturnsInTime == (drv = "deliver" /\ ~late) ~> (drv = "idle")

\* "after emitting a call the lifecycle is blocked waiting for its reply": so
\* it is, until a deadline passes.
EmittedCallBlocks ==
  drv = "idle" /\ pending # NoCall /\ ~late => gor = "await" /\ call = pending

-----------------------------------------------------------------------------
(* What the tool handlers see of a session.                                *)

\* The lifecycle gave up the call its driver holds or is answering.
GaveUp == drv \in {"idle", "deliver"} /\ ~outcome /\ gor # "await"

ShownTurn ==
  CASE drv = "park"                -> "engine"
    [] drv = "closed"              -> "closed"
    [] drv = "deliver" /\ GaveUp   -> "stuck"
    [] OTHER                       -> "host"

Shown == INSTANCE ParkedSession
         WITH parked <- IF outcome THEN "done" ELSE asked.site,
              ok     <- IF drv = "park" THEN asked.ok ELSE TRUE,
              turn   <- ShownTurn,
              stale  <- GaveUp

\* The goroutine, the channels and the contexts together implement the session
\* TokenService takes for granted: each Start or Advance parks on a call the
\* lifecycle may make next or on the outcome, and a call is given up only by a
\* deadline, after which its answer is never taken.
ImplementsParkedSession == Shown!Spec
=============================================================================
