-------------------------- MODULE HostSessionProofs --------------------------
(***************************************************************************)
(* Proofs about HostSession, for every IdSpace, any mix of lifecycles, and *)
(* whether or not hosts are late and drivers close.                        *)
(*                                                                         *)
(* None of the three safety properties is inductive: each depends on who   *)
(* holds the turn.  TurnInv says it once: the goroutine awaits only the    *)
(* call its driver has pending or is answering, and the driver is parked   *)
(* exactly when it holds neither a call nor an answer nor an outcome.      *)
(*                                                                         *)
(* The second half shows that a session implements ParkedSession: ShownInv *)
(* says where the goroutine can be since its driver was last shown a call. *)
(***************************************************************************)
EXTENDS HostSession, TLAPS

\* The driver's turn: which of pending, reply and outcome it holds.
DriverTurn ==
  /\ drv = "deliver" => reply # NoReply
  /\ reply # NoReply => drv = "deliver"
  /\ drv \in {"park", "deliver"} => pending = NoCall /\ ~outcome
  /\ drv = "idle" => (outcome <=> pending = NoCall)

\* The goroutine's turn: it awaits the call the driver was given, it waits on
\* the timer only at "poll", and it has exited once there is an outcome.
GoroutineTurn ==
  /\ gor = "await" => \/ drv \in {"idle", "closed"} /\ pending = call
                      \/ drv = "deliver" /\ reply.call = call
  /\ gor = "wait" => site = "poll"
  /\ gor \in {"offer", "await"} => site \in HostCalls
  /\ doneCh \/ outcome => gor = "exited"
  /\ gor = "exited" => site = "done"
  /\ cancelled => outcome \/ drv = "closed"

\* Only an answered blockhash leads to Sign, and it leaves the driver parked.
SignTurn ==
  /\ gor = "run" /\ site = "blockhash" /\ ok => drv = "park"
  /\ gor = "offer" /\ site = "sign" => drv = "park"

TurnInv == TypeOK /\ DriverTurn /\ GoroutineTurn /\ SignTurn

\* Succ stays within the sites, and leads to "sign" only from a blockhash
\* that was read.
LEMMA SuccFacts ==
  ASSUME NEW s, NEW b \in BOOLEAN, NEW t \in Succ(s, b)
  PROVE  /\ t \in HostCalls \cup {"poll", "done"}
         /\ t = "sign" => s = "blockhash" /\ b
  BY DEF Succ, HostCalls, Sites, SessionSites, OpSites, CheckSites

\* Numbers of calls stay in range.
LEMMA NextCallType ==
  ASSUME NEW c \in CallIds
  PROVE  NextCall(c) \in CallIds
  BY SessionAssumption DEF NextCall, CallIds

\* The invariant holds when a session is started.
LEMMA InitTurn == Init => TurnInv
  <1> SUFFICES ASSUME Init PROVE TurnInv
    OBVIOUS
  <1>1. /\ call \in CallIds
        /\ reply \in [ call : CallIds \cup {NoCall}, ok : BOOLEAN ]
    BY SessionAssumption DEF Init, CallIds, NoReply
  <1>2. site \in {"start", "startVerify"} /\ late \in BOOLEAN
    BY SessionAssumption DEF Init
  <1>3. TypeOK
    BY <1>1, <1>2 DEF Init, TypeOK
  <1> QED
    BY <1>2, <1>3 DEF Init, TurnInv, DriverTurn, GoroutineTurn, SignTurn

\* The whole invariant is preserved by every step.
LEMMA NextTurn == TurnInv /\ [Next]_vars => TurnInv'
  <1> SUFFICES ASSUME TurnInv, [Next]_vars PROVE TurnInv'
    OBVIOUS
  <1> USE DEF TurnInv, TypeOK, DriverTurn, GoroutineTurn, SignTurn, lifecycle,
              driver, contexts, NoReply, NoCall, CallIds
  <1>1. CASE Step
    <2>1. PICK s \in Succ(site, ok) :
            /\ site' = s
            /\ gor'  = (CASE s = "done" -> "exited" [] s = "poll" -> "wait"
                          [] OTHER -> "offer")
            /\ call' = (IF s \in HostCalls THEN NextCall(call) ELSE call)
            /\ doneCh' = (s = "done")
      BY <1>1 DEF Step
    <2>2. /\ s \in HostCalls \cup {"poll", "done"}
          /\ s = "sign" => site = "blockhash" /\ ok
      BY <2>1, SuccFacts
    <2>3. call' \in CallIds
      BY <2>1, NextCallType
    <2>4. /\ site' \in Sites \cup {"start", "startVerify", "done"}
          /\ s \notin {"poll", "done"} => s \in HostCalls
          /\ s = "poll" => s \notin HostCalls
      BY <2>1, <2>2 DEF HostCalls, Sites, SessionSites, OpSites, CheckSites
    <2> QED
      BY <1>1, <2>1, <2>2, <2>3, <2>4 DEF Step
  <1>2. CASE Poll
    BY <1>2 DEF Poll, Resume
  <1>3. CASE CtxUnblocks
    <2>1. /\ gor \in {"offer", "await"} /\ gor' = "run" /\ ok' = FALSE
          /\ UNCHANGED << site, call, doneCh, contexts, driver, reply, asked >>
      BY <1>3 DEF CtxUnblocks, Resume
    <2>2. ~doneCh /\ ~outcome
      BY <2>1
    <2>3. ok' \in BOOLEAN
      BY <1>3, Zenon DEF CtxUnblocks, Resume
    <2>4. TypeOK'
      BY <2>1, <2>3
    <2>5. DriverTurn' /\ GoroutineTurn' /\ SignTurn'
      BY <2>1, <2>2
    <2> QED
      BY <2>4, <2>5
  <1>4. CASE ParkCall
    BY <1>4 DEF ParkCall
  <1>5. CASE ParkDone
    BY <1>5 DEF ParkDone
  <1>6. CASE Advance
    <2>1. PICK answered \in BOOLEAN :
            reply' = [ call |-> pending, ok |-> answered ]
      BY <1>6 DEF Advance
    <2>2. reply'.call = pending /\ pending \in CallIds
      BY <1>6, <2>1 DEF Advance
    <2>3. reply' # NoReply
      BY <2>2, SessionAssumption
    <2>4. reply' \in [ call : CallIds \cup {NoCall}, ok : BOOLEAN ]
      BY <2>1, <2>2
    <2> QED
      BY <1>6, <2>2, <2>3, <2>4 DEF Advance
  <1>7. CASE Deliver
    BY <1>7 DEF Deliver, Resume
  <1>8. CASE Close
    BY <1>8 DEF Close
  <1>9. CASE Budgets
    <2>1. /\ UNCHANGED << lifecycle, driver, reply, doneCh, cancelled, late, asked >>
          /\ opExpired' \in BOOLEAN /\ checkExpired' \in BOOLEAN
      BY <1>9 DEF Budgets, OpBudget, CheckBudget
    <2> QED
      BY <2>1
  <1>10. CASE UNCHANGED vars
    BY <1>10 DEF vars
  <1> QED
    BY <1>1, <1>2, <1>3, <1>4, <1>5, <1>6, <1>7, <1>8, <1>9, <1>10
    DEF Next, Goroutine, Park, Rest

\* The turn-taking of session.go, for every number of call ids and whatever
\* budgets and Close do.
THEOREM TurnTaking == Spec => []TurnInv
  <1>1. Init => TurnInv
    BY InitTurn
  <1>2. TurnInv /\ [Next]_vars => TurnInv'
    BY NextTurn
  <1> QED
    BY <1>1, <1>2, PTL DEF Spec

\* Every variable of a session keeps its type.
THEOREM TypeCorrect == Spec => []TypeOK
  <1>1. TurnInv => TypeOK
    BY DEF TurnInv
  <1> QED
    BY <1>1, TurnTaking, PTL

\* repCh never hands a reply to a call it does not answer, although nothing in
\* hostrpc.go matches them and calls are abandoned on a deadline.
THEOREM RepliesMatch == Spec => []ReplyAnswersItsCall
  <1>1. TurnInv => ReplyAnswersItsCall
    BY DEF TurnInv, DriverTurn, GoroutineTurn, ReplyAnswersItsCall
  <1> QED
    BY <1>1, TurnTaking, PTL

\* roundTripSigner.Sign, which has no context, never blocks on its send.
THEOREM SignersAttended == Spec => []SignIsAttended
  <1>1. TurnInv => SignIsAttended
    BY DEF TurnInv, SignTurn, SignIsAttended
  <1> QED
    BY <1>1, TurnTaking, PTL

\* A session that has returned to its caller holds exactly one of a pending
\* call and an outcome.
THEOREM AlwaysSomethingToRender == Spec => []PendingOrOutcome
  <1>1. TurnInv => PendingOrOutcome
    BY DEF TurnInv, DriverTurn, PendingOrOutcome
  <1> QED
    BY <1>1, TurnTaking, PTL

-----------------------------------------------------------------------------
(* HostSession implements ParkedSession: the goroutine, the channels and   *)
(* the contexts of a session show its driver the turns the tool handlers   *)
(* rely on.  TurnInv is not enough for that.  PromptInv says which         *)
(* deadlines can have passed while the host kept to them, and PathInv how  *)
(* far the goroutine may have run since the driver last saw it.            *)

\* With a prompt host only the lifecycle budget can have passed, in a poll
\* interval, and then no site under it is left to run.  The host holds the
\* call the goroutine is blocked on.
PromptInv ==
  ~late /\ drv # "closed" =>
    /\ ~checkExpired
    /\ opExpired => \/ site \in {"resolve", "done"}
                    \/ site = "poll" /\ gor = "wait"
                    \/ site = "poll" /\ gor = "run" /\ ~ok
    /\ drv = "idle" /\ pending # NoCall => gor = "await"

\* The driver's last sight of the goroutine is the site in asked: it is still
\* there, or the driver is parked and it went no further than Unseen.
PathInv ==
  /\ drv \in {"idle", "deliver"} /\ gor = "await" => site = asked.site
  /\ drv = "park" =>
       \/ gor = "run" /\ site = asked.site /\ ok = asked.ok
       \/ /\ site \in Unseen(asked.site, asked.ok, late)
          /\ gor = "run" => site = "poll" \/ (~ok /\ late /\ site \in Skippable)

ShownInv == TurnInv /\ PromptInv /\ PathInv

-----------------------------------------------------------------------------
(* Unseen is closed under the steps no driver sees.                        *)

\* What Onward adds to a set of sites.
LEMMA OnwardFacts ==
  ASSUME NEW S, NEW l \in BOOLEAN, NEW t
  PROVE  t \in Onward(S, l) <=>
           \/ t \in S
           \/ t \in {"status", "resolve"} /\ "poll" \in S
           \/ l /\ \/ t = "resolve" /\ {"blockhash", "poll"} \cap S # {}
                   \/ t = "poll" /\ {"submit", "status", "height", "recheck"} \cap S # {}
                   \/ t = "done" /\ {"verify", "resolve"} \cap S # {}
  <1>1. \A b \in BOOLEAN : Succ("poll", b) = IF b THEN {"status"} ELSE {"resolve"}
    BY DEF Succ
  <1>2. \A s \in Skippable :
          Succ(s, FALSE) = CASE s \in {"blockhash", "poll"} -> {"resolve"}
                             [] s \in {"submit", "status", "height", "recheck"} -> {"poll"}
                             [] s \in {"verify", "resolve"} -> {"done"}
    BY DEF Succ, Skippable, OpSites, CheckSites
  <1>3. Skippable = {"blockhash", "poll", "submit", "status", "height",
                     "recheck", "verify", "resolve"}
    BY DEF Skippable, OpSites, CheckSites
  <1>4. t \in Onward(S, l) <=>
          \/ t \in S
          \/ "poll" \in S /\ \E b \in BOOLEAN : t \in Succ("poll", b)
          \/ l /\ \E s \in S \cap Skippable : t \in Succ(s, FALSE)
    BY DEF Onward
  <1>5. "poll" \in S => ((\E b \in BOOLEAN : t \in Succ("poll", b)) <=>
                          t \in {"status", "resolve"})
    BY <1>1
  <1>6. (\E s \in S \cap Skippable : t \in Succ(s, FALSE)) <=>
          \/ t = "resolve" /\ {"blockhash", "poll"} \cap S # {}
          \/ t = "poll" /\ {"submit", "status", "height", "recheck"} \cap S # {}
          \/ t = "done" /\ {"verify", "resolve"} \cap S # {}
    BY <1>2, <1>3
  <1> QED
    BY <1>4, <1>5, <1>6

\* Three rounds reach everything: the end of a poll interval, and with a late
\* host the failure of a site nobody was shown, lead nowhere new.
LEMMA UnseenClosed ==
  ASSUME NEW s, NEW b \in BOOLEAN, NEW l \in BOOLEAN
  PROVE  /\ Succ(s, b) \subseteq Unseen(s, b, l)
         /\ "poll" \in Unseen(s, b, l) =>
              \A c \in BOOLEAN : Succ("poll", c) \subseteq Unseen(s, b, l)
         /\ l => \A t \in Unseen(s, b, l) \cap Skippable :
                   Succ(t, FALSE) \subseteq Unseen(s, b, l)
  <1> DEFINE S0 == Succ(s, b)
             S1 == Onward(S0, l)
             S2 == Onward(S1, l)
             S3 == Onward(S2, l)
  <1>1. Unseen(s, b, l) = S3
    BY DEF Unseen
  <1>2. S0 \subseteq S1 /\ S1 \subseteq S2 /\ S2 \subseteq S3
    BY OnwardFacts
  <1>3. ASSUME NEW t \in {"blockhash", "submit", "height", "recheck", "verify"}, t \in S3
        PROVE  t \in S0
    <2>1. t \in S2
      BY <1>3, OnwardFacts
    <2>2. t \in S1
      BY <2>1, OnwardFacts
    <2> QED
      BY <2>2, OnwardFacts
  <1>4. "poll" \in S3 => "poll" \in S1
    <2>1. "status" \in S2 => "poll" \in S1 \/ "status" \in S1
      BY OnwardFacts
    <2>2. "poll" \in S3 => "poll" \in S2 \/ {"submit", "status", "height", "recheck"} \cap S2 # {}
      BY OnwardFacts
    <2>3. "poll" \in S2 => "poll" \in S1 \/ {"submit", "status", "height", "recheck"} \cap S1 # {}
      BY OnwardFacts
    <2>4. {"submit", "height", "recheck"} \cap S2 \subseteq S0
      BY OnwardFacts
    <2>5. "status" \in S1 => "status" \in S0 \/ "poll" \in S0
      BY OnwardFacts
    <2>6. CASE l
      <3>1. {"submit", "status", "height", "recheck"} \cap S0 # {} => "poll" \in S1
        BY <2>6, OnwardFacts
      <3> QED
        BY <2>1, <2>2, <2>3, <2>4, <2>5, <3>1, <1>2
    <2>7. CASE ~l
      BY <2>7, OnwardFacts
    <2> QED
      BY <2>6, <2>7
  <1>5. "poll" \in S1 => {"status", "resolve"} \subseteq S2
    BY OnwardFacts
  <1>6. "resolve" \in S3 => "resolve" \in S2
    <2>1. "blockhash" \in S2 => "blockhash" \in S0
      BY OnwardFacts
    <2>2. "resolve" \in S3 => "resolve" \in S2 \/ "poll" \in S2 \/ (l /\ "blockhash" \in S2)
      BY OnwardFacts
    <2>3. l /\ "blockhash" \in S0 => "resolve" \in S1
      BY OnwardFacts
    <2> QED
      BY <2>1, <2>2, <2>3, <1>2, <1>4, <1>5
  <1>7. \A c \in BOOLEAN : Succ("poll", c) \subseteq {"status", "resolve"}
    BY DEF Succ
  <1>8. ASSUME l, NEW t \in S3 \cap Skippable
        PROVE  Succ(t, FALSE) \subseteq S3
    <2>1. CASE t \in {"verify", "resolve"}
      <3>1. "verify" \in S3 => "verify" \in S2
        BY OnwardFacts
      <3>2. "done" \in S3
        BY <1>6, <1>8, <2>1, <3>1, OnwardFacts
      <3> QED
        BY <2>1, <3>2 DEF Succ
    <2>2. CASE t \in {"submit", "height", "recheck"}
      <3>1. t \in S0
        BY <1>8, <1>3, <2>2
      <3>2. "poll" \in S1
        BY <1>8, <2>2, <3>1, OnwardFacts
      <3> QED
        BY <1>2, <2>2, <3>2 DEF Succ
    <2>3. CASE t = "status"
      <3>1. "status" \in S3
        BY <1>8, <2>3
      <3>2. "status" \in S2 \/ "poll" \in S2
        BY <3>1, OnwardFacts
      <3>3. "poll" \in S3
        BY <1>2, <1>8, <3>2, OnwardFacts
      <3> QED
        BY <2>3, <3>3 DEF Succ
    <2>4. CASE t = "poll"
      BY <1>2, <1>4, <1>5, <1>7, <2>4
    <2>5. CASE t = "blockhash"
      <3>1. t \in S0
        BY <1>8, <1>3, <2>5
      <3>2. "resolve" \in S1
        BY <1>8, <2>5, <3>1, OnwardFacts
      <3> QED
        BY <1>2, <2>5, <3>2 DEF Succ
    <2> QED
      BY <1>8, <2>1, <2>2, <2>3, <2>4, <2>5 DEF Skippable, OpSites, CheckSites
  <1> QED
    BY <1>1, <1>2, <1>4, <1>5, <1>7, <1>8

-----------------------------------------------------------------------------
(* The invariant.                                                          *)

\* It holds when a session is started.
LEMMA InitShown == Init => ShownInv
  <1> SUFFICES ASSUME Init PROVE ShownInv
    OBVIOUS
  <1>1. TurnInv
    BY InitTurn
  <1>2. PromptInv /\ PathInv
    BY DEF Init, PromptInv, PathInv
  <1> QED
    BY <1>1, <1>2 DEF ShownInv

\* Whether the goroutine's context can be done while a driver cares.
LEMMA CtxDoneFacts ==
  ASSUME ShownInv, CtxDone, drv # "closed", gor \in {"offer", "await"}
  PROVE  /\ late
         /\ site # "sign" => site \in Skippable
  <1>1. ~outcome /\ ~cancelled
    BY DEF ShownInv, TurnInv, GoroutineTurn
  <1>2. \/ site \in OpSites /\ opExpired
        \/ site \in CheckSites /\ checkExpired
    BY <1>1 DEF CtxDone
  <1>3. ~late => FALSE
    BY <1>2 DEF ShownInv, PromptInv, OpSites, CheckSites
  <1> QED
    BY <1>2, <1>3 DEF Skippable, ShownInv, TurnInv, TypeOK

\* It is preserved by every step.
LEMMA NextShown == ShownInv /\ [Next]_vars => ShownInv'
  <1> SUFFICES ASSUME ShownInv, [Next]_vars PROVE ShownInv'
    OBVIOUS
  <1>0. TurnInv /\ TurnInv'
    BY NextTurn DEF ShownInv
  <1> USE <1>0 DEF TurnInv, DriverTurn, GoroutineTurn, lifecycle, driver, contexts
  <1>1. CASE Step
    <2>1. PICK s \in Succ(site, ok) :
            /\ site' = s
            /\ gor'  = (CASE s = "done" -> "exited" [] s = "poll" -> "wait"
                          [] OTHER -> "offer")
      BY <1>1 DEF Step
    <2>2. gor = "run" /\ UNCHANGED << ok, driver, reply, contexts, asked >>
      BY <1>1 DEF Step
    <2>3. gor' \in {"exited", "wait", "offer"}
      BY <2>1
    <2>4. ok \in BOOLEAN /\ late \in BOOLEAN /\ asked.ok \in BOOLEAN
      BY DEF TypeOK
    <2>5. opExpired /\ ~late /\ drv # "closed" => s \in {"resolve", "done"}
      BY <2>2, <2>4 DEF ShownInv, PromptInv, Succ
    <2>6. PromptInv'
      BY <2>1, <2>2, <2>3, <2>5 DEF ShownInv, PromptInv
    <2>7. CASE drv = "park"
      <3>1. s \in Unseen(asked.site, asked.ok, late)
        <4>1. CASE site = asked.site /\ ok = asked.ok
          BY <2>4, <4>1, UnseenClosed
        <4>2. CASE site \in Unseen(asked.site, asked.ok, late) /\ site = "poll"
          BY <2>4, <4>2, UnseenClosed
        <4>3. CASE /\ site \in Unseen(asked.site, asked.ok, late)
                   /\ ~ok /\ late /\ site \in Skippable
          <5>1. ok = FALSE
            BY <2>4, <4>3
          <5>2. s \in Succ(site, FALSE)
            BY <5>1
          <5> QED
            BY <2>4, <4>3, <5>2, UnseenClosed
        <4> QED
          BY <2>2, <2>7, <4>1, <4>2, <4>3 DEF ShownInv, PathInv
      <3> QED
        BY <2>1, <2>2, <2>3, <2>6, <2>7, <3>1 DEF ShownInv, PathInv
    <2>8. CASE drv # "park"
      BY <2>2, <2>3, <2>6, <2>8 DEF ShownInv, PathInv
    <2> QED
      BY <2>7, <2>8
  <1>2. CASE Poll
    <2>1. /\ gor = "wait" /\ site = "poll" /\ gor' = "run" /\ ok' = ~CtxDone
          /\ UNCHANGED << site, driver, reply, contexts, asked >>
      BY <1>2 DEF Poll, Resume
    <2>2. opExpired => ~ok'
      BY <2>1 DEF CtxDone, OpSites
    <2>3. PromptInv'
      BY <2>1, <2>2 DEF ShownInv, PromptInv
    <2>4. PathInv'
      BY <2>1 DEF ShownInv, PathInv
    <2> QED
      BY <2>3, <2>4 DEF ShownInv
  <1>3. CASE CtxUnblocks
    <2>1. /\ gor \in {"offer", "await"} /\ site # "sign" /\ CtxDone
          /\ gor' = "run" /\ ~ok'
          /\ UNCHANGED << site, driver, reply, contexts, asked >>
      BY <1>3 DEF CtxUnblocks, Resume
    <2>2. CASE drv = "closed"
      BY <2>1, <2>2 DEF ShownInv, PromptInv, PathInv
    <2>3. CASE drv # "closed"
      <3>1. late /\ site \in Skippable
        BY <2>1, <2>3, CtxDoneFacts
      <3>2. PromptInv'
        BY <2>1, <3>1 DEF PromptInv
      <3>3. PathInv'
        BY <2>1, <3>1 DEF ShownInv, PathInv
      <3> QED
        BY <3>2, <3>3 DEF ShownInv
    <2> QED
      BY <2>2, <2>3
  <1>4. CASE ParkCall
    <2>1. PromptInv'
      BY <1>4 DEF ParkCall, ShownInv, PromptInv
    <2>2. PathInv'
      BY <1>4 DEF ParkCall, PathInv
    <2> QED
      BY <2>1, <2>2 DEF ShownInv
  <1>5. CASE ParkDone
    BY <1>5 DEF ParkDone, ShownInv, PromptInv, PathInv
  <1>6. CASE Advance
    BY <1>6 DEF Advance, ShownInv, PromptInv, PathInv
  <1>7. CASE Deliver
    <2>1. /\ reply # NoReply /\ gor = "await" /\ gor' = "run" /\ ok' = reply.ok
          /\ UNCHANGED << site, call, doneCh, contexts, pending, outcome >>
          /\ asked' = [asked EXCEPT !.ok = reply.ok]
          /\ drv = "deliver" /\ drv' = "park"
      BY <1>7 DEF Deliver, Resume
    <2>2. asked'.site = asked.site /\ asked'.ok = reply.ok
      BY <2>1 DEF TypeOK
    <2>3. PathInv'
      BY <2>1, <2>2 DEF ShownInv, PathInv
    <2>4. site # "poll"
      BY <2>1 DEF HostCalls
    <2>5. PromptInv'
      BY <2>1, <2>4 DEF ShownInv, PromptInv
    <2> QED
      BY <2>3, <2>5 DEF ShownInv
  <1>8. CASE Close
    BY <1>8 DEF Close, ShownInv, PromptInv, PathInv
  <1>9. CASE OpBudget
    <2>1. PathInv'
      BY <1>9 DEF OpBudget, ShownInv, PathInv
    <2>2. PromptInv'
      BY <1>9 DEF OpBudget, Overdue, ShownInv, PromptInv
    <2> QED
      BY <2>1, <2>2 DEF ShownInv
  <1>10. CASE CheckBudget
    <2>1. PathInv'
      BY <1>10 DEF CheckBudget, ShownInv, PathInv
    <2>2. late \/ drv = "closed"
      BY <1>10 DEF CheckBudget, Overdue, CheckSites
    <2>3. PromptInv'
      BY <1>10, <2>2 DEF CheckBudget, PromptInv
    <2> QED
      BY <2>1, <2>3 DEF ShownInv
  <1>11. CASE UNCHANGED vars
    BY <1>11 DEF vars, ShownInv, PromptInv, PathInv
  <1> QED
    BY <1>1, <1>2, <1>3, <1>4, <1>5, <1>6, <1>7, <1>8, <1>9, <1>10, <1>11
    DEF Next, Goroutine, Park, Budgets, Rest

\* What a driver was shown bounds where the goroutine is, and a prompt host's
\* call is the one it waits for.
THEOREM ShownPath == Spec => []ShownInv
  <1>1. Init => ShownInv
    BY InitShown
  <1>2. ShownInv /\ [Next]_vars => ShownInv'
    BY NextShown
  <1> QED
    BY <1>1, <1>2, PTL DEF Spec

\* "after emitting a call the lifecycle is blocked waiting for its reply" holds
\* of every host that answers in time, for every number of calls.
THEOREM CallsBlock == Spec => []EmittedCallBlocks
  <1>1. ShownInv => EmittedCallBlocks
    BY DEF ShownInv, TurnInv, GoroutineTurn, PromptInv, EmittedCallBlocks
  <1> QED
    BY <1>1, ShownPath, PTL

-----------------------------------------------------------------------------
(* The refinement.                                                         *)

\* The instance's copy of the skeleton is the skeleton.
LEMMA ShownSkeleton ==
  /\ \A s, b, l : Shown!NextPark(s, b, l) = NextPark(s, b, l)
  /\ Shown!Skippable = Skippable
  BY DEF Shown!NextPark, NextPark, Shown!Unseen, Unseen, Shown!Onward, Onward,
         Shown!Succ, Succ, Shown!Skippable, Skippable, Shown!OpSites, OpSites,
         Shown!CheckSites, CheckSites

\* A session starts as the handlers take it to.
LEMMA InitRefines == Init => Shown!Init
  BY SessionAssumption DEF Init, Shown!Init, ShownTurn, GaveUp

\* Every step of the goroutine and its driver is a turn or nothing.
LEMMA NextRefines ==
  ShownInv /\ [Next]_vars =>
    [Shown!Park \/ Shown!Answer \/ Shown!GiveUp \/ Shown!LateAnswer
       \/ Shown!Abandon]_(Shown!sessionVars)
  <1> SUFFICES ASSUME ShownInv, [Next]_vars
               PROVE  \/ Shown!Park \/ Shown!Answer \/ Shown!GiveUp
                      \/ Shown!LateAnswer \/ Shown!Abandon
                      \/ UNCHANGED Shown!sessionVars
    OBVIOUS
  <1> USE DEF ShownInv, TurnInv, DriverTurn, GoroutineTurn, lifecycle, driver,
              contexts, ShownTurn, GaveUp, Shown!sessionVars
  <1>1. CASE Step
    BY <1>1 DEF Step
  <1>2. CASE Poll
    BY <1>2 DEF Poll, Resume
  <1>3. CASE CtxUnblocks
    <2>1. /\ gor \in {"offer", "await"} /\ site # "sign" /\ CtxDone
          /\ gor' = "run" /\ UNCHANGED << driver, reply, contexts, asked >>
      BY <1>3 DEF CtxUnblocks, Resume
    <2>2. CASE drv \in {"idle", "deliver"} /\ gor = "await"
      <3>1. late /\ asked.site \in Skippable
        BY <2>1, <2>2, CtxDoneFacts DEF PathInv
      <3> QED
        BY <2>1, <2>2, <3>1, ShownSkeleton DEF Shown!GiveUp
    <2> QED
      BY <2>1, <2>2
  <1>4. CASE ParkCall
    <2>1. site \in NextPark(asked.site, asked.ok, late)
      BY <1>4 DEF ParkCall, PathInv, NextPark, HostCalls
    <2> QED
      BY <1>4, <2>1, ShownSkeleton DEF ParkCall, Shown!Park
  <1>5. CASE ParkDone
    <2>1. "done" \in NextPark(asked.site, asked.ok, late)
      BY <1>5 DEF ParkDone, PathInv, NextPark
    <2> QED
      BY <1>5, <2>1, ShownSkeleton DEF ParkDone, Shown!Park
  <1>6. CASE Advance
    BY <1>6 DEF Advance, Shown!LateAnswer
  <1>7. CASE Deliver
    <2>1. /\ gor = "await" /\ drv = "deliver" /\ drv' = "park" /\ ~outcome
          /\ asked' = [asked EXCEPT !.ok = reply.ok]
          /\ UNCHANGED << contexts, outcome >>
      BY <1>7 DEF Deliver, Resume
    <2>2. asked'.site = asked.site /\ asked'.ok \in BOOLEAN
      BY <2>1 DEF TypeOK
    <2>3. asked.site # "done"
      BY DEF TypeOK, HostCalls, Sites, SessionSites, OpSites, CheckSites
    <2> QED
      BY <2>1, <2>2, <2>3 DEF Shown!Answer
  <1>8. CASE Close
    BY <1>8 DEF Close, Shown!Abandon
  <1>9. CASE Budgets
    <2>1. UNCHANGED << lifecycle, driver, late, asked >>
      BY <1>9 DEF Budgets, OpBudget, CheckBudget
    <2> QED
      BY <2>1
  <1>10. CASE UNCHANGED vars
    BY <1>10 DEF vars
  <1> QED
    BY <1>1, <1>2, <1>3, <1>4, <1>5, <1>6, <1>7, <1>8, <1>9, <1>10
    DEF Next, Goroutine, Park, Rest

\* A session of token/session.go is the turn-taking session the tool handlers
\* of cmd/token rely on, for every number of call ids and every host.
THEOREM SessionRefines == Spec => ImplementsParkedSession
  <1>1. Init => Shown!Init
    BY InitRefines
  <1>2. ShownInv /\ [Next]_vars =>
          [Shown!Park \/ Shown!Answer \/ Shown!GiveUp \/ Shown!LateAnswer
             \/ Shown!Abandon]_(Shown!sessionVars)
    BY NextRefines
  <1> QED
    BY <1>1, <1>2, ShownPath, PTL DEF Spec, ImplementsParkedSession, Shown!Spec
=============================================================================
