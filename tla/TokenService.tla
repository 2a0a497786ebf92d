---------------------------- MODULE TokenService ----------------------------
(***************************************************************************)
(* cmd/token/main.go: the MCP loop of the token extension, its two tools   *)
(* and their session registries.  The loop handles one line at a time; a   *)
(* session runs between two lines and is here the host call it is parked   *)
(* on (a site of MintLifecycle) or its end, as HostSession has it.  The    *)
(* host may send anything in any order: a resume may name a session that   *)
(* ended, answer twice, or answer in the wrong form.                       *)
(***************************************************************************)
EXTENDS Naturals, FiniteSets, MintLifecycle, McpServer, Verify

CONSTANTS
  MaxSessions,   \* bound: sessions started per tool
  BudgetsExpire  \* a host may answer later than lifecycleBudget allows

ASSUME ServiceAssumption == MaxSessions \in Nat /\ BudgetsExpire \in BOOLEAN

VARIABLES
  sess,    \* sess[svc][n]: the session with number n, see SessionStates
  stale,   \* the sessions whose lifecycle gave up the call the host holds
  reg,     \* reg[svc]: the ids in the registry's map
  seq,     \* reg.seq
  server,  \* "reading", "stuck" in a handler that does not return, "ended"
  resp     \* what became of the last line

vars == << sess, stale, reg, seq, server, resp >>

Services == {"mint", "verify"}
Numbers  == 1..MaxSessions
Ids      == Services \X Numbers

\* "none" is not started yet, "done" is a session whose outcome was taken.
SessionStates == HostCalls \cup {"none", "done"}

\* What the last line came to: did it carry an id, what it was answered with
\* and, for a report, the account that is reported on.
Kinds == {"none", "silent", "parseError", "invalidRequest", "result",
          "methodMissing", "invalidParams", "toolError", "call", "outcome",
          "safeReport", "report", "report2022"}

Nothing == [ is |-> "nothing" ]

\* One line is answered, or not; the loop ends if the answer cannot be written.
Answered(m, kind, about) ==
  /\ resp' = [ id |-> m.id, kind |-> kind, about |-> about ]
  /\ server' \in (IF kind = "silent" THEN {"reading"} ELSE {"reading", "ended"})

Init ==
  /\ sess = [svc \in Services |-> [n \in Numbers |-> "none"]]
  /\ stale = {}
  /\ reg = [svc \in Services |-> {}]
  /\ seq = [svc \in Services |-> 0]
  /\ server = "reading"
  /\ resp = [ id |-> TRUE, kind |-> "none", about |-> Nothing ]

-----------------------------------------------------------------------------
(* Where a session parks.                                                  *)

FirstPark(svc) == IF svc = "mint" THEN {"genesis", "done"} ELSE {"read"}

\* resumeArgs.reply: the error fields win, then the body, then the signature,
\* which must parse.  Nothing compares the form with the call: a Sign given a
\* body goes on with the zero signature, a Fetch given a signature fails.
Answers == {"error", "body", "signature", "malformed"}

ReplyOK(answer, site) ==
  CASE answer = "error"                           -> {FALSE}
    [] answer = "body" /\ site # "sign"           -> BOOLEAN
    [] answer = "signature" /\ site # "sign"      -> {FALSE}
    [] OTHER                                      -> {TRUE}

\* Mutant: render leaves a completed session in the map.
renderKeeps(m, svc, n, site, a) ==
  /\ reg' = [reg EXCEPT ![svc] = @ \cup {n}]
  /\ sess' = [sess EXCEPT ![svc][n] = site]
  /\ Answered(m, IF site = "done" THEN "outcome" ELSE "call", Nothing)

\* The tool's text for what Verify made of an account seen as v.
reportKind(v) ==
  CASE VerifyView(v) = "token2022" -> "report2022"
    [] VerifyView(v) = "error"     -> "toolError"
    [] OTHER -> IF SupplyFixed(v) /\ ~Freezable(v) THEN "safeReport" ELSE "report"

\* store or keep the session, and render it: the next host call, or the end,
\* which drops it from the registry.  A verify ends with the account a that
\* the host read for it, or with Nothing and an error.
render(m, svc, n, site, a) ==
  /\ reg' = [reg EXCEPT ![svc] = IF site = "done" THEN @ \ {n} ELSE @ \cup {n}]
  /\ sess' = [sess EXCEPT ![svc][n] = site]
  /\ \/ /\ site # "done"
        /\ Answered(m, "call", Nothing)
     \/ /\ site = "done" /\ svc = "mint"
        /\ Answered(m, "outcome", Nothing)
     \/ /\ site = "done" /\ svc = "verify" /\ a = Nothing
        /\ Answered(m, "toolError", Nothing)
     \/ /\ site = "done" /\ svc = "verify" /\ a # Nothing
        /\ \E v \in Seen(a) : Answered(m, reportKind(v), a)

-----------------------------------------------------------------------------
(* One line of input.                                                      *)

\* Lines that reach no tool, tool calls with bad parameters or an unknown
\* tool, and starts a handler rejects: an answer, and nothing else.
OtherLine(m) ==
  /\ server = "reading"
  /\ \/ /\ Dispatch(m) # "call"
        /\ Answered(m, Dispatch(m), Nothing)
     \/ /\ Dispatch(m) = "call"
        /\ \E k \in {"invalidParams", "toolError"} : Answered(m, k, Nothing)
  /\ UNCHANGED << sess, stale, reg, seq >>

\* Mutant: a session is numbered by how many are in the map.
storeNumberByCount(svc) == Cardinality(reg[svc]) + 1

\* store: the number of the next session.
storeNumber(svc) == seq[svc] + 1

\* A call without a session id: StartMint or StartVerify, store, render.
StartSession(m, svc) ==
  /\ server = "reading" /\ Dispatch(m) = "call"
  /\ seq[svc] < MaxSessions
  /\ seq' = [seq EXCEPT ![svc] = @ + 1]
  /\ \E site \in FirstPark(svc) : render(m, svc, storeNumber(svc), site, Nothing)
  /\ UNCHANGED stale

\* A call with a session id and an answer.  An unknown session and an answer
\* that does not parse are errors and change nothing; Advance on a call the
\* lifecycle gave up does not return.
ResumeSession(m, svc, n, answer) ==
  /\ server = "reading" /\ Dispatch(m) = "call"
  /\ \/ /\ n \notin reg[svc] \/ answer = "malformed"
        /\ Answered(m, "toolError", Nothing)
        /\ UNCHANGED << sess, stale, reg >>
     \/ /\ n \in reg[svc] /\ answer # "malformed"
        /\ << svc, n >> \notin stale
        /\ \E ok \in ReplyOK(answer, sess[svc][n]) :
             \E site \in NextPark(sess[svc][n], ok, BudgetsExpire),
                a \in IF ok /\ svc = "verify" THEN OnChain ELSE {Nothing} :
               render(m, svc, n, site, a)
        /\ UNCHANGED stale
     \/ /\ n \in reg[svc] /\ answer # "malformed"
        /\ << svc, n >> \in stale
        /\ server' = "stuck"
        /\ UNCHANGED << sess, stale, reg, resp >>
  /\ UNCHANGED seq

\* A budget of a mint runs out while the host holds one of its requests; a
\* signature has no deadline.
BudgetExpires ==
  /\ BudgetsExpire /\ server # "ended"
  /\ \E n \in Numbers :
       /\ sess["mint"][n] \in Skippable
       /\ << "mint", n >> \notin stale
       /\ stale' = stale \cup {<< "mint", n >>}
  /\ UNCHANGED << sess, reg, seq, server, resp >>

\* The input ends, breaks off, or holds a line longer than the buffer.
EndOfInput ==
  /\ server = "reading"
  /\ server' = "ended"
  /\ UNCHANGED << sess, stale, reg, seq, resp >>

\* A handler that does not return keeps the loop, a loop that ended the process.
Halted == server # "reading" /\ UNCHANGED vars

Next ==
  \/ \E m \in Lines :
       \/ OtherLine(m)
       \/ \E svc \in Services :
            \/ StartSession(m, svc)
            \/ \E n \in Numbers, a \in Answers : ResumeSession(m, svc, n, a)
  \/ BudgetExpires
  \/ EndOfInput
  \/ Halted

Spec == Init /\ [][Next]_vars

-----------------------------------------------------------------------------
(* Properties.                                                             *)

\* Every variable keeps its type.
TypeOK ==
  /\ sess \in [Services -> [Numbers -> SessionStates]]
  /\ stale \subseteq Ids
  /\ reg \in [Services -> SUBSET Numbers]
  /\ seq \in [Services -> 0..MaxSessions]
  /\ server \in {"reading", "stuck", "ended"}
  /\ resp \in [ id : BOOLEAN, kind : Kinds, about : OnChain \cup {Nothing} ]

\* The registries hold exactly the sessions that wait for the host: a session
\* that ended is never resumed, one that has not can always be.
RegistryExact ==
  \A svc \in Services, n \in Numbers :
    n \in reg[svc] <=> sess[svc][n] \in HostCalls

\* A session that ended stays ended: its id is never given to another, so a
\* late or repeated resume cannot reach a session it was not meant for.
EndedStaysEnded ==
  [][\A svc \in Services, n \in Numbers :
       sess[svc][n] = "done" => sess'[svc][n] = "done"]_vars

\* "Guard against decoding a non-mint account as a valid mint, which would
\* otherwise report null authorities as a 'safe' token": a report of fixed
\* supply and no freeze is about a mint that has neither authority, and a
\* Token-2022 mint is reported as such.
SafeReportIsTrue ==
  /\ resp.kind = "safeReport" =>
       resp.about = [ is |-> "mint", mintAuthority |-> FALSE, freezeAuthority |-> FALSE ]
  /\ resp.about.is = "mint2022" => resp.kind = "report2022"

\* "a notification, which JSON-RPC forbids answering": a line that parses and
\* has no id gets no answer.
NotificationsUnanswered ==
  resp.kind \notin {"silent", "parseError"} => resp.id
=============================================================================
