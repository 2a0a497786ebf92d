-------------------------- MODULE TokenServiceProofs --------------------------
(***************************************************************************)
(* What the token service keeps under every order and form of calls, for   *)
(* any number of sessions: its registries are exact, an id is never used   *)
(* again, and a safe report is true of the account it is about.            *)
(***************************************************************************)
EXTENDS TokenService, TLAPS

\* Wherever a lifecycle goes, it goes to a site or to its end.
LEMMA SuccType ==
  ASSUME NEW s, NEW b \in BOOLEAN
  PROVE  Succ(s, b) \subseteq Sites \cup {"done"}
  BY DEF Succ, Sites, SessionSites, OpSites, CheckSites

\* So it does over any number of steps its host does not see.
LEMMA OnwardType ==
  ASSUME NEW S, S \subseteq Sites \cup {"done"}, NEW l \in BOOLEAN
  PROVE  Onward(S, l) \subseteq Sites \cup {"done"}
  <1>1. UNION { Succ("poll", b) : b \in BOOLEAN } \subseteq Sites \cup {"done"}
    BY SuccType
  <1>2. UNION { Succ(s, FALSE) : s \in S \cap Skippable } \subseteq Sites \cup {"done"}
    BY SuccType
  <1> QED
    BY <1>1, <1>2 DEF Onward

\* A session parks on a host call or is done.
LEMMA NextParkType ==
  ASSUME NEW s, NEW b \in BOOLEAN, NEW l \in BOOLEAN
  PROVE  NextPark(s, b, l) \subseteq HostCalls \cup {"done"}
  <1>1. Unseen(s, b, l) \subseteq Sites \cup {"done"}
    BY SuccType, OnwardType DEF Unseen
  <1> QED
    BY <1>1 DEF NextPark, HostCalls

\* A lifecycle first parks on a host call, or ends.
LEMMA FirstParkType ==
  ASSUME NEW svc \in Services
  PROVE  FirstPark(svc) \subseteq HostCalls \cup {"done"}
  BY DEF FirstPark, HostCalls, Sites, SessionSites, OpSites, CheckSites

\* "none" and "done" are no host calls.
LEMMA EndsAreNoCalls == "none" \notin HostCalls /\ "done" \notin HostCalls
  BY DEF HostCalls, Sites, SessionSites, OpSites, CheckSites

\* Every way dispatch takes is an answer of its kind, or a tool call.
LEMMA DispatchType ==
  ASSUME NEW m \in Lines, Dispatch(m) # "call"
  PROVE  Dispatch(m) \in Kinds \ {"safeReport", "report2022", "report"}
  BY DEF Dispatch, Lines, Kinds, Plain, Notifications, Methods

-----------------------------------------------------------------------------
(* Reports.                                                                *)

SafeMint == [ is |-> "mint", mintAuthority |-> FALSE, freezeAuthority |-> FALSE ]

\* Of an account that looks like v: a report is safe only if the account is a
\* mint without authorities, and a Token-2022 mint has a report of its own.
LEMMA ReportFacts ==
  ASSUME NEW a \in OnChain, NEW v \in Seen(a)
  PROVE  /\ reportKind(v) \in Kinds
         /\ reportKind(v) = "safeReport" => a = SafeMint
         /\ a.is = "mint2022" => reportKind(v) = "report2022"
  <1>1. /\ v \in Views
        /\ v.owner = (CASE a.is = "mint2022" -> "token2022"
                        [] a.is = "foreign"  -> "other"
                        [] OTHER             -> "classic")
        /\ a.is \in {"tokenAccount", "multisig"} => ~v.sized
        /\ v.initialized => a.is # "blankMint"
        /\ a.is = "mint" => /\ v.mintAuthority = a.mintAuthority
                            /\ v.freezeAuthority = a.freezeAuthority
    BY DEF Seen
  <1>2. a.is \in {"mint", "blankMint", "tokenAccount", "multisig", "mint2022", "foreign"}
    BY DEF OnChain
  <1>3. reportKind(v) \in Kinds
    BY DEF reportKind, Kinds
  <1>4. ASSUME reportKind(v) = "safeReport" PROVE a = SafeMint
    <2>1. VerifyView(v) = "mint" /\ ~v.mintAuthority /\ ~v.freezeAuthority
      BY <1>4 DEF reportKind, VerifyView, SupplyFixed, Freezable
    <2>2. v.owner = "classic" /\ v.sized /\ v.initialized
      BY <2>1 DEF VerifyView
    <2>3. a.is = "mint"
      BY <1>1, <1>2, <2>2
    <2>4. a \in [ is : {"mint"}, mintAuthority : BOOLEAN, freezeAuthority : BOOLEAN ]
      BY <2>3 DEF OnChain
    <2>5. a.mintAuthority = FALSE /\ a.freezeAuthority = FALSE
      BY <1>1, <2>1, <2>3, <2>4
    <2> QED
      BY <2>3, <2>4, <2>5 DEF SafeMint
  <1>5. ASSUME a.is = "mint2022" PROVE reportKind(v) = "report2022"
    BY <1>1, <1>5 DEF reportKind, VerifyView
  <1> QED
    BY <1>3, <1>4, <1>5

-----------------------------------------------------------------------------
(* The inductive invariant.                                                *)

\* RegistryExact and EndedStaysEnded need to know where the next id lies: no
\* session has a number beyond the counter.
NumberInv ==
  \A svc \in Services, n \in Numbers : n > seq[svc] => sess[svc][n] = "none"

ServiceInv == TypeOK /\ RegistryExact /\ NumberInv /\ SafeReportIsTrue

\* The service starts with empty registries.
LEMMA InitService == Init => ServiceInv
  <1> SUFFICES ASSUME Init PROVE ServiceInv
    OBVIOUS
  <1>1. TypeOK
    BY ServiceAssumption DEF Init, TypeOK, SessionStates, Kinds, Services, Numbers, Ids
  <1>2. RegistryExact /\ NumberInv
    BY EndsAreNoCalls DEF Init, RegistryExact, NumberInv
  <1>3. SafeReportIsTrue
    BY DEF Init, SafeReportIsTrue, Nothing
  <1> QED
    BY <1>1, <1>2, <1>3 DEF ServiceInv

\* What one answer leaves: a response of its type, and a loop that reads on or
\* has ended.
AnswerOK ==
  /\ resp' \in [ id : BOOLEAN, kind : Kinds, about : OnChain \cup {Nothing} ]
  /\ server' \in {"reading", "stuck", "ended"}
  /\ SafeReportIsTrue'

\* An answer that is no report is about nothing, so it cannot mislead.
LEMMA PlainAnswer ==
  ASSUME NEW m \in Lines, NEW kind \in Kinds \ {"safeReport"},
         Answered(m, kind, Nothing)
  PROVE  AnswerOK
  <1>1. m.id \in BOOLEAN
    BY DEF Lines
  <1> QED
    BY <1>1 DEF Answered, AnswerOK, SafeReportIsTrue, Nothing

\* A report on an account is true of it.
LEMMA ReportAnswer ==
  ASSUME NEW m \in Lines, NEW a \in OnChain, NEW v \in Seen(a),
         Answered(m, reportKind(v), a)
  PROVE  AnswerOK
  <1>1. m.id \in BOOLEAN
    BY DEF Lines
  <1>2. /\ resp' = [ id |-> m.id, kind |-> reportKind(v), about |-> a ]
        /\ server' \in {"reading", "ended"}
    BY DEF Answered
  <1>3. SafeReportIsTrue'
    BY <1>2, ReportFacts DEF SafeReportIsTrue, SafeMint
  <1> QED
    BY <1>1, <1>2, <1>3, ReportFacts DEF AnswerOK

\* render keeps the registry exact and gives a true answer.
LEMMA RenderStep ==
  ASSUME ServiceInv, NEW m \in Lines, NEW svc \in Services, NEW n \in Numbers,
         NEW site \in HostCalls \cup {"done"}, NEW a \in OnChain \cup {Nothing},
         render(m, svc, n, site, a)
  PROVE  /\ sess' = [sess EXCEPT ![svc][n] = site]
         /\ sess' \in [Services -> [Numbers -> SessionStates]]
         /\ reg' \in [Services -> SUBSET Numbers]
         /\ RegistryExact'
         /\ AnswerOK
  <1>1. sess \in [Services -> [Numbers -> SessionStates]] /\ reg \in [Services -> SUBSET Numbers]
    BY DEF ServiceInv, TypeOK
  <1>2. /\ sess' = [sess EXCEPT ![svc][n] = site]
        /\ reg' = [reg EXCEPT ![svc] = IF site = "done" THEN @ \ {n} ELSE @ \cup {n}]
    BY DEF render
  <1>3. sess' \in [Services -> [Numbers -> SessionStates]]
    BY <1>1, <1>2 DEF SessionStates
  <1>4. reg' \in [Services -> SUBSET Numbers]
    BY <1>1, <1>2
  <1>5. RegistryExact'
    <2> SUFFICES ASSUME NEW s \in Services, NEW k \in Numbers
                 PROVE  k \in reg'[s] <=> sess'[s][k] \in HostCalls
      BY DEF RegistryExact
    <2>1. k \in reg[s] <=> sess[s][k] \in HostCalls
      BY DEF ServiceInv, RegistryExact
    <2>2. CASE s = svc /\ k = n
      BY <1>1, <1>2, <2>2, EndsAreNoCalls
    <2>3. CASE ~(s = svc /\ k = n)
      <3>1. sess'[s][k] = sess[s][k]
        BY <1>1, <1>2, <2>3
      <3>2. k \in reg'[s] <=> k \in reg[s]
        BY <1>1, <1>2, <2>3
      <3> QED
        BY <2>1, <3>1, <3>2
    <2> QED
      BY <2>2, <2>3
  <1>6. AnswerOK
    <2>1. CASE Answered(m, "call", Nothing) \/ Answered(m, "outcome", Nothing)
               \/ Answered(m, "toolError", Nothing)
      BY <2>1, PlainAnswer DEF Kinds
    <2>2. CASE a # Nothing /\ \E v \in Seen(a) : Answered(m, reportKind(v), a)
      BY <2>2, ReportAnswer
    <2> QED
      BY <2>1, <2>2 DEF render
  <1> QED
    BY <1>2, <1>3, <1>4, <1>5, <1>6

\* A start takes the next number, which no session has had.
LEMMA StartStep ==
  ASSUME ServiceInv, NEW m \in Lines, NEW svc \in Services, StartSession(m, svc)
  PROVE  /\ ServiceInv'
         /\ \A s \in Services, k \in Numbers :
              sess[s][k] = "done" => sess'[s][k] = "done"
  <1> DEFINE n == seq[svc] + 1
  <1>0. /\ seq \in [Services -> 0..MaxSessions] /\ seq[svc] < MaxSessions
        /\ seq' = [seq EXCEPT ![svc] = @ + 1] /\ stale' = stale
        /\ sess \in [Services -> [Numbers -> SessionStates]]
    BY DEF StartSession, ServiceInv, TypeOK
  <1>1. n \in Numbers /\ seq' \in [Services -> 0..MaxSessions]
    BY <1>0, ServiceAssumption DEF Numbers
  <1>2. PICK site \in FirstPark(svc) : render(m, svc, n, site, Nothing)
    BY DEF StartSession, storeNumber
  <1>3. site \in HostCalls \cup {"done"}
    BY FirstParkType
  <1> HIDE DEF n
  <1>4. /\ sess' = [sess EXCEPT ![svc][n] = site]
        /\ sess' \in [Services -> [Numbers -> SessionStates]]
        /\ reg' \in [Services -> SUBSET Numbers]
        /\ RegistryExact'
        /\ AnswerOK
    BY <1>1, <1>2, <1>3, RenderStep
  <1>5. sess[svc][n] = "none"
    BY <1>0, <1>1 DEF n, ServiceInv, NumberInv
  <1>6. NumberInv'
    <2> SUFFICES ASSUME NEW s \in Services, NEW k \in Numbers, k > seq'[s]
                 PROVE  sess'[s][k] = "none"
      BY DEF NumberInv
    <2>1. k > seq[s] /\ ~(s = svc /\ k = n)
      BY <1>0, ServiceAssumption DEF n, Numbers
    <2>2. sess'[s][k] = sess[s][k]
      BY <1>0, <1>4, <2>1
    <2> QED
      BY <2>1, <2>2 DEF ServiceInv, NumberInv
  <1>7. TypeOK'
    BY <1>0, <1>1, <1>4 DEF TypeOK, AnswerOK, ServiceInv
  <1>8. ASSUME NEW s \in Services, NEW k \in Numbers, sess[s][k] = "done"
        PROVE  sess'[s][k] = "done"
    BY <1>0, <1>1, <1>4, <1>5, <1>8
  <1> QED
    BY <1>4, <1>6, <1>7, <1>8 DEF ServiceInv, AnswerOK

\* A resume moves a session that is in the registry, and no other.
LEMMA ResumeStep ==
  ASSUME ServiceInv, NEW m \in Lines, NEW svc \in Services, NEW n \in Numbers,
         NEW answer \in Answers, ResumeSession(m, svc, n, answer)
  PROVE  /\ ServiceInv'
         /\ \A s \in Services, k \in Numbers :
              sess[s][k] = "done" => sess'[s][k] = "done"
  <1>0. /\ sess \in [Services -> [Numbers -> SessionStates]] /\ seq' = seq
        /\ stale' = stale
    BY DEF ResumeSession, ServiceInv, TypeOK
  <1>1. CASE Answered(m, "toolError", Nothing) /\ UNCHANGED << sess, stale, reg >>
    <2>1. AnswerOK
      BY <1>1, PlainAnswer DEF Kinds
    <2> QED
      BY <1>0, <1>1, <2>1
      DEF ServiceInv, TypeOK, RegistryExact, NumberInv, AnswerOK
  <1>2. CASE server' = "stuck" /\ UNCHANGED << sess, stale, reg, resp >>
    BY <1>0, <1>2 DEF ServiceInv, TypeOK, RegistryExact, NumberInv, SafeReportIsTrue
  <1>3. CASE /\ n \in reg[svc]
             /\ \E ok \in ReplyOK(answer, sess[svc][n]) :
                  \E site \in NextPark(sess[svc][n], ok, BudgetsExpire),
                     a \in IF ok /\ svc = "verify" THEN OnChain ELSE {Nothing} :
                    render(m, svc, n, site, a)
    <2>1. PICK ok \in ReplyOK(answer, sess[svc][n]) :
            \E site \in NextPark(sess[svc][n], ok, BudgetsExpire),
               a \in IF ok /\ svc = "verify" THEN OnChain ELSE {Nothing} :
              render(m, svc, n, site, a)
      BY <1>3
    <2>2. ok \in BOOLEAN
      BY DEF ReplyOK, Answers
    <2>3. PICK site \in NextPark(sess[svc][n], ok, BudgetsExpire),
               a \in OnChain \cup {Nothing} : render(m, svc, n, site, a)
      BY <2>1, <2>2
    <2>4. site \in HostCalls \cup {"done"}
      BY <2>2, <2>3, NextParkType, ServiceAssumption
    <2>5. /\ sess' = [sess EXCEPT ![svc][n] = site]
          /\ sess' \in [Services -> [Numbers -> SessionStates]]
          /\ reg' \in [Services -> SUBSET Numbers]
          /\ RegistryExact'
          /\ AnswerOK
      BY <2>3, <2>4, RenderStep
    <2>6. sess[svc][n] # "none" /\ sess[svc][n] # "done"
      BY <1>3, EndsAreNoCalls DEF ServiceInv, RegistryExact
    <2>7. NumberInv'
      BY <1>0, <2>5, <2>6 DEF ServiceInv, NumberInv
    <2>8. TypeOK'
      BY <1>0, <2>5 DEF TypeOK, AnswerOK, ServiceInv
    <2>9. ASSUME NEW s \in Services, NEW k \in Numbers, sess[s][k] = "done"
          PROVE  sess'[s][k] = "done"
      BY <1>0, <2>5, <2>6, <2>9
    <2> QED
      BY <2>5, <2>7, <2>8, <2>9 DEF ServiceInv, AnswerOK
  <1> QED
    BY <1>1, <1>2, <1>3 DEF ResumeSession

\* Every step keeps the invariant and leaves what ended as it is.
LEMMA NextService ==
  ServiceInv /\ [Next]_vars =>
    /\ ServiceInv'
    /\ \A svc \in Services, n \in Numbers :
         sess[svc][n] = "done" => sess'[svc][n] = "done"
  <1> SUFFICES ASSUME ServiceInv, [Next]_vars
               PROVE  /\ ServiceInv'
                      /\ \A svc \in Services, n \in Numbers :
                           sess[svc][n] = "done" => sess'[svc][n] = "done"
    OBVIOUS
  <1>1. ASSUME NEW m \in Lines, OtherLine(m)
        PROVE  /\ AnswerOK /\ UNCHANGED << sess, stale, reg, seq >>
    <2>1. CASE Dispatch(m) # "call" /\ Answered(m, Dispatch(m), Nothing)
      BY <1>1, <2>1, DispatchType, PlainAnswer DEF OtherLine
    <2>2. CASE \E k \in {"invalidParams", "toolError"} : Answered(m, k, Nothing)
      BY <1>1, <2>2, PlainAnswer DEF OtherLine, Kinds
    <2> QED
      BY <1>1, <2>1, <2>2 DEF OtherLine
  <1>2. CASE \E m \in Lines : OtherLine(m)
    BY <1>1, <1>2 DEF ServiceInv, TypeOK, RegistryExact, NumberInv, AnswerOK
  <1>3. CASE \E m \in Lines, svc \in Services : StartSession(m, svc)
    BY <1>3, StartStep
  <1>4. CASE \E m \in Lines, svc \in Services, n \in Numbers, a \in Answers :
               ResumeSession(m, svc, n, a)
    BY <1>4, ResumeStep
  <1>5. CASE BudgetExpires
    <2>1. stale' \subseteq Ids
      BY <1>5 DEF BudgetExpires, ServiceInv, TypeOK, Ids, Services
    <2> QED
      BY <1>5, <2>1 DEF BudgetExpires, ServiceInv, TypeOK, RegistryExact,
                        NumberInv, SafeReportIsTrue
  <1>6. CASE EndOfInput
    BY <1>6 DEF EndOfInput, ServiceInv, TypeOK, RegistryExact, NumberInv,
                SafeReportIsTrue
  <1>7. CASE UNCHANGED vars
    BY <1>7 DEF vars, ServiceInv, TypeOK, RegistryExact, NumberInv,
                SafeReportIsTrue
  <1> QED
    BY <1>2, <1>3, <1>4, <1>5, <1>6, <1>7 DEF Next, Halted

-----------------------------------------------------------------------------
(* The theorems.                                                           *)

\* The invariant of the token service, for any number of sessions of each tool
\* and for hosts that keep to the budgets as for hosts that do not.
THEOREM ServiceInvariant == Spec => []ServiceInv
  BY InitService, NextService, PTL DEF Spec

\* Every variable of the service keeps its type: what a session parks on is a
\* host call or its end, never a site the host cannot answer.
THEOREM TypeCorrect == Spec => []TypeOK
  <1>1. ServiceInv => TypeOK
    BY DEF ServiceInv
  <1> QED
    BY <1>1, ServiceInvariant, PTL

\* The maps of registry[T] hold exactly the sessions that wait for the host,
\* whatever is resumed twice, late, in the wrong form or not at all.
THEOREM RegistriesExact == Spec => []RegistryExact
  <1>1. ServiceInv => RegistryExact
    BY DEF ServiceInv
  <1> QED
    BY <1>1, ServiceInvariant, PTL

\* "SAFE" is only said of a mint that has neither authority, whatever lies at
\* the address token_verify was given.
THEOREM SafeReportsTrue == Spec => []SafeReportIsTrue
  <1>1. ServiceInv => SafeReportIsTrue
    BY DEF ServiceInv
  <1> QED
    BY <1>1, ServiceInvariant, PTL

\* No id is given out twice and no ended session is entered again.
THEOREM IdsAreNotReused == Spec => EndedStaysEnded
  <1>1. ServiceInv /\ [Next]_vars =>
          [\A svc \in Services, n \in Numbers :
             sess[svc][n] = "done" => sess'[svc][n] = "done"]_vars
    BY NextService
  <1> QED
    BY <1>1, ServiceInvariant, PTL DEF Spec, EndedStaysEnded
=============================================================================
