----------------------------- MODULE ManualClock -----------------------------
(***************************************************************************)
(* clock.Manual and its timers (clock/clock.go, clock/timer.go): a clock   *)
(* that moves when it is told to, forward or back, and timers whose        *)
(* channel has room for one value.  Every method holds the mutex, so it is *)
(* one step; only the owner's receive from the channel does not.           *)
(***************************************************************************)
EXTENDS Integers, SequencesExt

CONSTANTS
  Timers,     \* the timers that may be made
  MaxTime,    \* bound: the clock stays within 0..MaxTime
  Durations   \* what NewTimer, Reset and Advance are given, also <= 0

ASSUME ClockAssumption == MaxTime \in Nat /\ Durations \subseteq Int

VARIABLES
  t,         \* m.t
  timers,    \* m.timers, the pending timers
  deadline,  \* deadline of each timer
  c,         \* the value in the channel of each timer, or Empty
  fate       \* what became of the last arming of each timer, for its owner

vars == << t, timers, deadline, c, fate >>

Empty == -1
Never == -1

\* "unmade"; "due" from NewTimer or Reset on; "received" once the owner has
\* taken the fire; "stopped" once Stop has said that there will be none.
Fates == {"unmade", "due", "received", "stopped"}

Pending(x) == Contains(timers, x)

Init ==
  /\ t = 0
  /\ timers = << >>
  /\ deadline = [x \in Timers |-> Never]
  /\ c = [x \in Timers |-> Empty]
  /\ fate = [x \in Timers |-> "unmade"]

-----------------------------------------------------------------------------
\* Mutant: the fire of an earlier arming stays in the channel.
drainNot(v) == v

\* The select of Reset: take what is in the channel, if anything.
drain(v) == Empty

\* Mutant: the timer is not taken out of the list.
removeLockedNot(x) == timers

removeLocked(x) == RemoveFirst(timers, x)

\* The send that does not block: it is dropped if the slot is taken.
fireLocked(v, now) == IF v = Empty THEN now ELSE v

\* Arm x to fire after d, `rest` being the other pending timers and v what is
\* in its channel: at once, or when the clock gets there.
Arm(x, d, rest, v) ==
  /\ deadline' = [deadline EXCEPT ![x] = t + d]
  /\ fate' = [fate EXCEPT ![x] = "due"]
  /\ timers' = (IF d <= 0 THEN rest ELSE Append(rest, x))
  /\ c' = [c EXCEPT ![x] = IF d <= 0 THEN fireLocked(v, t) ELSE v]
  /\ UNCHANGED t

NewTimer ==
  \E x \in Timers, d \in Durations :
    fate[x] = "unmade" /\ Arm(x, d, timers, Empty)

Reset ==
  \E x \in Timers, d \in Durations :
    fate[x] # "unmade" /\ Arm(x, d, removeLocked(x), drain(c[x]))

\* Stop reports whether the timer was pending; only then is there no fire.
Stop ==
  \E x \in Timers :
    /\ fate[x] # "unmade"
    /\ timers' = removeLocked(x)
    /\ fate' = [fate EXCEPT ![x] = IF Pending(x) THEN "stopped" ELSE @]
    /\ UNCHANGED << t, deadline, c >>

\* Mutant: a timer fires once the clock is past its deadline.
dueAfter(x, now) == deadline[x] < now

\* Not After: at its deadline a timer is due.
due(x, now) == deadline[x] <= now

\* The loop over the pending timers: those that are not due stay, in order.
kept(now) ==
  LET keep[i \in 0..Len(timers)] ==
        IF i = 0 THEN << >>
        ELSE IF due(timers[i], now) THEN keep[i-1] ELSE Append(keep[i-1], timers[i])
  IN  keep[Len(timers)]

\* fireDueLocked, after the clock was moved.
fireDueLocked(now) ==
  /\ timers' = kept(now)
  /\ c' = [x \in Timers |-> IF Pending(x) /\ due(x, now)
                            THEN fireLocked(c[x], now) ELSE c[x]]

MoveTo(now) ==
  /\ now \in 0..MaxTime
  /\ t' = now
  /\ fireDueLocked(now)
  /\ UNCHANGED << deadline, fate >>

Advance == \E d \in Durations : MoveTo(t + d)

Set == \E now \in 0..MaxTime : MoveTo(now)

\* The owner receives from C().
Receive ==
  \E x \in Timers :
    /\ c[x] # Empty
    /\ c' = [c EXCEPT ![x] = Empty]
    /\ fate' = [fate EXCEPT ![x] = "received"]
    /\ UNCHANGED << t, timers, deadline >>

Next == NewTimer \/ Reset \/ Stop \/ Advance \/ Set \/ Receive

Spec == Init /\ [][Next]_vars

-----------------------------------------------------------------------------
(* Properties.                                                             *)

\* Every variable keeps its type, and no timer is listed twice.
TypeOK ==
  /\ t \in 0..MaxTime
  /\ timers \in Seq(Timers) /\ IsInjective(timers)
  /\ deadline \in [Timers -> Int]
  /\ c \in [Timers -> 0..MaxTime \cup {Empty}]
  /\ fate \in [Timers -> Fates]

\* No fire is lost or doubled, however Reset, Stop, the clock and the owner's
\* receive interleave: a timer that was armed and not stopped is pending, or
\* its fire is in the channel, or the owner has it; exactly one of the three,
\* and none for a timer whose Stop reported true.
EveryArmingHasOneFate ==
  \A x \in Timers :
    CASE fate[x] = "due" -> Pending(x) # (c[x] # Empty)
      [] OTHER           -> ~Pending(x) /\ c[x] = Empty

\* A fire never comes before the deadline of the arming it stands for, even if
\* an earlier fire was waiting when the timer was reset.
NoEarlyFire == \A x \in Timers : c[x] # Empty => c[x] >= deadline[x]

\* The clock never stands at or past the deadline of a timer still pending,
\* though it may be set back and forth.
PendingIsAhead == \A x \in Timers : Pending(x) => deadline[x] > t
=============================================================================
