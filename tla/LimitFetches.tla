----------------------------- MODULE LimitFetches -----------------------------
(***************************************************************************)
(* Learning the limits WhatsApp puts on an account (gows/gows.go, capping.go, *)
(* reachouttimelock.go): the new-chat capping and the reachout timelock are   *)
(* fetched by goroutines that a connect, a push, the hourly poll and a nack    *)
(* spawn, some of them throttled, and are emitted as events.                  *)
(*                                                                          *)
(* A source is what spawns the goroutines: a call whose message was nacked,   *)
(* or one of the session's own, which may fire again and again.  Time is       *)
(* abstracted to recent: the last fetch is younger than the minimal interval.  *)
(***************************************************************************)
EXTENDS Naturals

CONSTANTS NackedCalls,    \* the calls that may be nacked
          SessionSources  \* the session's connects, pushes and poll ticks

VARIABLES fetch,  \* where the goroutine of a source for a kind of limit is
          recent  \* the kinds fetched within cappingMin/timelockMinFetchInterval

limitVars == <<fetch, recent>>

LimitKinds == {"capping", "timelock"}
Sources == NackedCalls \cup SessionSources
Stages == {"none", "check", "stamp", "ask", "told", "failed", "skipped"}

LimitTypeOK ==
    /\ fetch \in [Sources \X LimitKinds -> Stages]
    /\ recent \subseteq LimitKinds

LimitInit ==
    /\ fetch = [g \in Sources \X LimitKinds |-> "none"]
    /\ recent = {}

-----------------------------------------------------------------------------
(* What spawns a fetch, and whether it bypasses the throttle *)

Spawned(s, stages) ==
    [g \in Sources \X LimitKinds |->
        IF g[1] = s /\ g[2] \in DOMAIN stages THEN stages[g[2]] ELSE fetch[g]]

\* Mutant: the capping after a nack goes through the throttle of the poll.
NackThrottled(code) ==
    IF code = "463" THEN [k \in LimitKinds |-> "check"] ELSE [k \in {"capping"} |-> "check"]

\* A 475 asks for the capping, a 463 for both, its timelock throttled.
NackFetches(code) ==
    IF code = "463"
      THEN [k \in LimitKinds |-> IF k = "capping" THEN "stamp" ELSE "check"]
      ELSE [k \in {"capping"} |-> "stamp"]

Idle(s) == \A k \in LimitKinds : fetch[<<s, k>>] = "none"

\* reissueEvent of a Connected event
Connected(s) ==
    /\ Idle(s)
    /\ fetch' = Spawned(s, [k \in LimitKinds |-> "stamp"])
    /\ UNCHANGED recent

\* reissueEvent of a NotifyAccountReachoutTimelock push
TimelockPushed(s) ==
    /\ Idle(s)
    /\ fetch' = Spawned(s, [k \in {"capping"} |-> "stamp"])
    /\ UNCHANGED recent

PollTick(s) ==
    /\ Idle(s)
    /\ fetch' = Spawned(s, [k \in {"capping"} |-> "check"])
    /\ UNCHANGED recent

-----------------------------------------------------------------------------
(* The goroutines *)

Step(s, k, from, to) ==
    /\ fetch[<<s, k>>] = from
    /\ fetch' = [fetch EXCEPT ![<<s, k>>] = to]

\* How the fetch of a call ended is kept; a source of the session may fire again.
End(s, how) == IF s \in SessionSources THEN "none" ELSE how

\* The throttle is read in one critical section ...
CheckThrottle(s, k) ==
    /\ Step(s, k, "check", IF k \in recent THEN End(s, "skipped") ELSE "stamp")
    /\ UNCHANGED recent

\* ... and set in another one.
Stamp(s, k) ==
    /\ Step(s, k, "stamp", "ask")
    /\ recent' = recent \cup {k}

\* The answer is emitted, by emitEvent.
Tell(s, k) ==
    /\ Step(s, k, "ask", End(s, "told"))
    /\ UNCHANGED recent

\* An error, no capping in the answer, 30 s without an answer, or the session's end.
FetchFails(s, k) ==
    /\ Step(s, k, "ask", End(s, "failed"))
    /\ UNCHANGED recent

Expire(k) ==
    /\ k \in recent
    /\ recent' = recent \ {k}
    /\ UNCHANGED fetch

GoFetch(s, k) == CheckThrottle(s, k) \/ Stamp(s, k) \/ Tell(s, k) \/ FetchFails(s, k)

LimitNext ==
    \/ \E s \in SessionSources : Connected(s) \/ TimelockPushed(s) \/ PollTick(s)
    \/ \E s \in Sources, k \in LimitKinds : GoFetch(s, k)
    \/ \E k \in LimitKinds : Expire(k)

\* Goroutines go on; a fetch has a timeout.
LimitFairness == \A s \in Sources, k \in LimitKinds : WF_limitVars(GoFetch(s, k))
=============================================================================
