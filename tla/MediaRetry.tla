------------------------------ MODULE MediaRetry ------------------------------
(***************************************************************************)
(* Downloading the media of a message (server/media.go, gows/media.go): when  *)
(* the CDN refuses, the sender's phone is asked to upload it again and its      *)
(* answer arrives as an event (gows/gows.go, reissueEvent), maybe late, maybe   *)
(* twice, maybe never.                                                        *)
(*                                                                          *)
(* One message: the cache of answers and the waiters are keyed by message id,  *)
(* so messages do not share anything.  A caller is one DownloadMedia call.      *)
(* The answers are numbered in the order in which they arrive.                  *)
(***************************************************************************)
EXTENDS Naturals, FiniteSets

CONSTANTS Callers,
          None,
          MaxAnswers  \* bound on the answers of the phone

ASSUME RetryAssumption ==
    /\ MaxAnswers \in Nat
    /\ None \notin Callers \cup Nat

VARIABLES pc,     \* where a call is
          waiter, \* mediaRetryWaiters: the call that owns the receipt in flight
          chan,   \* the channel a call made for its answer, capacity 1
          got,    \* the answer a call goes by
          cache,  \* mediaRetryEvents
          asked,  \* a receipt has been sent
          stage,  \* where the goroutine that handles an answer is
          good,   \* the answers that decrypt and say SUCCESS
          row,    \* the direct path in the message table: 0 = the original one
          judged  \* history: the answers some call found to be bad

retryVars == <<waiter, chan, cache>>
phoneVars == <<asked, stage, good>>
vars == <<pc, got, row, judged, retryVars, phoneVars>>

Answers == 1..MaxAnswers
Held == Answers \cup {None}
Ended == {"returned", "failed"}

TypeOK ==
    /\ pc \in [Callers -> Ended \cup {"idle", "download", "anonymous", "lookup", "register",
                                      "receipt", "wait", "poll", "judge", "again",
                                      "readRow", "writeRow"}]
    /\ waiter \in Callers \cup {None}
    /\ chan \in [Callers -> Held]
    /\ got \in [Callers -> Held]
    /\ cache \in Held
    /\ asked \in BOOLEAN
    /\ stage \in [Answers -> {"none", "cache", "notify", "done"}]
    /\ good \subseteq Answers
    /\ row \in 0..MaxAnswers \cup {None}
    /\ judged \subseteq Answers

Init ==
    /\ pc = [d \in Callers |-> "idle"]
    /\ waiter = None
    /\ chan = [d \in Callers |-> None]
    /\ got = [d \in Callers |-> None]
    /\ cache = None
    /\ asked = FALSE
    /\ stage = [e \in Answers |-> "none"]
    /\ good = {}
    /\ row \in {0, None}
    /\ judged = {}

GoTo(d, l) == pc' = [pc EXCEPT ![d] = l]

-----------------------------------------------------------------------------
(* The call, up to the retry *)

\* The message comes with the request or from the storage; without it, or without
\* a session, the call is refused.
Receive(d) ==
    /\ pc[d] = "idle"
    /\ \E l \in {"download", "failed"} : GoTo(d, l)
    /\ UNCHANGED <<got, row, judged, retryVars, phoneVars>>

\* A 403 is tried again anonymously; a 404, a 410 and a wrong hash go to the phone,
\* any other error, and a message without media or media key, to the caller.
Download(d) ==
    /\ pc[d] = "download"
    /\ \E l \in {"returned", "anonymous", "lookup", "failed"} : GoTo(d, l)
    /\ UNCHANGED <<got, row, judged, retryVars, phoneVars>>

DownloadAnonymous(d) ==
    /\ pc[d] = "anonymous"
    /\ \E l \in {"returned", "lookup", "failed"} : GoTo(d, l)
    /\ UNCHANGED <<got, row, judged, retryVars, phoneVars>>

-----------------------------------------------------------------------------
(* requestAndWaitForMediaRetry *)

GoBy(d, e) ==
    /\ got' = [got EXCEPT ![d] = e]
    /\ GoTo(d, "judge")

LookUp(d) ==
    /\ pc[d] = "lookup"
    /\ IF cache # None THEN GoBy(d, cache) ELSE GoTo(d, "register") /\ UNCHANGED got
    /\ UNCHANGED <<row, judged, retryVars, phoneVars>>

\* Mutant: Load and Store instead of LoadOrStore, a second waiter replaces the first.
RegisterOver(d) ==
    /\ pc[d] = "register"
    /\ waiter' = d
    /\ GoTo(d, "receipt")
    /\ UNCHANGED <<chan, cache, got, row, judged, phoneVars>>

\* LoadOrStore
Register(d) ==
    /\ pc[d] = "register"
    /\ IF waiter = None
         THEN waiter' = d /\ GoTo(d, "receipt")
         ELSE GoTo(d, "poll") /\ UNCHANGED waiter
    /\ UNCHANGED <<chan, cache, got, row, judged, phoneVars>>

SendReceipt(d) ==
    /\ pc[d] = "receipt"
    /\ GoTo(d, "wait")
    /\ asked' = TRUE
    /\ UNCHANGED <<got, row, judged, stage, good, retryVars>>

\* Every way out of the wait removes the waiter, by the deferred Delete.
ReceiptFails(d) ==
    /\ pc[d] = "receipt"
    /\ GoTo(d, "failed")
    /\ waiter' = None
    /\ UNCHANGED <<chan, cache, got, row, judged, phoneVars>>

WaitGets(d) ==
    /\ pc[d] = "wait"
    /\ chan[d] # None
    /\ GoBy(d, chan[d])
    /\ waiter' = None
    /\ UNCHANGED <<chan, cache, row, judged, phoneVars>>

\* 60 s, or the end of the caller's context.
WaitTimesOut(d) ==
    /\ pc[d] = "wait"
    /\ GoTo(d, "failed")
    /\ waiter' = None
    /\ UNCHANGED <<chan, cache, got, row, judged, phoneVars>>

PollGets(d) ==
    /\ pc[d] = "poll"
    /\ cache # None
    /\ GoBy(d, cache)
    /\ UNCHANGED <<row, judged, retryVars, phoneVars>>

\* Mutant: only an answer ends the polling.
PollNeverTimesOut(d) == FALSE /\ UNCHANGED vars

PollTimesOut(d) ==
    /\ pc[d] = "poll"
    /\ GoTo(d, "failed")
    /\ UNCHANGED <<got, row, judged, retryVars, phoneVars>>

-----------------------------------------------------------------------------
(* The answer, and what is left of the call *)

\* A bad answer is dropped from the cache, by the message id.
JudgeBad(d) ==
    /\ pc[d] = "judge"
    /\ got[d] \notin good
    /\ cache' = None
    /\ judged' = judged \cup {got[d]}
    /\ GoTo(d, "failed")
    /\ UNCHANGED <<waiter, chan, got, row, phoneVars>>

JudgeGood(d) ==
    /\ pc[d] = "judge"
    /\ got[d] \in good
    /\ GoTo(d, "again")
    /\ UNCHANGED <<got, row, judged, retryVars, phoneVars>>

\* The second download, by the new path: its failure leaves the answer in the cache.
DownloadAgain(d) ==
    /\ pc[d] = "again"
    /\ \E l \in {"readRow", "failed"} : GoTo(d, l)
    /\ UNCHANGED <<got, row, judged, retryVars, phoneVars>>

\* persistRefreshedDirectPath is best effort: the data is returned in any case.
ReadRow(d) ==
    /\ pc[d] = "readRow"
    /\ \/ row # None /\ GoTo(d, "writeRow")
       \/ GoTo(d, "returned")
    /\ UNCHANGED <<got, row, judged, retryVars, phoneVars>>

WriteRow(d) ==
    /\ pc[d] = "writeRow"
    /\ row' \in {row, got[d]}
    /\ GoTo(d, "returned")
    /\ UNCHANGED <<got, judged, retryVars, phoneVars>>

-----------------------------------------------------------------------------
(* The answers *)

\* Mutant: the waiter is told before the answer is cached.
NotifyFirst == <<"notify", "cache", "done">>

\* reissueEvent, in a goroutine for each answer
HandlerSteps == <<"cache", "notify", "done">>
NextStep(l) == IF l = HandlerSteps[1] THEN HandlerSteps[2] ELSE HandlerSteps[3]

\* The phone answers a receipt, good or bad, perhaps more than once.
PhoneAnswers(e) ==
    /\ asked
    /\ stage[e] = "none"
    /\ \A f \in 1..(e - 1) : stage[f] # "none"
    /\ stage' = [stage EXCEPT ![e] = HandlerSteps[1]]
    /\ good' \in {good, good \cup {e}}
    /\ UNCHANGED <<pc, got, row, judged, asked, retryVars>>

\* "Always cache so that callers whose 60 s wait already expired can still pick up
\* the result"
CacheAnswer(e) ==
    /\ stage[e] = "cache"
    /\ cache' = e
    /\ stage' = [stage EXCEPT ![e] = NextStep("cache")]
    /\ UNCHANGED <<pc, got, row, judged, waiter, chan, asked, good>>

\* The send does not block: a waiter that has its answer already keeps it.
NotifyWaiter(e) ==
    /\ stage[e] = "notify"
    /\ stage' = [stage EXCEPT ![e] = NextStep("notify")]
    /\ chan' = [d \in Callers |-> IF d = waiter /\ chan[d] = None THEN e ELSE chan[d]]
    /\ UNCHANGED <<pc, got, row, judged, waiter, cache, asked, good>>

\* 24 h after it was last used
Evict ==
    /\ cache # None
    /\ cache' = None
    /\ UNCHANGED <<pc, got, row, judged, waiter, chan, phoneVars>>

-----------------------------------------------------------------------------
CallStep(d) ==
    \/ Download(d) \/ DownloadAnonymous(d)
    \/ LookUp(d) \/ Register(d) \/ SendReceipt(d) \/ ReceiptFails(d)
    \/ WaitGets(d) \/ WaitTimesOut(d) \/ PollGets(d) \/ PollTimesOut(d)
    \/ JudgeBad(d) \/ JudgeGood(d) \/ DownloadAgain(d) \/ ReadRow(d) \/ WriteRow(d)

Next ==
    \/ \E d \in Callers : Receive(d) \/ CallStep(d)
    \/ \E e \in Answers : PhoneAnswers(e) \/ CacheAnswer(e) \/ NotifyWaiter(e)
    \/ Evict

Spec == Init /\ [][Next]_vars

\* A call goes on: its downloads and waits have timeouts.  The phone owes nothing.
FairSpec == Spec /\ \A d \in Callers : WF_vars(CallStep(d))

-----------------------------------------------------------------------------
(* Properties *)

\* requestAndWaitForMediaRetry sends "at most once per message while a receipt is
\* already in-flight": one call at most is between its registration and the end of
\* its wait, and mediaRetryWaiters names it.
OneReceiptInFlight ==
    \A d \in Callers : pc[d] \in {"receipt", "wait"} <=> waiter = d

\* An answer that was found to be bad is never found in the cache again, so that the
\* next attempt asks the phone anew, whoever was told first and whoever waited.
BadAnswerIsForgotten == cache \notin judged

\* Every call ends, with the media or with the error of its download, whether the
\* phone answers or not.
CallsReturn == \A d \in Callers : pc[d] = "download" ~> pc[d] \in Ended
=============================================================================
