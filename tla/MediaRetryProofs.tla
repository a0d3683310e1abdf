-------------------------- MODULE MediaRetryProofs --------------------------
(***************************************************************************)
(* Safety of MediaRetry for any number of callers and answers.              *)
(***************************************************************************)
EXTENDS MediaRetry, TLAPS

-----------------------------------------------------------------------------
(* The inductive invariant: an answer has been cached before anyone can go by it, so
   that nothing caches it again once it was judged; and who registers owns the waiter
   until its wait is over. *)

Cached == {e \in Answers : stage[e] \in {"notify", "done"}}

OnlyCached ==
    /\ cache # None => cache \in Cached
    /\ \A d \in Callers : chan[d] # None => chan[d] \in Cached
    /\ \A d \in Callers : got[d] # None => got[d] \in Cached
    /\ \A d \in Callers : pc[d] \in {"judge", "again", "readRow", "writeRow"} => got[d] # None
    /\ judged \subseteq Cached

IInv == TypeOK /\ OnlyCached /\ OneReceiptInFlight /\ BadAnswerIsForgotten

LEMMA Steps ==
    /\ HandlerSteps[1] = "cache" /\ NextStep("cache") = "notify" /\ NextStep("notify") = "done"
BY DEF HandlerSteps, NextStep

LEMMA NoneIsNoAnswer == None \notin Answers /\ None \notin Callers
BY RetryAssumption DEF Answers

\* Going to a place that is neither within the wait nor past an answer.
LEMMA MovesKeep ==
    ASSUME IInv, NEW d \in Callers,
           NEW l \in Ended \cup {"idle", "download", "anonymous", "lookup", "register", "poll"},
           pc[d] \notin {"receipt", "wait"},
           GoTo(d, l), UNCHANGED <<got, row, judged, retryVars, phoneVars>>
    PROVE  IInv'
BY NoneIsNoAnswer
DEF IInv, TypeOK, OnlyCached, OneReceiptInFlight, BadAnswerIsForgotten, Cached, GoTo, Ended,
    retryVars, phoneVars, Held

LEMMA CallKeeps ==
    ASSUME IInv, NEW d \in Callers, Receive(d) \/ CallStep(d)
    PROVE  IInv'
<1> USE NoneIsNoAnswer
<1>1. CASE \/ Receive(d) \/ Download(d) \/ DownloadAnonymous(d) \/ PollTimesOut(d)
  BY <1>1, MovesKeep DEF Receive, Download, DownloadAnonymous, PollTimesOut, Ended
<1> USE DEF IInv, TypeOK, OnlyCached, OneReceiptInFlight, BadAnswerIsForgotten, Cached, GoTo, GoBy,
            Ended, Held, retryVars, phoneVars
<1>2. CASE LookUp(d) BY <1>2 DEF LookUp
<1>3. CASE Register(d) BY <1>3 DEF Register
<1>4. CASE SendReceipt(d) BY <1>4 DEF SendReceipt
<1>5. CASE ReceiptFails(d) BY <1>5 DEF ReceiptFails
<1>6. CASE WaitGets(d) BY <1>6 DEF WaitGets
<1>7. CASE WaitTimesOut(d) BY <1>7 DEF WaitTimesOut
<1>8. CASE PollGets(d) BY <1>8 DEF PollGets
<1>9. CASE JudgeBad(d)
  <2>1. got[d] \in Cached BY <1>9 DEF JudgeBad
  <2> QED BY <1>9, <2>1 DEF JudgeBad
<1>10. CASE JudgeGood(d) BY <1>10 DEF JudgeGood
<1>11. CASE DownloadAgain(d) BY <1>11 DEF DownloadAgain
<1>12. CASE ReadRow(d) BY <1>12 DEF ReadRow
<1>13. CASE WriteRow(d)
  <2>1. row' \in 0 .. MaxAnswers \cup {None}
    BY <1>13, RetryAssumption DEF WriteRow, Answers
  <2> QED BY <1>13, <2>1 DEF WriteRow
<1> QED BY <1>1, <1>2, <1>3, <1>4, <1>5, <1>6, <1>7, <1>8, <1>9, <1>10, <1>11, <1>12, <1>13
        DEF CallStep

LEMMA AnswerKeeps ==
    ASSUME IInv, NEW e \in Answers, PhoneAnswers(e) \/ CacheAnswer(e) \/ NotifyWaiter(e)
    PROVE  IInv'
<1> USE NoneIsNoAnswer, Steps
    DEF IInv, TypeOK, OnlyCached, OneReceiptInFlight, BadAnswerIsForgotten, Cached, Held,
        retryVars, phoneVars
<1>1. CASE PhoneAnswers(e) BY <1>1 DEF PhoneAnswers
<1>2. CASE CacheAnswer(e)
  <2>1. e \notin judged BY <1>2 DEF CacheAnswer
  <2> QED BY <1>2, <2>1 DEF CacheAnswer
<1>3. CASE NotifyWaiter(e)
  <2>1. \A d \in Callers : chan'[d] \in {chan[d], e} BY <1>3 DEF NotifyWaiter
  <2>2. chan' \in [Callers -> Held] BY <1>3 DEF NotifyWaiter
  <2> QED BY <1>3, <2>1, <2>2 DEF NotifyWaiter
<1> QED BY <1>1, <1>2, <1>3

LEMMA Inductive == Spec => []IInv
<1>1. Init => IInv
  <2> SUFFICES ASSUME Init PROVE IInv
    OBVIOUS
  <2>1. row \in 0 .. MaxAnswers \cup {None} BY RetryAssumption DEF Init
  <2>2. TypeOK BY <2>1 DEF Init, TypeOK, Held, Ended
  <2>3. OnlyCached BY DEF Init, OnlyCached
  <2>4. OneReceiptInFlight /\ BadAnswerIsForgotten
    BY NoneIsNoAnswer DEF Init, OneReceiptInFlight, BadAnswerIsForgotten
  <2> QED BY <2>2, <2>3, <2>4 DEF IInv
<1>2. IInv /\ [Next]_vars => IInv'
  <2> SUFFICES ASSUME IInv, [Next]_vars PROVE IInv'
    OBVIOUS
  <2>1. CASE Evict
    BY <2>1, NoneIsNoAnswer
    DEF Evict, IInv, TypeOK, OnlyCached, OneReceiptInFlight, BadAnswerIsForgotten, Cached, Held, phoneVars
  <2>2. CASE UNCHANGED vars
    BY <2>2 DEF vars, retryVars, phoneVars, IInv, TypeOK, OnlyCached, OneReceiptInFlight,
                BadAnswerIsForgotten, Cached, Held
  <2> QED BY <2>1, <2>2, CallKeeps, AnswerKeeps DEF Next
<1> QED BY <1>1, <1>2, PTL DEF Spec

\* The variables always have the types TypeOK gives them.
THEOREM TypeCorrect == Spec => []TypeOK
<1>1. IInv => TypeOK BY DEF IInv
<1> QED BY <1>1, Inductive, PTL

\* However many calls ask for one message's media, one at a time has a receipt in flight
\* and waits for its answer, and mediaRetryWaiters names that one.
THEOREM OneCallWaits == Spec => []OneReceiptInFlight
<1>1. IInv => OneReceiptInFlight BY DEF IInv
<1> QED BY <1>1, Inductive, PTL

\* However answers, evictions, waiters and polling calls interleave, an answer that was
\* found bad does not come back into the cache.
THEOREM BadAnswersGo == Spec => []BadAnswerIsForgotten
<1>1. IInv => BadAnswerIsForgotten BY DEF IInv
<1> QED BY <1>1, Inductive, PTL
=============================================================================
