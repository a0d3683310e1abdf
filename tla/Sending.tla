-------------------------------- MODULE Sending --------------------------------
(***************************************************************************)
(* The calls that send something (server/messages.go) and what they go       *)
(* through: GoWS.SendMessage and MarkRead (gows/gows.go), the batches of a    *)
(* status (gows/status.go), the fetches a nack sets off (LimitFetches), and   *)
(* the echo of what was sent to the session's own event handlers.  What is    *)
(* put into a message is MessageContent's.                                   *)
(*                                                                          *)
(* The delays and backoffs are waits only: time is left out of them.          *)
(***************************************************************************)
EXTENDS MessageContent, LimitFetches, SequencesExt

CONSTANTS Calls,
          Requests,    \* what each call may ask for
          None,
          Users,       \* participants with a phone number JID
          HiddenUsers, \* participants with a @lid JID
          Audience,    \* WhatsApp's list of status participants, this account last
          BatchSize,   \* statusParticipantsBatchSize
          MaxRetries   \* WAHA_GOWS_STATUS_BATCH_MAX_RETRIES

ASSUME SendingAssumption ==
    /\ NackedCalls \subseteq Calls
    /\ Users \cap HiddenUsers = {}
    /\ Audience \in Seq(Users \cup HiddenUsers)
    /\ BatchSize \in Nat \ {0}
    /\ MaxRetries \in Nat
    /\ \A c \in Calls : \A r \in Requests[c] :
         /\ r.op \in Ops /\ r.what \in Whats /\ r.to \in Chats
         /\ r.op = "message" => r.what # "none"
         /\ r.of \in DOMAIN Stored
         /\ r.people \in Seq(Users \cup HiddenUsers)

VARIABLES pc,        \* how far a call is
          req,       \* what it asks for
          answers,   \* history: what the storage answered about timer and reply
          info,      \* contextInfo
          msg,       \* the message it sends
          cancelled, \* the calls whose caller gave up
          todo,      \* a status: the batches left
          attempt,   \* retries of the first of them
          acked,     \* participants of the batches that succeeded
          failed,    \* failedParticipants
          nack,      \* the code WhatsApp rejected the message with
          echo       \* the event of what was sent: none, due, done

callVars == <<pc, req, answers, info, msg, cancelled, nack, echo>>
statusVars == <<todo, attempt, acked, failed>>
sendVars == <<callVars, statusVars>>
vars == <<sendVars, limitVars>>

Ended == {"accepted", "answered", "refused"}

TypeOK ==
    /\ LimitTypeOK
    /\ pc \in [Calls -> {"idle", "prepare", "build", "send", "batches"} \cup Ended]
    /\ \A c \in Calls : req[c] \in Requests[c] \cup {None}
    /\ answers \in [Calls -> Answers \X Answers]
    /\ info \in [Calls -> SUBSET Marks]
    /\ msg \in [Calls -> Messages \cup {Nothing}]
    /\ cancelled \subseteq Calls
    /\ todo \in [Calls -> Seq(Seq(Users))]
    /\ attempt \in [Calls -> 0..MaxRetries]
    /\ acked \in [Calls -> SUBSET Users]
    /\ failed \in [Calls -> SUBSET Users]
    /\ nack \in [Calls -> {"none", "475", "463"}]
    /\ echo \in [Calls -> {"none", "due", "done"}]

Init ==
    /\ LimitInit
    /\ pc = [c \in Calls |-> "idle"]
    /\ req = [c \in Calls |-> None]
    /\ answers = [c \in Calls |-> <<"error", "error">>]
    /\ info = [c \in Calls |-> {}]
    /\ msg = [c \in Calls |-> Nothing]
    /\ cancelled = {}
    /\ todo = [c \in Calls |-> <<>>]
    /\ attempt = [c \in Calls |-> 0]
    /\ acked = [c \in Calls |-> {}]
    /\ failed = [c \in Calls |-> {}]
    /\ nack = [c \in Calls |-> "none"]
    /\ echo = [c \in Calls |-> "none"]

GoTo(c, l) == pc' = [pc EXCEPT ![c] = l]

-----------------------------------------------------------------------------
(* The handlers, up to the message *)

\* An unknown session, a JID that cannot be parsed, a participant of a status
\* revoke, no ids or an unknown type to mark as read: the call is refused.
Receive(c) ==
    /\ pc[c] = "idle"
    /\ \E r \in Requests[c] :
         /\ req' = [req EXCEPT ![c] = r]
         /\ \/ GoTo(c, "refused")
            \/ r.op = "message" /\ GoTo(c, "prepare")
            \/ r.op \in Ops \ {"message", "markRead"} /\ GoTo(c, "build")
            \/ r.op = "markRead" /\ GoTo(c, "send")
    /\ UNCHANGED <<answers, info, msg, cancelled, nack, echo, statusVars, limitVars>>

\* The context is populated, the media file read, the participants parsed.  Only the
\* chats of users and groups have a timer.
Prepare(c) ==
    /\ pc[c] = "prepare"
    /\ \E setting \in IF req[c].to \in {"user", "group"} THEN Answers ELSE {"error"},
          reply \in IF req[c].reply THEN Answers ELSE {"error"} :
         /\ answers' = [answers EXCEPT ![c] = <<setting, reply>>]
         /\ info' = [info EXCEPT ![c] = ContextInfo(req[c], setting, reply)]
    /\ \/ GoTo(c, "build")
       \/ (req[c].what \in MediaKinds \/ req[c].people # <<>>) /\ GoTo(c, "refused")
    /\ UNCHANGED <<req, msg, cancelled, nack, echo, statusVars, limitVars>>

\* A vote in a newsletter and a reaction to its messages have requests of their own.
GoesAside(r) == r.to = "newsletter" /\ (r.what = "vote" \/ r.op = "reaction")

Build(c) ==
    /\ pc[c] = "build"
    /\ ~GoesAside(req[c])
    /\ \E lookup \in IF req[c].op \in {"edit", "button"} THEN Answers ELSE {answers[c][2]} :
         /\ answers' = [answers EXCEPT ![c][2] = lookup]
         /\ \E m \in Contents(req[c], info[c], lookup) :
              /\ msg' = [msg EXCEPT ![c] = m]
              /\ GoTo(c, IF m = Nothing THEN "refused" ELSE "send")
    /\ UNCHANGED <<req, info, cancelled, nack, echo, statusVars, limitVars>>

\* SendNewsletterPollVote, NewsletterSendReaction: the server id is given or
\* stored; no event is made of them.
SendAside(c) ==
    /\ pc[c] = "build"
    /\ GoesAside(req[c])
    /\ \E outcome \in {"answered", "refused"} : GoTo(c, outcome)
    /\ UNCHANGED <<req, answers, info, msg, cancelled, nack, echo, statusVars, limitVars>>

\* The caller's deadline passes, or it hangs up; an earlier end shows no sooner.
GiveUp(c) ==
    /\ pc[c] \in {"send", "batches"}
    /\ c \notin cancelled
    /\ cancelled' = cancelled \cup {c}
    /\ UNCHANGED <<pc, req, answers, info, msg, nack, echo, statusVars, limitVars>>

-----------------------------------------------------------------------------
(* GoWS.SendMessage *)

IsStatus(c) == req[c].op # "markRead" /\ req[c].to = "status"

\* The event of what was sent is handled in a goroutine of its own.
Accept(c) ==
    /\ GoTo(c, "accepted")
    /\ echo' = [echo EXCEPT ![c] = "due"]

\* The event is handed to reissueEvent and to the storage event handler.
HandleEcho(c) ==
    /\ echo[c] = "due"
    /\ echo' = [echo EXCEPT ![c] = "done"]
    /\ UNCHANGED <<pc, req, answers, info, msg, cancelled, nack, statusVars, limitVars>>

\* Client.SendMessage, or Client.MarkRead, succeeds.
SendSucceeds(c) ==
    /\ pc[c] = "send"
    /\ ~IsStatus(c)
    /\ Accept(c)
    /\ UNCHANGED <<req, answers, info, msg, cancelled, nack, statusVars, limitVars>>

\* A timeout, a caller that gave up, an error of the server.
SendFails(c) ==
    /\ pc[c] = "send"
    /\ ~IsStatus(c)
    /\ GoTo(c, "refused")
    /\ UNCHANGED <<req, answers, info, msg, cancelled, nack, echo, statusVars, limitVars>>

\* The limits are on messages to persons.
SendNacked(c) ==
    /\ pc[c] = "send"
    /\ c \in NackedCalls
    /\ req[c].op # "markRead" /\ req[c].to = "user"
    /\ \E code \in {"475", "463"} :
         /\ nack' = [nack EXCEPT ![c] = code]
         /\ fetch' = Spawned(c, NackFetches(code))
    /\ GoTo(c, "refused")
    /\ UNCHANGED <<req, answers, info, msg, cancelled, echo, statusVars, recent>>

-----------------------------------------------------------------------------
(* A status *)

\* lo.Chunk
Chunk(s) ==
    [i \in 1 .. ((Len(s) + BatchSize - 1) \div BatchSize) |->
        SubSeq(s, (i - 1) * BatchSize + 1, Min({i * BatchSize, Len(s)}))]

Recipients(c) == IF req[c].people = <<>> THEN Reverse(Audience) ELSE req[c].people

\* lo.Filter: those with a phone number, in their order.
ValidParticipants(c) ==
    LET all == Recipients(c)
        valid == {i \in DOMAIN all : all[i] \in Users}
        nth(k) == CHOOSE i \in valid : Cardinality({j \in valid : j <= i}) = k
    IN  [k \in 1 .. Cardinality(valid) |-> all[nth(k)]]

\* The caller's participants or the account's audience, which is this account first.
StartStatus(c) ==
    /\ pc[c] = "send"
    /\ IsStatus(c)
    /\ \/ todo' = [todo EXCEPT ![c] = Chunk(ValidParticipants(c))] /\ GoTo(c, "batches")
       \/ req[c].people = <<>> /\ GoTo(c, "refused") /\ UNCHANGED todo
    /\ UNCHANGED <<req, answers, info, msg, cancelled, nack, echo, attempt, acked, failed, limitVars>>

\* Mutant: a status runs under the context of its caller.
CallersContextDone(c) == c \in cancelled

\* SendStatusMessage runs under context.WithoutCancel of the caller's context, and
\* nobody else calls it.
StatusContextDone(c) == FALSE

\* isRetryableStatusErr: a timeout, an error the server returned.
Outcomes == {"acked", "transient", "permanent"}

FirstBatch(c) == Range(Head(todo[c]))
BatchDone(c) ==
    /\ todo' = [todo EXCEPT ![c] = Tail(@)]
    /\ attempt' = [attempt EXCEPT ![c] = 0]

BatchAcked(c) ==
    /\ BatchDone(c)
    /\ acked' = [acked EXCEPT ![c] = @ \cup FirstBatch(c)]
    /\ UNCHANGED failed

BatchRetried(c) ==
    /\ attempt[c] < MaxRetries
    /\ attempt' = [attempt EXCEPT ![c] = @ + 1]
    /\ UNCHANGED <<todo, acked, failed>>

\* Mutant: the first batch that fails ends the status.
BatchFailedForGood(c) ==
    /\ todo' = [todo EXCEPT ![c] = <<>>]
    /\ attempt' = [attempt EXCEPT ![c] = 0]
    /\ failed' = [failed EXCEPT ![c] = @ \cup FirstBatch(c)]
    /\ UNCHANGED acked

BatchFailed(c) ==
    /\ BatchDone(c)
    /\ failed' = [failed EXCEPT ![c] = @ \cup FirstBatch(c)]
    /\ UNCHANGED acked

\* One attempt of one batch, after the delay or the backoff: a permanent error, and
\* a transient one after the last retry, fail the batch and not the status.
SendBatch(c) ==
    /\ pc[c] = "batches"
    /\ todo[c] # <<>>
    /\ \E outcome \in Outcomes :
         IF StatusContextDone(c) THEN GoTo(c, "refused") /\ UNCHANGED statusVars
         ELSE /\ UNCHANGED pc
              /\ \/ outcome = "acked" /\ BatchAcked(c)
                 \/ outcome = "transient" /\ BatchRetried(c)
                 \/ outcome = "transient" /\ attempt[c] = MaxRetries /\ BatchFailed(c)
                 \/ outcome = "permanent" /\ BatchFailed(c)
    /\ UNCHANGED <<req, answers, info, msg, cancelled, nack, echo, limitVars>>

\* "only fail the whole call if nothing got through"
Report(c) ==
    /\ pc[c] = "batches"
    /\ todo[c] = <<>>
    /\ IF acked[c] = {} /\ failed[c] # {}
         THEN GoTo(c, "refused") /\ UNCHANGED echo
         ELSE Accept(c)
    /\ UNCHANGED <<req, answers, info, msg, cancelled, nack, statusVars, limitVars>>

-----------------------------------------------------------------------------
CallStep(c) ==
    \/ Prepare(c) \/ Build(c) \/ SendAside(c)
    \/ SendSucceeds(c) \/ SendFails(c) \/ SendNacked(c)
    \/ StartStatus(c) \/ SendBatch(c) \/ Report(c)

Next ==
    \/ \E c \in Calls : Receive(c) \/ CallStep(c) \/ HandleEcho(c) \/ GiveUp(c)
    \/ LimitNext /\ UNCHANGED sendVars

Spec == Init /\ [][Next]_vars

\* Storage, uploads and sends have timeouts, so a handler goes on; goroutines do.
FairSpec ==
    /\ Spec
    /\ \A c \in Calls : WF_vars(CallStep(c)) /\ WF_vars(HandleEcho(c))
    /\ \A s \in Sources, k \in LimitKinds : WF_vars(GoFetch(s, k) /\ UNCHANGED sendVars)

-----------------------------------------------------------------------------
(* Properties *)

AskedContext(c) ==
    (IF answers[c][1] = "found" THEN {"timer"} ELSE {})
      \cup (IF req[c].reply /\ answers[c][2] = "found" THEN {"quote"} ELSE {})
      \cup (IF req[c].mentions THEN {"mentions"} ELSE {})

\* A message SendMessage accepts carries the timer of its chat, the quote and the
\* mentions the caller asked for, as far as the storage had them, whatever its
\* type and whatever else went wrong, and nothing of the delivery it forwards.  An
\* edit keeps the context of the message it edits, if the storage has it.
ContextIsRequested ==
    \A c \in Calls :
        pc[c] = "accepted" =>
            /\ req[c].op = "message" /\ req[c].what # "vote" =>
                 msg[c].ctx \ {"forwarded"} = AskedContext(c) /\ msg[c].secret # "old"
            /\ req[c].op = "edit" /\ answers[c][2] = "found" =>
                 msg[c].ctx = ExtractContextInfo(ContentOf(Stored[req[c].of]))

NamedTwice(s) == {s[i] : i \in {k \in DOMAIN s : \E j \in DOMAIN s \ {k} : s[j] = s[k]}}

\* The delivery report of a status accounts for every participant with a phone
\* number: every batch was tried, whatever became of the others, and nobody is in two
\* that ended differently but who was named twice.
DeliveryAccounted ==
    \A c \in Calls :
        pc[c] \in Ended /\ (acked[c] \cup failed[c] # {}) =>
            /\ acked[c] \cup failed[c] = Range(ValidParticipants(c))
            /\ acked[c] \cap failed[c] \subseteq NamedTwice(ValidParticipants(c))

\* Sending keeps its promise: calls end, an error means that nobody acknowledged
\* the message, and exactly what is accepted is echoed to the session's handlers.
PromiseState(c) ==
    CASE pc[c] \in Ended -> pc[c] [] pc[c] = "idle" -> "idle" [] OTHER -> "taken"

Promise == INSTANCE SendPromise
    WITH state <- [c \in Calls |-> PromiseState(c)],
         reached <- acked,
         echoed <- {c \in Calls : echo[c] = "done"}

KeepsPromise == Promise!Promise

\* After a nack that tells of a limit the new state of the capping, and after a
\* 463 also that of the timelock unless it was fetched just now, reaches the API
\* or fails to be fetched.
NackIsLearnt ==
    \A c \in NackedCalls :
        /\ nack[c] # "none" ~> fetch[<<c, "capping">>] \in {"told", "failed"}
        /\ nack[c] = "463" ~> fetch[<<c, "timelock">>] \in {"told", "failed", "skipped"}
=============================================================================
