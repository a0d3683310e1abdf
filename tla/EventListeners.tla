--------------------------- MODULE EventListeners ---------------------------
(***************************************************************************)
(* The fan-out of one session's events to its StreamEvents calls            *)
(* (server/events.go).                                                      *)
(*                                                                          *)
(* A sender is a pump goroutine of module SessionLifecycle inside           *)
(* SendEventToAllListeners: it holds listenersLock for reading while it     *)
(* visits the listeners in map order, that is, in any order.  A stream is   *)
(* one StreamEvents call with the listener it registers.  Writers of        *)
(* listenersLock that wait keep new readers out, as sync.RWMutex does.      *)
(***************************************************************************)
EXTENDS Naturals, Sequences, FiniteSets

CONSTANTS Senders,   \* goroutines that may be inside SendEventToAllListeners
          Streams,   \* StreamEvents calls
          Kinds,     \* event types a listener can exclude
          None,      \* no listener
          BufCap,    \* eventListenerBuffer
          MaxDrops,  \* maxConsecutiveDrops
          MaxEvents  \* events sent in a behaviour (a bound)

ASSUME ListenersAssumption ==
    /\ None \notin Streams
    /\ IsFiniteSet(Senders)
    /\ BufCap \in Nat \ {0}
    /\ MaxDrops \in Nat \ {0}
    /\ MaxEvents \in Nat

VARIABLES st,        \* where each StreamEvents call is
          exclude,   \* listener.exclude
          listeners, \* Server.listeners[session]
          closed,    \* listeners whose events channel is closed
          buf,       \* listener.events
          poisoned,  \* listeners whose poisoned channel is closed
          drops,     \* listener.drops
          cancelled, \* streams whose context is done
          snd,       \* the senders
          sent,      \* events handed to SendEventToAllListeners so far
          tally      \* history: what became of the events a listener was offered

streamVars == <<st, exclude, listeners, closed, cancelled>>
vars == <<streamVars, buf, poisoned, drops, snd, sent, tally>>

NoTally == [offered |-> 0, taken |-> 0, dropped |-> 0, row |-> 0]

\* "todo" are the listeners the loop has not visited.  After the attempt on
\* listener "at", the counter is reset ("reset") or its new value is judged ("judge").
IdleSender == [st |-> "idle", kind |-> None, todo |-> {}, at |-> None, count |-> 0]

TypeOK ==
    /\ st \in [Streams -> {"new", "adding", "select", "sending", "removing", "gone"}]
    /\ exclude \in [Streams -> SUBSET Kinds]
    /\ listeners \subseteq Streams
    /\ closed \subseteq Streams
    /\ buf \in [Streams -> Seq(Kinds)]
    /\ \A l \in Streams : Len(buf[l]) <= BufCap
    /\ poisoned \subseteq Streams
    /\ drops \in [Streams -> Nat]
    /\ cancelled \subseteq Streams
    /\ snd \in [Senders -> [st : {"idle", "visit", "reset", "judge"},
                            kind : Kinds \cup {None},
                            todo : SUBSET Streams,
                            at : Streams \cup {None},
                            count : Nat]]
    /\ sent \in 0..MaxEvents
    /\ tally \in [Streams -> [offered : Nat, taken : Nat, dropped : Nat, row : Nat]]

Init ==
    /\ st = [l \in Streams |-> "new"]
    /\ exclude \in [Streams -> SUBSET Kinds]
    /\ listeners = {} /\ closed = {} /\ poisoned = {} /\ cancelled = {}
    /\ buf = [l \in Streams |-> <<>>]
    /\ drops = [l \in Streams |-> 0]
    /\ snd = [s \in Senders |-> IdleSender]
    /\ sent = 0
    /\ tally = [l \in Streams |-> NoTally]

Move(l, next) == st' = [st EXCEPT ![l] = next]
Reading(s) == snd[s].st # "idle"
WriterWaits == \E l \in Streams : st[l] \in {"adding", "removing"}
Excluded(l, kind) == kind \in exclude[l]

-----------------------------------------------------------------------------
(* StreamEvents *)

\* The handler calls addListener, which waits for the write lock.
OpenStream(l) ==
    /\ st[l] = "new"
    /\ Move(l, "adding")
    /\ UNCHANGED <<exclude, listeners, closed, cancelled, buf, poisoned, drops,
                   snd, sent, tally>>

AddListener(l) ==
    /\ st[l] = "adding"
    /\ \A s \in Senders : ~Reading(s)
    /\ listeners' = listeners \cup {l}
    /\ Move(l, "select")
    /\ UNCHANGED <<exclude, closed, cancelled, buf, poisoned, drops, snd, sent, tally>>

\* The client goes away or its deadline passes.
CancelStream(l) ==
    /\ st[l] \in {"adding", "select", "sending"}
    /\ l \notin cancelled
    /\ cancelled' = cancelled \cup {l}
    /\ UNCHANGED <<st, exclude, listeners, closed, buf, poisoned, drops, snd, sent, tally>>

\* The three cases of the select.  Leaving runs the deferred removeListener,
\* which waits for the write lock.
LeaveCancelled(l) ==
    /\ st[l] = "select"
    /\ l \in cancelled
    /\ Move(l, "removing")
    /\ UNCHANGED <<exclude, listeners, closed, cancelled, buf, poisoned, drops,
                   snd, sent, tally>>

LeavePoisoned(l) ==
    /\ st[l] = "select"
    /\ l \in poisoned
    /\ Move(l, "removing")
    /\ UNCHANGED <<exclude, listeners, closed, cancelled, buf, poisoned, drops,
                   snd, sent, tally>>

\* An event that cannot be marshalled is skipped, any other is sent.
ReceiveEvent(l) ==
    /\ st[l] = "select"
    /\ buf[l] # <<>>
    /\ buf' = [buf EXCEPT ![l] = Tail(@)]
    /\ tally' = [tally EXCEPT ![l] = [tally[l] EXCEPT !.taken = tally[l].taken + 1]]
    /\ \E next \in {"select", "sending"} : Move(l, next)
    /\ UNCHANGED <<exclude, listeners, closed, cancelled, poisoned, drops, snd, sent>>

\* stream.Send blocks until the client reads ...
SendAccepted(l) ==
    /\ st[l] = "sending"
    /\ Move(l, "select")
    /\ UNCHANGED <<exclude, listeners, closed, cancelled, buf, poisoned, drops,
                   snd, sent, tally>>

\* Mutant: the error path returns without the deferred removeListener.
SendFailsWithoutRemove(l) ==
    /\ st[l] = "sending"
    /\ l \in cancelled
    /\ Move(l, "gone")
    /\ UNCHANGED <<exclude, listeners, closed, cancelled, buf, poisoned, drops,
                   snd, sent, tally>>

\* ... or the stream's context is done.
SendFails(l) ==
    /\ st[l] = "sending"
    /\ l \in cancelled
    /\ Move(l, "removing")
    /\ UNCHANGED <<exclude, listeners, closed, cancelled, buf, poisoned, drops,
                   snd, sent, tally>>

\* Mutant: removeListener does not take the lock.
RemoveListenerUnlocked(l) ==
    /\ st[l] = "removing"
    /\ listeners' = listeners \ {l}
    /\ closed' = closed \cup {l}
    /\ Move(l, "gone")
    /\ UNCHANGED <<exclude, cancelled, buf, poisoned, drops, snd, sent, tally>>

RemoveListener(l) ==
    /\ st[l] = "removing"
    /\ \A s \in Senders : ~Reading(s)
    /\ listeners' = listeners \ {l}
    /\ closed' = closed \cup {l}
    /\ Move(l, "gone")
    /\ UNCHANGED <<exclude, cancelled, buf, poisoned, drops, snd, sent, tally>>

-----------------------------------------------------------------------------
(* SendEventToAllListeners *)

StartSend(s, kind) ==
    /\ ~Reading(s)
    /\ ~WriterWaits
    /\ sent < MaxEvents
    /\ sent' = sent + 1
    /\ snd' = [snd EXCEPT ![s] = [IdleSender EXCEPT !.st = "visit", !.kind = kind,
                                                     !.todo = listeners]]
    /\ tally' = [l \in Streams |->
                   IF l \in listeners /\ ~Excluded(l, kind)
                     THEN [tally[l] EXCEPT !.offered = tally[l].offered + 1]
                     ELSE tally[l]]
    /\ UNCHANGED <<streamVars, buf, poisoned, drops>>

Visits(s, l) == snd[s].st = "visit" /\ l \in snd[s].todo
Rest(s, l) == snd[s].todo \ {l}

SkipExcluded(s, l) ==
    /\ Visits(s, l)
    /\ Excluded(l, snd[s].kind)
    /\ snd' = [snd EXCEPT ![s] = [snd[s] EXCEPT !.todo = Rest(s, l)]]
    /\ UNCHANGED <<streamVars, buf, poisoned, drops, sent, tally>>

\* Mutant: a full buffer gives way to the newest event.
DeliverOverwrites(s, l) ==
    /\ Visits(s, l)
    /\ ~Excluded(l, snd[s].kind)
    /\ buf' = [buf EXCEPT ![l] = Append(IF Len(@) < BufCap THEN @ ELSE Tail(@), snd[s].kind)]
    /\ tally' = [tally EXCEPT ![l] = [tally[l] EXCEPT !.row = 0]]
    /\ snd' = [snd EXCEPT ![s] = [snd[s] EXCEPT !.st = "reset", !.todo = Rest(s, l), !.at = l]]
    /\ UNCHANGED <<streamVars, poisoned, drops, sent>>

\* The non-blocking send finds room ...
Deliver(s, l) ==
    /\ Visits(s, l)
    /\ ~Excluded(l, snd[s].kind)
    /\ Len(buf[l]) < BufCap
    /\ buf' = [buf EXCEPT ![l] = Append(@, snd[s].kind)]
    /\ tally' = [tally EXCEPT ![l] = [tally[l] EXCEPT !.row = 0]]
    /\ snd' = [snd EXCEPT ![s] = [snd[s] EXCEPT !.st = "reset", !.todo = Rest(s, l), !.at = l]]
    /\ UNCHANGED <<streamVars, poisoned, drops, sent>>

\* Mutant: nothing resets the counter.
ResetDropsMissing(s) ==
    /\ snd[s].st = "reset"
    /\ snd' = [snd EXCEPT ![s] = [snd[s] EXCEPT !.st = "visit", !.at = None]]
    /\ UNCHANGED <<streamVars, buf, poisoned, drops, sent, tally>>

\* ... drops.Store(0) ...
ResetDrops(s) ==
    /\ snd[s].st = "reset"
    /\ drops' = [drops EXCEPT ![snd[s].at] = 0]
    /\ snd' = [snd EXCEPT ![s] = [snd[s] EXCEPT !.st = "visit", !.at = None]]
    /\ UNCHANGED <<streamVars, buf, poisoned, sent, tally>>

\* Mutant: the send is a plain send, without a default case.
DropEventNever(s, l) == FALSE

\* ... or it does not: drops.Add(1) ...
DropEvent(s, l) ==
    /\ Visits(s, l)
    /\ ~Excluded(l, snd[s].kind)
    /\ Len(buf[l]) = BufCap
    /\ drops' = [drops EXCEPT ![l] = @ + 1]
    /\ tally' = [tally EXCEPT ![l] = [tally[l] EXCEPT !.dropped = tally[l].dropped + 1,
                                               !.row = tally[l].row + 1]]
    /\ snd' = [snd EXCEPT ![s] = [snd[s] EXCEPT !.st = "judge", !.todo = Rest(s, l), !.at = l,
                                               !.count = drops[l] + 1]]
    /\ UNCHANGED <<streamVars, buf, poisoned, sent>>

\* ... and the value Add returned decides whether the listener is poisoned.
JudgeDrop(s) ==
    /\ snd[s].st = "judge"
    /\ poisoned' = IF snd[s].count >= MaxDrops THEN poisoned \cup {snd[s].at} ELSE poisoned
    /\ snd' = [snd EXCEPT ![s] = [snd[s] EXCEPT !.st = "visit", !.at = None, !.count = 0]]
    /\ UNCHANGED <<streamVars, buf, drops, sent, tally>>

EndSend(s) ==
    /\ snd[s].st = "visit"
    /\ snd[s].todo = {}
    /\ snd' = [snd EXCEPT ![s] = IdleSender]
    /\ UNCHANGED <<streamVars, buf, poisoned, drops, sent, tally>>

-----------------------------------------------------------------------------

VisitStep(s) ==
    \/ \E l \in Streams : SkipExcluded(s, l) \/ Deliver(s, l) \/ DropEvent(s, l)
    \/ ResetDrops(s) \/ JudgeDrop(s) \/ EndSend(s)

LeaveStep(l) == LeaveCancelled(l) \/ LeavePoisoned(l)
StreamStep(l) == AddListener(l) \/ ReceiveEvent(l) \/ SendFails(l) \/ RemoveListener(l)
ClientStep(l) == OpenStream(l) \/ CancelStream(l) \/ SendAccepted(l)

Next ==
    \/ \E s \in Senders : VisitStep(s) \/ \E kind \in Kinds : StartSend(s, kind)
    \/ \E l \in Streams : LeaveStep(l) \/ StreamStep(l) \/ ClientStep(l)

Spec == Init /\ [][Next]_vars

\* Goroutines that can run do.  A select whose case stays ready among others is
\* eventually taken (Go chooses among the ready cases at random), hence the
\* strong fairness.  Nothing makes a client read: SendAccepted is not fair.
Fairness ==
    /\ \A s \in Senders : WF_vars(VisitStep(s))
    /\ \A l \in Streams :
         /\ WF_vars(AddListener(l)) /\ WF_vars(RemoveListener(l))
         /\ WF_vars(SendFails(l)) /\ WF_vars(ReceiveEvent(l))
         /\ SF_vars(LeaveCancelled(l)) /\ SF_vars(LeavePoisoned(l))

FairSpec == Spec /\ Fairness

-----------------------------------------------------------------------------
(* Properties *)

\* No sender ever holds a listener whose channel is closed: a send on it would
\* panic in the pump goroutine, which recovers from nothing.
NoSendOnClosedChannel ==
    \A s \in Senders : snd[s].todo \cap closed = {}

\* The sum of what happens to the events a listener is offered: an event of a type
\* it did not exclude is taken by its stream, waits in its buffer, was dropped
\* because the buffer was full, or is about to be tried.  Another listener's
\* exclusions, drops or poisoning never make it miss one.
EveryEventAccounted ==
    \A l \in Streams :
        tally[l].offered =
            tally[l].taken + Len(buf[l]) + tally[l].dropped
              + Cardinality({s \in Senders : l \in snd[s].todo /\ ~Excluded(l, snd[s].kind)})

\* With one pump per session: a listener is poisoned only after MaxDrops events in a row
\* did not fit, and, once the send that dropped the last of them is over, always then.
PoisonsWhenStuck ==
    /\ [][\A l \in poisoned' \ poisoned : tally[l].row >= MaxDrops]_vars
    /\ [](\A l \in Streams :
            tally[l].row >= MaxDrops /\ (\A s \in Senders : snd[s].at # l) => l \in poisoned)

\* A listener that does not read never blocks the session's pump, whatever its
\* client does: SendEventToAllListeners always returns.
SendersNeverBlock == \A s \in Senders : Reading(s) ~> ~Reading(s)

\* Every stream whose client left is taken out of the map, even when it was blocked in
\* stream.Send at that time, and a poisoned stream ends, unless its client has stopped
\* reading for good.
StreamsEnd ==
    \A l \in Streams :
        /\ l \in cancelled ~> st[l] = "gone" /\ l \notin listeners
        /\ [](l \in poisoned => <>(st[l] = "gone") \/ <>[](st[l] = "sending"))

\* Poisoning alone is enough to "kill the stream so the client reconnects".
PoisonKillsStream == \A l \in Streams : l \in poisoned ~> st[l] = "gone"
=============================================================================
