-------------------------- MODULE SessionLifecycle --------------------------
(***************************************************************************)
(* Start and stop of one session name: the StartSession / StopSession gRPC  *)
(* handlers (server/session.go), the SessionManager map (gows/manager.go),  *)
(* GoWS.Start / GoWS.Stop (gows/gows.go) and the goroutine that pumps the   *)
(* session's event channel to the listeners.                                *)
(*                                                                          *)
(* A caller is a gRPC handler goroutine.  An instance is a *GoWS object:    *)
(* BuildSession creates a new one, and it is never put back in the map once *)
(* it was taken out.  A pump is the goroutine StartSession spawns together  *)
(* with the cancel function it files under eventSubs.                       *)
(***************************************************************************)
EXTENDS Naturals

CONSTANTS Callers,     \* the gRPC handler goroutines calling for this session
          Instances,   \* the GoWS objects that can be built (a bound)
          Pumps,       \* the pump goroutines that can be alive at once (a bound)
          None,        \* no instance, no pump
          ChanCap,     \* capacity of gows.events (10 in the code)
          MaxEmitters  \* reissueEvent goroutines in flight per instance (a bound)

ASSUME LifecycleAssumption ==
    /\ None \notin Instances
    /\ None \notin Pumps
    /\ ChanCap \in Nat \ {0}
    /\ MaxEmitters \in Nat \ {0}

VARIABLES session,    \* SessionManager.sessions[name], None when absent
          sub,        \* Server.eventSubs[name]: the pump whose context it cancels
          pump,       \* the pump goroutines
          built,      \* instances BuildSession has returned
          orphans,    \* instances dropped by a failed SetProxyAddress
          storeOpen,  \* instances whose GContainer (database) is open
          chanOpen,   \* instances whose events channel is not closed
          ctxLive,    \* instances whose Context is not cancelled
          registered, \* instances whose eventHandlerID names a registered handler
          leaked,     \* instances with a registered handler no field names
          running,    \* instances whose client is connected or reconnecting
          emitters,   \* emitEvent goroutines in flight, per instance
          buffered,   \* events in gows.events, per instance
          pc,         \* where each caller is
          own         \* each caller's local *GoWS (cli, then goWS)

instVars == <<built, orphans, storeOpen, chanOpen, ctxLive>>
clientVars == <<registered, leaked, running>>
flowVars == <<emitters, buffered>>
vars == <<session, sub, pump, instVars, clientVars, flowVars, pc, own>>

StartSteps == {"build", "subscribe", "lookup", "unhandle", "handle", "connect"}
TeardownSteps == {"tdHandler", "tdDisconnect", "tdStore", "tdChannel", "tdCancel"}
StopSteps == {"unsub", "remove"} \cup TeardownSteps

IdlePump == [st |-> "idle", inst |-> None, cancelled |-> FALSE]

TypeOK ==
    /\ session \in Instances \cup {None}
    /\ sub \in Pumps \cup {None}
    /\ pump \in [Pumps -> [st : {"idle", "spawned", "reading", "nilchan"},
                           inst : Instances \cup {None},
                           cancelled : BOOLEAN]]
    /\ built \subseteq Instances /\ orphans \subseteq Instances
    /\ storeOpen \subseteq Instances /\ chanOpen \subseteq Instances
    /\ ctxLive \subseteq Instances
    /\ registered \subseteq Instances /\ leaked \subseteq Instances
    /\ running \subseteq Instances
    /\ emitters \in [Instances -> 0..MaxEmitters]
    /\ buffered \in [Instances -> 0..ChanCap]
    /\ pc \in [Callers -> {"idle"} \cup StartSteps \cup StopSteps]
    /\ own \in [Callers -> Instances \cup {None}]

Init ==
    /\ session = None
    /\ sub = None
    /\ pump = [p \in Pumps |-> IdlePump]
    /\ built = {} /\ orphans = {} /\ storeOpen = {} /\ chanOpen = {} /\ ctxLive = {}
    /\ registered = {} /\ leaked = {} /\ running = {}
    /\ emitters = [i \in Instances |-> 0]
    /\ buffered = [i \in Instances |-> 0]
    /\ pc = [c \in Callers |-> "idle"]
    /\ own = [c \in Callers |-> None]

Goto(c, step) == pc' = [pc EXCEPT ![c] = step]
GotoWith(c, step, i) == Goto(c, step) /\ own' = [own EXCEPT ![c] = i]
Return(c) == GotoWith(c, "idle", None)

-----------------------------------------------------------------------------
(* StartSession *)

StartCall(c) ==
    /\ pc[c] = "idle"
    /\ Goto(c, "build")
    /\ UNCHANGED <<session, sub, pump, instVars, clientVars, flowVars, own>>

\* unlockedBuild returns the session already in the map.
BuildExisting(c) ==
    /\ pc[c] = "build"
    /\ session # None
    /\ GotoWith(c, "subscribe", session)
    /\ UNCHANGED <<session, sub, pump, instVars, clientVars, flowVars>>

Construct(i) ==
    /\ i \notin built
    /\ built' = built \cup {i}
    /\ storeOpen' = storeOpen \cup {i}
    /\ chanOpen' = chanOpen \cup {i}
    /\ ctxLive' = ctxLive \cup {i}

\* Mutant: the map was looked up before sessionsLock was taken.
BuildNewUnchecked(c, i) ==
    /\ pc[c] = "build"
    /\ Construct(i)
    /\ session' = i
    /\ GotoWith(c, "subscribe", i)
    /\ UNCHANGED <<sub, pump, orphans, clientVars, flowVars>>

\* The whole build runs under sessionsLock, so it is one step.
BuildNew(c, i) ==
    /\ pc[c] = "build"
    /\ session = None
    /\ Construct(i)
    /\ session' = i
    /\ GotoWith(c, "subscribe", i)
    /\ UNCHANGED <<sub, pump, orphans, clientVars, flowVars>>

\* SetProxyAddress refused the URL: the entry is deleted again, and nobody
\* closes what BuildSession opened.
BuildBadProxy(c, i) ==
    /\ pc[c] = "build"
    /\ session = None
    /\ Construct(i)
    /\ orphans' = orphans \cup {i}
    /\ Return(c)
    /\ UNCHANGED <<session, sub, pump, clientVars, flowVars>>

\* The database could not be opened; BuildSession closes what it opened.
BuildFails(c) ==
    /\ pc[c] = "build"
    /\ session = None
    /\ Return(c)
    /\ UNCHANGED <<session, sub, pump, instVars, clientVars, flowVars>>

\* eventSubsLock: a pump is spawned unless the name has a subscription.
Subscribe(c) ==
    /\ pc[c] = "subscribe"
    /\ IF sub # None
         THEN UNCHANGED <<sub, pump>>
         ELSE \E p \in Pumps :
                /\ pump[p].st = "idle"
                /\ sub' = p
                /\ pump' = [pump EXCEPT ![p] =
                     [st |-> "spawned", inst |-> own[c], cancelled |-> FALSE]]
    /\ Goto(c, "lookup")
    /\ UNCHANGED <<session, instVars, clientVars, flowVars, own>>

\* SessionManager.Start looks the name up again under the read lock.
Lookup(c) ==
    /\ pc[c] = "lookup"
    /\ IF session = None THEN Return(c) ELSE GotoWith(c, "unhandle", session)
    /\ UNCHANGED <<session, sub, pump, instVars, clientVars, flowVars>>

\* Mutant: GoWS.Start has no guard against a second registration.
DropOldHandlerMissing(c) ==
    /\ pc[c] = "unhandle"
    /\ Goto(c, "handle")
    /\ UNCHANGED <<session, sub, pump, instVars, clientVars, flowVars, own>>

\* GoWS.Start, first half of the double-registration guard.
DropOldHandler(c) ==
    /\ pc[c] = "unhandle"
    /\ registered' = registered \ {own[c]}
    /\ Goto(c, "handle")
    /\ UNCHANGED <<session, sub, pump, instVars, leaked, running, flowVars, own>>

\* Second half: AddEventHandler appends, eventHandlerID is overwritten.
AddHandler(c) ==
    /\ pc[c] = "handle"
    /\ leaked' = IF own[c] \in registered THEN leaked \cup {own[c]} ELSE leaked
    /\ registered' = registered \cup {own[c]}
    /\ Goto(c, "connect")
    /\ UNCHANGED <<session, sub, pump, instVars, running, flowVars, own>>

\* Connect fails, or is refused because the client is already connected: the
\* session stays in the map and stays subscribed.
Connect(c) ==
    /\ pc[c] = "connect"
    /\ \/ own[c] \notin running /\ running' = running \cup {own[c]}
       \/ UNCHANGED running
    /\ Return(c)
    /\ UNCHANGED <<session, sub, pump, instVars, registered, leaked, flowVars>>

-----------------------------------------------------------------------------
(* StopSession *)

StopCall(c) ==
    /\ pc[c] = "idle"
    /\ Goto(c, "unsub")
    /\ UNCHANGED <<session, sub, pump, instVars, clientVars, flowVars, own>>

\* Mutants: the cancel function is called but its entry stays, or the entry goes
\* and nobody calls the cancel function.
UnsubscribeKeepsEntry(c) ==
    /\ pc[c] = "unsub"
    /\ pump' = IF sub \in Pumps /\ pump[sub].st # "idle"
                 THEN [pump EXCEPT ![sub].cancelled = TRUE]
                 ELSE pump
    /\ Goto(c, "remove")
    /\ UNCHANGED <<session, sub, instVars, clientVars, flowVars, own>>

UnsubscribeWithoutCancel(c) ==
    /\ pc[c] = "unsub"
    /\ sub' = None
    /\ Goto(c, "remove")
    /\ UNCHANGED <<session, pump, instVars, clientVars, flowVars, own>>

Unsubscribe(c) ==
    /\ pc[c] = "unsub"
    /\ sub' = None
    /\ pump' = IF sub \in Pumps /\ pump[sub].st # "idle"
                 THEN [pump EXCEPT ![sub].cancelled = TRUE]
                 ELSE pump
    /\ Goto(c, "remove")
    /\ UNCHANGED <<session, instVars, clientVars, flowVars, own>>

\* Mutant: the instance is looked up but its entry is not deleted.
RemoveFromMapKeepsEntry(c) ==
    /\ pc[c] = "remove"
    /\ IF session = None THEN Return(c) ELSE GotoWith(c, "tdHandler", session)
    /\ UNCHANGED <<session, sub, pump, instVars, clientVars, flowVars>>

\* The entry is deleted under sessionsLock; GoWS.Stop runs after the unlock.
RemoveFromMap(c) ==
    /\ pc[c] = "remove"
    /\ session' = None
    /\ IF session = None THEN Return(c) ELSE GotoWith(c, "tdHandler", session)
    /\ UNCHANGED <<sub, pump, instVars, clientVars, flowVars>>

\* Mutant: GoWS.Stop forgets to disconnect.
TeardownDisconnectMissing(c) ==
    /\ pc[c] = "tdDisconnect"
    /\ Goto(c, "tdStore")
    /\ UNCHANGED <<session, sub, pump, instVars, clientVars, flowVars, own>>

TeardownHandler(c) ==
    /\ pc[c] = "tdHandler"
    /\ registered' = registered \ {own[c]}
    /\ Goto(c, "tdDisconnect")
    /\ UNCHANGED <<session, sub, pump, instVars, leaked, running, flowVars, own>>

TeardownDisconnect(c) ==
    /\ pc[c] = "tdDisconnect"
    /\ running' = running \ {own[c]}
    /\ Goto(c, "tdStore")
    /\ UNCHANGED <<session, sub, pump, instVars, registered, leaked, flowVars, own>>

\* The status ack writer drains (module StatusAckWriter), then the database closes.
TeardownStore(c) ==
    /\ pc[c] = "tdStore"
    /\ storeOpen' = storeOpen \ {own[c]}
    /\ Goto(c, "tdChannel")
    /\ UNCHANGED <<session, sub, pump, built, orphans, chanOpen, ctxLive,
                   clientVars, flowVars, own>>

\* close(gows.events), then gows.events = nil.
TeardownChannel(c) ==
    /\ pc[c] = "tdChannel"
    /\ chanOpen' = chanOpen \ {own[c]}
    /\ Goto(c, "tdCancel")
    /\ UNCHANGED <<session, sub, pump, built, orphans, storeOpen, ctxLive,
                   clientVars, flowVars, own>>

TeardownCancel(c) ==
    /\ pc[c] = "tdCancel"
    /\ ctxLive' = ctxLive \ {own[c]}
    /\ Return(c)
    /\ UNCHANGED <<session, sub, pump, built, orphans, storeOpen, chanOpen,
                   clientVars, flowVars>>

-----------------------------------------------------------------------------
(* Events: whatsmeow calls the registered handlers, each call spawns a
   reissueEvent goroutine that ends in emitEvent. *)

\* One emitter per registered handler: a leaked one doubles the event.
Dispatch(i) ==
    LET n == (IF i \in registered THEN 1 ELSE 0) + (IF i \in leaked THEN 1 ELSE 0)
    IN  /\ i \in running
        /\ n > 0
        /\ emitters[i] + n <= MaxEmitters
        /\ emitters' = [emitters EXCEPT ![i] = @ + n]
        /\ UNCHANGED <<session, sub, pump, instVars, clientVars, buffered, pc, own>>

\* The select in emitEvent sends when the channel has room ...
Emit(i) ==
    /\ emitters[i] > 0
    /\ i \in chanOpen
    /\ buffered[i] < ChanCap
    /\ emitters' = [emitters EXCEPT ![i] = @ - 1]
    /\ buffered' = [buffered EXCEPT ![i] = @ + 1]
    /\ UNCHANGED <<session, sub, pump, instVars, clientVars, pc, own>>

\* ... or gives up: the send panics on the closed channel and is recovered,
\* or the context is done.
EmitAbort(i) ==
    /\ emitters[i] > 0
    /\ i \notin chanOpen \/ i \notin ctxLive
    /\ emitters' = [emitters EXCEPT ![i] = @ - 1]
    /\ UNCHANGED <<session, sub, pump, instVars, clientVars, buffered, pc, own>>

\* The pump reads the field gows.events once: nil after GoWS.Stop.
PumpOpens(p) ==
    /\ pump[p].st = "spawned"
    /\ pump' = [pump EXCEPT ![p].st =
                  IF pump[p].inst \in chanOpen THEN "reading" ELSE "nilchan"]
    /\ UNCHANGED <<session, sub, instVars, clientVars, flowVars, pc, own>>

\* One event goes to SendEventToAllListeners (module EventListeners).
PumpForwards(p) ==
    /\ pump[p].st = "reading"
    /\ buffered[pump[p].inst] > 0
    /\ buffered' = [buffered EXCEPT ![pump[p].inst] = @ - 1]
    /\ UNCHANGED <<session, sub, pump, instVars, clientVars, emitters, pc, own>>

\* Mutant: the pump's select does not watch subCtx.
PumpExitsOnClose(p) ==
    /\ pump[p].st = "reading"
    /\ pump[p].inst \notin chanOpen
    /\ buffered[pump[p].inst] = 0
    /\ pump' = [pump EXCEPT ![p] = IdlePump]
    /\ UNCHANGED <<session, sub, instVars, clientVars, flowVars, pc, own>>

\* Cancelled, or the channel is closed and drained.
PumpExits(p) ==
    /\ \/ pump[p].st \in {"reading", "nilchan"} /\ pump[p].cancelled
       \/ /\ pump[p].st = "reading"
          /\ pump[p].inst \notin chanOpen
          /\ buffered[pump[p].inst] = 0
    /\ pump' = [pump EXCEPT ![p] = IdlePump]
    /\ UNCHANGED <<session, sub, instVars, clientVars, flowVars, pc, own>>

-----------------------------------------------------------------------------

StartStep(c) ==
    \/ BuildExisting(c) \/ BuildFails(c)
    \/ \E i \in Instances : BuildNew(c, i) \/ BuildBadProxy(c, i)
    \/ Subscribe(c) \/ Lookup(c) \/ DropOldHandler(c) \/ AddHandler(c) \/ Connect(c)

StopStep(c) ==
    \/ Unsubscribe(c) \/ RemoveFromMap(c)
    \/ TeardownHandler(c) \/ TeardownDisconnect(c) \/ TeardownStore(c)
    \/ TeardownChannel(c) \/ TeardownCancel(c)

EmitStep(i) == Emit(i) \/ EmitAbort(i)
PumpStep(p) == PumpOpens(p) \/ PumpForwards(p) \/ PumpExits(p)

Next ==
    \/ \E c \in Callers : StartCall(c) \/ StopCall(c) \/ StartStep(c) \/ StopStep(c)
    \/ \E i \in Instances : Dispatch(i) \/ EmitStep(i)
    \/ \E p \in Pumps : PumpStep(p)

Spec == Init /\ [][Next]_vars

\* A goroutine that can run is eventually scheduled; nobody has to call or to
\* receive an event from WhatsApp.
Fairness ==
    /\ \A c \in Callers : WF_vars(StartStep(c)) /\ WF_vars(StopStep(c))
    /\ \A i \in Instances : WF_vars(EmitStep(i))
    /\ \A p \in Pumps : WF_vars(PumpStep(p))

FairSpec == Spec /\ Fairness

-----------------------------------------------------------------------------
(* Properties under any number of concurrent callers *)

TearingDown(c) == pc[c] \in TeardownSteps
HoldsStore(c) == pc[c] \in {"tdHandler", "tdDisconnect", "tdStore"}
Subscribed(p) == pump[p].st # "idle" /\ ~pump[p].cancelled

\* What a handler finds in the map can be used: its database, its events channel
\* and its context are open (SessionManager.Get never hands out a dead session).
MappedSessionIsLive ==
    session # None => session \in storeOpen \cap chanOpen \cap ctxLive

\* GoWS.Stop runs at most once per instance: no two callers tear down the same
\* one (its channel would be closed twice), and never the one still in the map.
TeardownExclusive ==
    \A c \in Callers : TearingDown(c) =>
        /\ own[c] # session
        /\ \A d \in Callers \ {c} : TearingDown(d) => own[d] # own[c]

\* An open database is reachable: it is the mapped session's, or a StopSession is
\* about to close it, or it was dropped by a failed SetProxyAddress (the one
\* place where the manager forgets an instance it has opened).
OpenStoreIsOwned ==
    \A i \in storeOpen :
        \/ i = session
        \/ i \in orphans
        \/ \E c \in Callers : HoldsStore(c) /\ own[c] = i

\* Events of a name are forwarded by one pump: whatever interleaving of starts
\* and stops, the only pump that is not cancelled is the one eventSubs can cancel.
OneSubscription == \A p \in Pumps : Subscribed(p) => sub = p

-----------------------------------------------------------------------------
(* Properties of a client that serialises its calls for a name.  Two concurrent
   callers can violate the first three of them. *)

Quiescent == \A c \in Callers : pc[c] = "idle"

\* Between calls, a session in the map has a pump that forwards its events.
LiveSessionHasPump ==
    Quiescent /\ session # None =>
        /\ sub # None
        /\ Subscribed(sub)
        /\ pump[sub].inst = session
        /\ pump[sub].st # "nilchan"

\* An instance never has a handler registered besides the one that eventHandlerID names,
\* and between calls only the mapped session is connected to WhatsApp and handles its
\* events: two clients of one device would replace each other's stream, and nothing could
\* stop one that is no longer in the map.
NoZombie ==
    /\ leaked = {}
    /\ Quiescent => running \cup registered \subseteq {session}

\* Back-pressure ends: when the events channel of a session is full, the pump
\* makes room for the blocked emitters, or the session is stopped.
FullChannelDrains ==
    \A i \in Instances :
        (session = i /\ buffered[i] = ChanCap) ~> (session # i \/ buffered[i] < ChanCap)

\* A cancelled pump ends, even one that opened the channel field after GoWS.Stop had set
\* it to nil and so receives from a nil channel; and after GoWS.Stop no goroutine of the
\* instance is left behind: the blocked emitters give up and the pump ends, for good.
NothingLeftBehind ==
    /\ \A p \in Pumps : pump[p].cancelled ~> ~pump[p].cancelled
    /\ \A i \in Instances :
         [](i \in built /\ i \notin ctxLive =>
              <>[](emitters[i] = 0 /\ \A p \in Pumps : pump[p].inst # i))
=============================================================================
