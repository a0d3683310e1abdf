----------------------- MODULE SessionLifecycleProofs -----------------------
(***************************************************************************)
(* Invariants of SessionLifecycle for any number of callers, instances and  *)
(* pumps.                                                                   *)
(***************************************************************************)
EXTENDS SessionLifecycle, TLAPS

-----------------------------------------------------------------------------
(* Type correctness.  TypeOK alone is not inductive: AddHandler and Connect
   add own[c] to a set of instances, so it has to be one there. *)

HoldsInstance ==
    \A c \in Callers :
        pc[c] \in (StartSteps \ {"build"}) \cup TeardownSteps => own[c] \in Instances

TypeInv == TypeOK /\ HoldsInstance

\* Every step of a handler, an emitter or a pump preserves TypeInv.
LEMMA TypeInductive ==
    ASSUME TypeInv, [Next]_vars
    PROVE  TypeInv'
<1> USE LifecycleAssumption DEF TypeInv, TypeOK, HoldsInstance, StartSteps, StopSteps,
        TeardownSteps, IdlePump, Goto, GotoWith, Return, instVars, clientVars, flowVars
<1>1. ASSUME NEW c \in Callers, StartCall(c) \/ StopCall(c) PROVE TypeInv'
  BY <1>1 DEF StartCall, StopCall
<1>2. ASSUME NEW c \in Callers, StartStep(c) PROVE TypeInv'
  <2>1. CASE BuildExisting(c) BY <2>1 DEF BuildExisting
  <2>2. CASE BuildFails(c) BY <2>2 DEF BuildFails
  <2>3. ASSUME NEW i \in Instances, BuildNew(c, i) PROVE TypeInv'
    BY <2>3 DEF BuildNew, Construct
  <2>4. ASSUME NEW i \in Instances, BuildBadProxy(c, i) PROVE TypeInv'
    BY <2>4 DEF BuildBadProxy, Construct
  <2>5. CASE Subscribe(c)
    <3>1. sub' \in Pumps \cup {None}
      BY <2>5 DEF Subscribe
    <3>2. pump' \in [Pumps -> [st : {"idle", "spawned", "reading", "nilchan"},
                              inst : Instances \cup {None},
                              cancelled : BOOLEAN]]
      <4>1. CASE sub # None BY <2>5, <4>1 DEF Subscribe
      <4>2. CASE sub = None
        <5>1. PICK p \in Pumps :
                pump' = [pump EXCEPT ![p] = [st |-> "spawned", inst |-> own[c],
                                             cancelled |-> FALSE]]
          BY <2>5, <4>2 DEF Subscribe
        <5>2. own[c] \in Instances BY <2>5 DEF Subscribe
        <5> QED BY <5>1, <5>2
      <4> QED BY <4>1, <4>2
    <3> QED BY <2>5, <3>1, <3>2 DEF Subscribe
  <2>6. CASE Lookup(c)
    <3>1. CASE session = None BY <2>6, <3>1 DEF Lookup
    <3>2. CASE session # None BY <2>6, <3>2 DEF Lookup
    <3> QED BY <3>1, <3>2
  <2>7. CASE DropOldHandler(c) BY <2>7 DEF DropOldHandler
  <2>8. CASE AddHandler(c)
    <3>1. own[c] \in Instances BY <2>8 DEF AddHandler
    <3> QED BY <2>8, <3>1 DEF AddHandler
  <2>9. CASE Connect(c)
    <3>1. own[c] \in Instances BY <2>9 DEF Connect
    <3> QED BY <2>9, <3>1 DEF Connect
  <2> QED BY <1>2, <2>1, <2>2, <2>3, <2>4, <2>5, <2>6, <2>7, <2>8, <2>9 DEF StartStep
<1>3. ASSUME NEW c \in Callers, StopStep(c) PROVE TypeInv'
  <2>1. CASE Unsubscribe(c) BY ZenonT(40), <2>1 DEF Unsubscribe
  <2>2. CASE RemoveFromMap(c)
    <3>1. CASE session = None BY <2>2, <3>1 DEF RemoveFromMap
    <3>2. CASE session # None BY <2>2, <3>2 DEF RemoveFromMap
    <3> QED BY <3>1, <3>2
  <2>3. CASE TeardownHandler(c) BY <2>3 DEF TeardownHandler
  <2>4. CASE TeardownDisconnect(c) BY <2>4 DEF TeardownDisconnect
  <2>5. CASE TeardownStore(c) BY <2>5 DEF TeardownStore
  <2>6. CASE TeardownChannel(c) BY <2>6 DEF TeardownChannel
  <2>7. CASE TeardownCancel(c) BY <2>7 DEF TeardownCancel
  <2> QED BY <1>3, <2>1, <2>2, <2>3, <2>4, <2>5, <2>6, <2>7 DEF StopStep
<1>4. ASSUME NEW i \in Instances, Dispatch(i) \/ EmitStep(i) PROVE TypeInv'
  <2>1. CASE Dispatch(i) BY <2>1 DEF Dispatch
  <2>2. CASE Emit(i) BY <2>2 DEF Emit
  <2>3. CASE EmitAbort(i) BY <2>3 DEF EmitAbort
  <2> QED BY <1>4, <2>1, <2>2, <2>3 DEF EmitStep
<1>5. ASSUME NEW p \in Pumps, PumpStep(p) PROVE TypeInv'
  <2>1. CASE PumpOpens(p) BY <2>1 DEF PumpOpens
  <2>2. CASE PumpForwards(p)
    <3>1. CASE pump[p].inst \in Instances BY <2>2, <3>1 DEF PumpForwards
    <3>2. CASE pump[p].inst = None BY <2>2, <3>2 DEF PumpForwards
    <3> QED BY <3>1, <3>2
  <2>3. CASE PumpExits(p) BY <2>3 DEF PumpExits
  <2> QED BY <1>5, <2>1, <2>2, <2>3 DEF PumpStep
<1>6. CASE UNCHANGED vars BY <1>6 DEF vars
<1> QED BY <1>1, <1>2, <1>3, <1>4, <1>5, <1>6 DEF Next

LEMMA TypeInitial == Init => TypeInv
BY LifecycleAssumption DEF Init, TypeInv, TypeOK, HoldsInstance, IdlePump,
   StartSteps, TeardownSteps

LEMMA TypeInvariant == Spec => []TypeInv
BY TypeInitial, TypeInductive, PTL DEF Spec

\* The variables always have the types TypeOK gives them.
THEOREM TypeCorrect == Spec => []TypeOK
<1>1. TypeInv => TypeOK BY DEF TypeInv
<1> QED BY <1>1, TypeInvariant, PTL

-----------------------------------------------------------------------------
(* Who owns an instance.  MappedSessionIsLive needs to know that no caller tears
   down the mapped instance, which needs to know that an instance is torn down by
   the one caller that took it out of the map, which needs to know that a new
   instance was never seen before. *)

Ownership ==
    /\ storeOpen \cup chanOpen \cup ctxLive \subseteq built
    /\ \A c \in Callers : TearingDown(c) => own[c] \in built
    /\ MappedSessionIsLive
    /\ TeardownExclusive
    /\ OpenStoreIsOwned

instanceVars == <<session, built, orphans, storeOpen, chanOpen, ctxLive>>

\* A step of a caller that is not tearing down, to a step that is not either, and
\* that leaves the instances alone.
LEMMA QuietStep ==
    ASSUME TypeInv, Ownership, UNCHANGED instanceVars,
           NEW c \in Callers, ~TearingDown(c), ~TearingDown(c)',
           \A d \in Callers \ {c} : pc'[d] = pc[d] /\ own'[d] = own[d]
    PROVE  Ownership'
<1> USE DEF Ownership, MappedSessionIsLive, instanceVars, TearingDown
<1>1. TeardownExclusive' BY DEF TeardownExclusive
<1>2. OpenStoreIsOwned'
  <2>1. ~HoldsStore(c) BY DEF HoldsStore, TeardownSteps
  <2>2. \A d \in Callers \ {c} : HoldsStore(d) => HoldsStore(d)' BY DEF HoldsStore
  <2> QED BY <2>1, <2>2 DEF OpenStoreIsOwned
<1> QED BY <1>1, <1>2

\* A step that touches neither callers nor instances.
LEMMA OwnershipStutter ==
    ASSUME Ownership, UNCHANGED instanceVars, UNCHANGED <<pc, own>>
    PROVE  Ownership'
BY DEF Ownership, MappedSessionIsLive, TeardownExclusive, OpenStoreIsOwned,
   TearingDown, HoldsStore, instanceVars

\* The two ways of constructing an instance: i is new, so nobody owns it yet.
LEMMA BuildKeepsOwnership ==
    ASSUME TypeInv, Ownership, NEW c \in Callers, NEW i \in Instances,
           BuildNew(c, i) \/ BuildBadProxy(c, i)
    PROVE  Ownership'
<1> USE DEF Ownership, BuildNew, BuildBadProxy, Construct, GotoWith, Goto, Return,
        TypeInv, TypeOK, StartSteps, StopSteps, TeardownSteps
<1>1. /\ pc' \in [Callers -> {"idle"} \cup StartSteps \cup StopSteps]
      /\ pc[c] = "build" /\ pc'[c] \in {"subscribe", "idle"}
      /\ \A d \in Callers \ {c} : pc'[d] = pc[d] /\ own'[d] = own[d]
  OBVIOUS
<1>2. (storeOpen \cup chanOpen \cup ctxLive \subseteq built)'
  OBVIOUS
<1>3. (\A d \in Callers : TearingDown(d) => own[d] \in built)'
  BY <1>1 DEF TearingDown
<1>4. MappedSessionIsLive'
  BY DEF MappedSessionIsLive
<1>5. TeardownExclusive'
  BY <1>1, LifecycleAssumption DEF TeardownExclusive, TearingDown
<1>6. OpenStoreIsOwned'
  <2>1. \A d \in Callers : HoldsStore(d) => d # c BY <1>1 DEF HoldsStore
  <2>2. \A d \in Callers \ {c} : HoldsStore(d) => HoldsStore(d)'
    BY <1>1 DEF HoldsStore
  <2>3. ASSUME NEW j \in storeOpen'
        PROVE  \/ j = session' \/ j \in orphans'
               \/ \E d \in Callers : HoldsStore(d)' /\ own'[d] = j
    <3>1. CASE j = i BY <3>1
    <3>2. CASE j \in storeOpen /\ j # i
      <4>1. j # session BY <3>2, LifecycleAssumption
      <4>2. j \in orphans => j \in orphans' OBVIOUS
      <4>3. ASSUME NEW d \in Callers, HoldsStore(d), own[d] = j
            PROVE  HoldsStore(d)' /\ own'[d] = j
        BY <4>3, <1>1, <2>1, <2>2
      <4> QED BY <3>2, <4>1, <4>2, <4>3 DEF OpenStoreIsOwned
    <3> QED BY <2>3, <3>1, <3>2
  <2> QED BY <2>3 DEF OpenStoreIsOwned
<1> QED BY <1>2, <1>3, <1>4, <1>5, <1>6

\* RemoveFromMap hands the instance over from the map to its caller.
LEMMA RemoveKeepsOwnership ==
    ASSUME TypeInv, Ownership, NEW c \in Callers, RemoveFromMap(c)
    PROVE  Ownership'
<1> USE DEF TypeInv, TypeOK
<1>1. CASE session = None
  <2>1. pc' = [pc EXCEPT ![c] = "idle"] /\ own' = [own EXCEPT ![c] = None]
        /\ pc[c] = "remove" /\ UNCHANGED instanceVars
    BY <1>1 DEF RemoveFromMap, Return, GotoWith, Goto, instanceVars, instVars
  <2>2. ~TearingDown(c) /\ ~TearingDown(c)'
    BY <2>1 DEF TearingDown, TeardownSteps
  <2> QED BY <2>1, <2>2, QuietStep
<1>2. CASE session # None
  <2>1. /\ pc' = [pc EXCEPT ![c] = "tdHandler"] /\ own' = [own EXCEPT ![c] = session]
        /\ pc[c] = "remove" /\ session' = None
        /\ UNCHANGED <<built, orphans, storeOpen, chanOpen, ctxLive>>
    BY <1>2 DEF RemoveFromMap, GotoWith, Goto, instVars
  <2>2. \A d \in Callers : TearingDown(d) => own[d] # session
    BY DEF Ownership, TeardownExclusive
  <2>3. \A d \in Callers \ {c} : /\ pc'[d] = pc[d] /\ own'[d] = own[d]
                                 /\ TearingDown(d)' = TearingDown(d)
                                 /\ HoldsStore(d)' = HoldsStore(d)
    BY <2>1 DEF TearingDown, HoldsStore
  <2>4. own'[c] = session /\ HoldsStore(c)' /\ ~HoldsStore(c)
    BY <2>1 DEF HoldsStore
  <2>5. session \in built
    BY <1>2 DEF Ownership, MappedSessionIsLive
  <2>6. (\A d \in Callers : TearingDown(d) => own[d] \in built)'
    BY <2>1, <2>3, <2>4, <2>5 DEF Ownership
  <2>7. MappedSessionIsLive' BY <2>1 DEF MappedSessionIsLive
  <2>8. TeardownExclusive'
    <3>1. \A d \in Callers : TearingDown(d)' => own'[d] \in Instances
      BY <1>2, <2>3, <2>4 DEF HoldsInstance, TearingDown
    <3> QED BY <2>1, <2>2, <2>3, <2>4, <3>1, LifecycleAssumption
            DEF Ownership, TeardownExclusive
  <2>9. OpenStoreIsOwned'
    <3>1. ASSUME NEW j \in storeOpen'
          PROVE  \/ j \in orphans'
                 \/ \E d \in Callers : HoldsStore(d)' /\ own'[d] = j
      <4>1. CASE j = session BY <4>1, <2>4
      <4>2. CASE j \in orphans BY <4>2, <2>1
      <4>3. ASSUME NEW d \in Callers, HoldsStore(d), own[d] = j
            PROVE  HoldsStore(d)' /\ own'[d] = j
        BY <4>3, <2>3, <2>4
      <4> QED BY <2>1, <4>1, <4>2, <4>3 DEF Ownership, OpenStoreIsOwned
    <3> QED BY <3>1 DEF OpenStoreIsOwned
  <2> QED BY <2>1, <2>6, <2>7, <2>8, <2>9 DEF Ownership
<1> QED BY <1>1, <1>2

\* A step of GoWS.Stop: what it closes is not mapped, and nobody else closes it.
LEMMA TeardownKeepsOwnership ==
    ASSUME TypeInv, Ownership, NEW c \in Callers,
           \/ TeardownHandler(c) \/ TeardownDisconnect(c) \/ TeardownStore(c)
           \/ TeardownChannel(c) \/ TeardownCancel(c)
    PROVE  Ownership'
<1> USE DEF TypeInv, TypeOK
<1> DEFINE i == own[c]
<1>1. /\ TearingDown(c)
      /\ UNCHANGED <<session, built, orphans>>
      /\ storeOpen \ {i} \subseteq storeOpen' /\ storeOpen' \subseteq storeOpen
      /\ chanOpen \ {i} \subseteq chanOpen' /\ chanOpen' \subseteq chanOpen
      /\ ctxLive \ {i} \subseteq ctxLive' /\ ctxLive' \subseteq ctxLive
      /\ \A d \in Callers \ {c} : pc'[d] = pc[d] /\ own'[d] = own[d]
      /\ TearingDown(c)' => own'[c] = i
      /\ HoldsStore(c) /\ i \in storeOpen' => HoldsStore(c)' /\ own'[c] = i
  <2> USE DEF TearingDown, HoldsStore, TeardownSteps, Goto, GotoWith, Return, instVars
  <2>1. CASE TeardownHandler(c) BY <2>1 DEF TeardownHandler
  <2>2. CASE TeardownDisconnect(c) BY <2>2 DEF TeardownDisconnect
  <2>3. CASE TeardownStore(c) BY <2>3 DEF TeardownStore
  <2>4. CASE TeardownChannel(c) BY <2>4 DEF TeardownChannel
  <2>5. CASE TeardownCancel(c) BY <2>5 DEF TeardownCancel
  <2> QED BY <2>1, <2>2, <2>3, <2>4, <2>5
<1>2. i # session
  BY <1>1 DEF Ownership, TeardownExclusive
<1>3. \A d \in Callers : TearingDown(d)' => TearingDown(d) /\ own'[d] = own[d]
  BY <1>1 DEF TearingDown
<1>4. MappedSessionIsLive'
  BY <1>1, <1>2 DEF Ownership, MappedSessionIsLive
<1>5. TeardownExclusive'
  BY <1>1, <1>3 DEF Ownership, TeardownExclusive
<1>6. OpenStoreIsOwned'
  <2>1. ASSUME NEW d \in Callers, HoldsStore(d), own[d] \in storeOpen'
        PROVE  HoldsStore(d)' /\ own'[d] = own[d]
    BY <1>1, <2>1 DEF HoldsStore
  <2> QED BY <1>1, <2>1 DEF Ownership, OpenStoreIsOwned
<1> QED BY <1>1, <1>3, <1>4, <1>5, <1>6 DEF Ownership

LEMMA OwnershipInductive ==
    ASSUME TypeInv, Ownership, [Next]_vars
    PROVE  Ownership'
<1>1. ASSUME NEW c \in Callers, StartCall(c) \/ StopCall(c) \/ Unsubscribe(c) PROVE Ownership'
  <2>1. /\ ~TearingDown(c) /\ ~TearingDown(c)'
        /\ \A d \in Callers \ {c} : pc'[d] = pc[d] /\ own'[d] = own[d]
        /\ UNCHANGED instanceVars
    BY <1>1 DEF StartCall, StopCall, Unsubscribe, Goto, TearingDown, TeardownSteps,
       instanceVars, instVars, TypeInv, TypeOK
  <2> QED BY <2>1, QuietStep
<1>2. ASSUME NEW c \in Callers, StartStep(c) PROVE Ownership'
  <2>1. CASE \E i \in Instances : BuildNew(c, i) \/ BuildBadProxy(c, i)
    BY <2>1, BuildKeepsOwnership
  <2>2. CASE \/ BuildExisting(c) \/ BuildFails(c) \/ Subscribe(c) \/ Lookup(c)
             \/ DropOldHandler(c) \/ AddHandler(c) \/ Connect(c)
    <3>1. /\ ~TearingDown(c) /\ ~TearingDown(c)'
          /\ \A d \in Callers \ {c} : pc'[d] = pc[d] /\ own'[d] = own[d]
          /\ UNCHANGED instanceVars
      BY <2>2 DEF BuildExisting, BuildFails, Subscribe, Lookup, DropOldHandler,
         AddHandler, Connect, Goto, GotoWith, Return, TearingDown, TeardownSteps,
         instanceVars, instVars, TypeInv, TypeOK
    <3> QED BY <3>1, QuietStep
  <2> QED BY <1>2, <2>1, <2>2 DEF StartStep
<1>3. ASSUME NEW c \in Callers, StopStep(c) PROVE Ownership'
  BY <1>1, <1>3, RemoveKeepsOwnership, TeardownKeepsOwnership DEF StopStep
<1>4. ASSUME NEW i \in Instances, Dispatch(i) \/ EmitStep(i) PROVE Ownership'
  BY <1>4, OwnershipStutter DEF Dispatch, EmitStep, Emit, EmitAbort, instanceVars, instVars
<1>5. ASSUME NEW p \in Pumps, PumpStep(p) PROVE Ownership'
  BY <1>5, OwnershipStutter
     DEF PumpStep, PumpOpens, PumpForwards, PumpExits, instanceVars, instVars
<1>6. CASE UNCHANGED vars
  BY <1>6, OwnershipStutter DEF vars, instanceVars, instVars
<1> QED BY <1>1, <1>2, <1>3, <1>4, <1>5, <1>6 DEF Next

LEMMA OwnershipInvariant == Spec => []Ownership
<1>1. Init => Ownership
  BY DEF Init, Ownership, MappedSessionIsLive, TeardownExclusive, OpenStoreIsOwned,
     TearingDown, TeardownSteps
<1> QED BY <1>1, TypeInvariant, OwnershipInductive, PTL DEF Spec

\* SessionManager.Get never returns a session that GoWS.Stop has begun to close.
THEOREM MapIsLive == Spec => []MappedSessionIsLive
<1>1. Ownership => MappedSessionIsLive BY DEF Ownership
<1> QED BY <1>1, OwnershipInvariant, PTL

\* GoWS.Stop runs at most once at a time per instance, and never on a mapped one.
THEOREM StopIsExclusive == Spec => []TeardownExclusive
<1>1. Ownership => TeardownExclusive BY DEF Ownership
<1> QED BY <1>1, OwnershipInvariant, PTL

\* No open database is forgotten, but for those of a failed SetProxyAddress.
THEOREM StoresAreOwned == Spec => []OpenStoreIsOwned
<1>1. Ownership => OpenStoreIsOwned BY DEF Ownership
<1> QED BY <1>1, OwnershipInvariant, PTL

-----------------------------------------------------------------------------
(* One subscription per name.  With the type invariant it is inductive as it is:
   Subscribe spawns a pump only when sub is None, and then no pump is subscribed. *)

LEMMA SubscriptionInductive ==
    ASSUME TypeInv, OneSubscription, [Next]_vars
    PROVE  OneSubscription'
<1> USE DEF TypeInv, TypeOK, OneSubscription, Subscribed, IdlePump
<1>1. ASSUME NEW c \in Callers, Subscribe(c) PROVE OneSubscription'
  <2>1. CASE sub # None BY <1>1, <2>1 DEF Subscribe
  <2>2. CASE sub = None
    <3>1. PICK p \in Pumps :
            /\ sub' = p
            /\ pump' = [pump EXCEPT ![p] = [st |-> "spawned", inst |-> own[c],
                                            cancelled |-> FALSE]]
      BY <1>1, <2>2 DEF Subscribe
    <3>2. \A q \in Pumps : ~Subscribed(q) BY <2>2, LifecycleAssumption
    <3> QED BY <3>1, <3>2
  <2> QED BY <2>1, <2>2
<1>2. ASSUME NEW c \in Callers, Unsubscribe(c) PROVE OneSubscription'
  <2>1. CASE sub \in Pumps /\ pump[sub].st # "idle"
    <3>1. pump' = [pump EXCEPT ![sub].cancelled = TRUE] BY <1>2, <2>1 DEF Unsubscribe
    <3>2. \A q \in Pumps : ~Subscribed(q)' BY <2>1, <3>1
    <3> QED BY <3>2
  <2>2. CASE ~(sub \in Pumps /\ pump[sub].st # "idle")
    <3>1. pump' = pump BY <1>2, <2>2 DEF Unsubscribe
    <3>2. \A q \in Pumps : ~Subscribed(q)' BY <2>2, <3>1
    <3> QED BY <3>2
  <2> QED BY <2>1, <2>2
<1>3. ASSUME NEW p \in Pumps, PumpStep(p) PROVE OneSubscription'
  <2>1. CASE PumpOpens(p) BY <2>1 DEF PumpOpens
  <2>2. CASE PumpForwards(p) BY <2>2 DEF PumpForwards
  <2>3. CASE PumpExits(p) BY <2>3 DEF PumpExits
  <2> QED BY <1>3, <2>1, <2>2, <2>3 DEF PumpStep
<1>4. CASE UNCHANGED <<sub, pump>> BY <1>4
<1>5. ASSUME NEW c \in Callers,
             StartCall(c) \/ StopCall(c) \/ StartStep(c) \/ StopStep(c),
             ~Subscribe(c), ~Unsubscribe(c)
      PROVE  UNCHANGED <<sub, pump>>
  BY <1>5 DEF StartCall, StopCall, StartStep, StopStep, BuildExisting, BuildNew,
     BuildBadProxy, BuildFails, Lookup, DropOldHandler, AddHandler, Connect,
     RemoveFromMap, TeardownHandler, TeardownDisconnect, TeardownStore,
     TeardownChannel, TeardownCancel
<1>6. ASSUME NEW i \in Instances, Dispatch(i) \/ EmitStep(i)
      PROVE  UNCHANGED <<sub, pump>>
  BY <1>6 DEF Dispatch, EmitStep, Emit, EmitAbort
<1> QED BY <1>1, <1>2, <1>3, <1>4, <1>5, <1>6 DEF Next, vars

\* Whatever starts and stops interleave, at most one pump forwards a name's events.
THEOREM AtMostOnePump == Spec => []OneSubscription
<1>1. Init => OneSubscription
  BY DEF Init, OneSubscription, Subscribed, IdlePump
<1> QED BY <1>1, TypeInvariant, SubscriptionInductive, PTL DEF Spec

-----------------------------------------------------------------------------
(* A client that serialises its calls: one caller.  Where it is tells what the map and
   the subscription hold, which two callers could bring apart.  For every c, since a
   theorem for one caller names it. *)

InStop == {"remove"} \cup TeardownSteps
AtSession == {"subscribe", "lookup", "unhandle", "handle", "connect"}

\* The subscription is that of the mapped session, and its pump forwards.
Forwarding ==
    /\ sub \in Pumps
    /\ Subscribed(sub)
    /\ pump[sub].inst = session
    /\ pump[sub].st \in {"spawned", "reading"}
    /\ session # None

SerialPump(c) ==
    /\ sub = None \/ Forwarding
    /\ pc[c] \in AtSession => session # None /\ own[c] = session
    /\ session # None /\ pc[c] \notin {"subscribe", "remove"} => sub # None
    /\ pc[c] \in InStop => sub = None
    /\ pc[c] \in TeardownSteps => session = None

SerialClient(c) ==
    /\ leaked = {}
    /\ pc[c] = "handle" => own[c] \notin registered
    /\ \A i \in registered : i = session \/ (pc[c] = "tdHandler" /\ i = own[c])
    /\ \A i \in running : i = session \/ (pc[c] \in {"tdHandler", "tdDisconnect"} /\ i = own[c])

\* The pump that may be cancelled is not ended by its channel: the mapped one is open.
LEMMA PumpKeepsForwarding ==
    ASSUME TypeInv, MappedSessionIsLive, Forwarding, NEW p \in Pumps, PumpStep(p)
    PROVE  Forwarding'
<1> USE DEF TypeInv, TypeOK, Forwarding, Subscribed, MappedSessionIsLive
<1>1. UNCHANGED <<session, sub>> BY DEF PumpStep, PumpOpens, PumpForwards, PumpExits
<1>2. CASE PumpOpens(p) BY <1>1, <1>2 DEF PumpOpens
<1>3. CASE PumpForwards(p) BY <1>1, <1>3 DEF PumpForwards
<1>4. CASE PumpExits(p)
  <2>1. p # sub BY <1>4 DEF PumpExits
  <2>2. pump' = [pump EXCEPT ![p] = IdlePump] BY <1>4 DEF PumpExits
  <2> QED BY <1>1, <2>1, <2>2
<1> QED BY <1>2, <1>3, <1>4 DEF PumpStep

LEMMA SerialPumpInductive ==
    ASSUME NEW c, Callers = {c}, TypeInv, Ownership, SerialPump(c), [Next]_vars
    PROVE  SerialPump(c)'
<1> USE DEF SerialPump, AtSession, InStop, TeardownSteps, StartSteps, StopSteps
<1>1. /\ pc \in [{c} -> {"idle"} \cup StartSteps \cup StopSteps]
      /\ own \in [{c} -> Instances \cup {None}]
      /\ session \in Instances \cup {None} /\ sub \in Pumps \cup {None}
      /\ None \notin Instances /\ None \notin Pumps
      /\ MappedSessionIsLive
  BY LifecycleAssumption DEF TypeInv, TypeOK, Ownership
<1>2. UNCHANGED <<session, sub, pump>> => Forwarding' = Forwarding
  BY DEF Forwarding, Subscribed
<1>3. CASE StartCall(c) \/ StopCall(c)
  BY <1>1, <1>2, <1>3 DEF StartCall, StopCall, Goto
<1>4. CASE BuildExisting(c) BY <1>1, <1>2, <1>4 DEF BuildExisting, GotoWith, Goto
<1>5. CASE BuildFails(c) BY <1>1, <1>2, <1>5 DEF BuildFails, Return, GotoWith, Goto
<1>6. ASSUME NEW i \in Instances, BuildBadProxy(c, i) PROVE SerialPump(c)'
  BY <1>1, <1>2, <1>6 DEF BuildBadProxy, Return, GotoWith, Goto
<1>7. ASSUME NEW i \in Instances, BuildNew(c, i) PROVE SerialPump(c)'
  <2>1. sub = None /\ sub' = None BY <1>7 DEF BuildNew, Forwarding
  <2> QED BY <1>1, <1>7, <2>1 DEF BuildNew, GotoWith, Goto
<1>8. CASE Subscribe(c)
  <2>1. /\ pc[c] = "subscribe" /\ pc'[c] = "lookup" /\ UNCHANGED <<session, own>>
        /\ session # None /\ own[c] = session
    BY <1>1, <1>8 DEF Subscribe, Goto
  <2>2. Forwarding'
    <3>1. CASE sub # None BY <1>2, <1>8, <2>1, <3>1 DEF Subscribe
    <3>2. CASE sub = None
      <4>1. PICK p \in Pumps :
              /\ sub' = p
              /\ pump' = [pump EXCEPT ![p] = [st |-> "spawned", inst |-> own[c], cancelled |-> FALSE]]
        BY <1>8, <3>2 DEF Subscribe
      <4>2. pump'[p] = [st |-> "spawned", inst |-> own[c], cancelled |-> FALSE]
        BY <4>1 DEF TypeInv, TypeOK
      <4> QED BY <2>1, <4>1, <4>2 DEF Forwarding, Subscribed
    <3> QED BY <3>1, <3>2
  <2>3. sub' # None BY <1>1, <2>2 DEF Forwarding
  <2> QED BY <2>1, <2>2, <2>3
<1>9. CASE Lookup(c) BY <1>1, <1>2, <1>9 DEF Lookup, Return, GotoWith, Goto
<1>10. CASE DropOldHandler(c) \/ AddHandler(c)
  BY <1>1, <1>2, <1>10 DEF DropOldHandler, AddHandler, Goto
<1>11. CASE Connect(c) BY <1>1, <1>2, <1>11 DEF Connect, Return, GotoWith, Goto
<1>12. CASE Unsubscribe(c) BY <1>1, <1>12 DEF Unsubscribe, Goto
<1>13. CASE RemoveFromMap(c)
  <2>1. CASE session = None BY <1>1, <1>13, <2>1 DEF RemoveFromMap, Return, GotoWith, Goto
  <2>2. CASE session # None BY <1>1, <1>13, <2>2 DEF RemoveFromMap, GotoWith, Goto
  <2> QED BY <2>1, <2>2
<1>14. CASE TeardownHandler(c) \/ TeardownDisconnect(c) \/ TeardownStore(c) \/ TeardownChannel(c)
  BY <1>1, <1>2, <1>14
  DEF TeardownHandler, TeardownDisconnect, TeardownStore, TeardownChannel, Goto
<1>15. CASE TeardownCancel(c) BY <1>1, <1>2, <1>15 DEF TeardownCancel, Return, GotoWith, Goto
<1>16. ASSUME NEW i \in Instances, Dispatch(i) \/ EmitStep(i) PROVE SerialPump(c)'
  BY <1>2, <1>16 DEF Dispatch, EmitStep, Emit, EmitAbort
<1>17. ASSUME NEW p \in Pumps, PumpStep(p) PROVE SerialPump(c)'
  <2>1. UNCHANGED <<session, sub, pc, own>>
    BY <1>17 DEF PumpStep, PumpOpens, PumpForwards, PumpExits
  <2> QED BY <1>1, <1>17, <2>1, PumpKeepsForwarding
<1>18. CASE UNCHANGED vars BY <1>2, <1>18 DEF vars
<1> QED BY <1>3, <1>4, <1>5, <1>6, <1>7, <1>8, <1>9, <1>10, <1>11, <1>12, <1>13, <1>14, <1>15,
           <1>16, <1>17, <1>18 DEF Next, StartStep, StopStep

LEMMA SerialClientInductive ==
    ASSUME NEW c, Callers = {c}, TypeInv, SerialPump(c), SerialClient(c), [Next]_vars
    PROVE  SerialClient(c)'
<1> USE DEF SerialClient
<1>1. /\ pc \in [{c} -> {"idle"} \cup StartSteps \cup StopSteps]
      /\ own \in [{c} -> Instances \cup {None}]
      /\ running \subseteq Instances /\ registered \subseteq Instances
      /\ None \notin Instances
  BY LifecycleAssumption DEF TypeInv, TypeOK
<1>2. pc[c] \in {"unhandle", "handle", "connect"} => own[c] = session
  BY DEF SerialPump, AtSession
<1>3. CASE StartCall(c) \/ StopCall(c)
  BY <1>1, <1>3 DEF StartCall, StopCall, Goto, clientVars
<1>4. CASE BuildExisting(c) BY <1>1, <1>4 DEF BuildExisting, GotoWith, Goto, clientVars
<1>5. CASE BuildFails(c) BY <1>1, <1>5 DEF BuildFails, Return, GotoWith, Goto, clientVars
<1>6. ASSUME NEW i \in Instances, BuildBadProxy(c, i) PROVE SerialClient(c)'
  BY <1>1, <1>6 DEF BuildBadProxy, Return, GotoWith, Goto, clientVars
<1>7. ASSUME NEW i \in Instances, BuildNew(c, i) PROVE SerialClient(c)'
  <2>1. registered = {} /\ running = {} BY <1>1, <1>7 DEF BuildNew
  <2> QED BY <1>1, <1>7, <2>1 DEF BuildNew, GotoWith, Goto, clientVars
<1>8. CASE Subscribe(c) BY <1>1, <1>8 DEF Subscribe, Goto, clientVars
<1>9. CASE Lookup(c) BY <1>1, <1>9 DEF Lookup, Return, GotoWith, Goto, clientVars
<1>10. CASE DropOldHandler(c) BY <1>1, <1>2, <1>10 DEF DropOldHandler, Goto
<1>11. CASE AddHandler(c) BY <1>1, <1>2, <1>11 DEF AddHandler, Goto
<1>12. CASE Connect(c)
  <2>1. /\ pc[c] = "connect" /\ pc'[c] = "idle" /\ own[c] = session
        /\ UNCHANGED <<session, registered, leaked>> /\ running' \subseteq running \cup {own[c]}
    BY <1>1, <1>2, <1>12 DEF Connect, Return, GotoWith, Goto
  <2> QED BY <2>1
<1>13. CASE Unsubscribe(c) BY <1>1, <1>13 DEF Unsubscribe, Goto, clientVars
<1>14. CASE RemoveFromMap(c)
  <2>1. CASE session = None BY <1>1, <1>14, <2>1 DEF RemoveFromMap, Return, GotoWith, Goto, clientVars
  <2>2. CASE session # None BY <1>1, <1>14, <2>2 DEF RemoveFromMap, GotoWith, Goto, clientVars
  <2> QED BY <2>1, <2>2
<1>15. CASE TeardownHandler(c) BY <1>1, <1>15 DEF TeardownHandler, Goto
<1>16. CASE TeardownDisconnect(c) BY <1>1, <1>16 DEF TeardownDisconnect, Goto
<1>17. CASE TeardownStore(c) \/ TeardownChannel(c)
  BY <1>1, <1>17 DEF TeardownStore, TeardownChannel, Goto, clientVars
<1>18. CASE TeardownCancel(c)
  <2>1. /\ pc[c] = "tdCancel" /\ pc'[c] = "idle" /\ UNCHANGED <<session, clientVars>>
    BY <1>1, <1>18 DEF TeardownCancel, Return, GotoWith, Goto
  <2> QED BY <2>1 DEF clientVars
<1>19. ASSUME NEW i \in Instances, Dispatch(i) \/ EmitStep(i) PROVE SerialClient(c)'
  BY <1>19 DEF Dispatch, EmitStep, Emit, EmitAbort, clientVars
<1>20. ASSUME NEW p \in Pumps, PumpStep(p) PROVE SerialClient(c)'
  BY <1>20 DEF PumpStep, PumpOpens, PumpForwards, PumpExits, clientVars
<1>21. CASE UNCHANGED vars BY <1>21 DEF vars, clientVars
<1> QED BY <1>3, <1>4, <1>5, <1>6, <1>7, <1>8, <1>9, <1>10, <1>11, <1>12, <1>13, <1>14, <1>15,
           <1>16, <1>17, <1>18, <1>19, <1>20, <1>21 DEF Next, StartStep, StopStep

LEMMA SerialInvariant ==
    ASSUME NEW CONSTANT c, Callers = {c}
    PROVE  Spec => [](SerialPump(c) /\ SerialClient(c))
<1>1. Init => SerialPump(c) /\ SerialClient(c)
  BY DEF Init, SerialPump, SerialClient, AtSession, InStop, TeardownSteps
<1>2. TypeInv /\ Ownership /\ SerialPump(c) /\ SerialClient(c) /\ [Next]_vars
        => (SerialPump(c) /\ SerialClient(c))'
  BY SerialPumpInductive, SerialClientInductive
<1> QED BY <1>1, <1>2, TypeInvariant, OwnershipInvariant, PTL DEF Spec

\* A client that waits for each answer before it calls again finds, after every start
\* that left a session in the map, a pump that forwards that session's events.
THEOREM SerialCallsKeepPump ==
    ASSUME NEW CONSTANT c, Callers = {c}
    PROVE  Spec => []LiveSessionHasPump
<1>1. SerialPump(c) => LiveSessionHasPump
  <2> SUFFICES ASSUME SerialPump(c), Quiescent, session # None
               PROVE  sub # None /\ Subscribed(sub) /\ pump[sub].inst = session /\ pump[sub].st # "nilchan"
    BY DEF LiveSessionHasPump
  <2>1. pc[c] = "idle" BY DEF Quiescent
  <2> QED BY <2>1 DEF SerialPump, Forwarding
<1> QED BY <1>1, SerialInvariant, PTL

\* For such a client no handler is ever registered twice, and between its calls no client
\* but that of the mapped session is connected.
THEOREM SerialCallsLeaveNoZombie ==
    ASSUME NEW CONSTANT c, Callers = {c}
    PROVE  Spec => []NoZombie
<1>1. SerialClient(c) => NoZombie BY DEF SerialClient, NoZombie, Quiescent
<1> QED BY <1>1, SerialInvariant, PTL
=============================================================================
