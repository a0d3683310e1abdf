------------------------ MODULE EventListenersProofs ------------------------
(***************************************************************************)
(* Invariants of EventListeners for any number of senders and streams, any  *)
(* buffer and any drop limit.                                               *)
(***************************************************************************)
EXTENDS EventListeners, FiniteSetTheorems, TLAPS

-----------------------------------------------------------------------------
(* Type correctness, with what the two writes of a sender need: what it appends is
   an event, what it judges is a listener. *)

SenderInv ==
    \A s \in Senders :
        /\ snd[s].st # "idle" => snd[s].kind \in Kinds
        /\ snd[s].st = "judge" => snd[s].at \in Streams

TypeInv == TypeOK /\ SenderInv

SenderType == [st : {"idle", "visit", "reset", "judge"}, kind : Kinds \cup {None},
               todo : SUBSET Streams, at : Streams \cup {None}, count : Nat]

TallyType == [offered : Nat, taken : Nat, dropped : Nat, row : Nat]

\* A step of a sender that changes nothing but its own record.
LEMMA SenderMoves ==
    ASSUME TypeInv, NEW s \in Senders, NEW r \in SenderType,
           snd' = [snd EXCEPT ![s] = r],
           r.st # "idle" => r.kind \in Kinds,
           r.st = "judge" => r.at \in Streams
    PROVE  snd' \in [Senders -> SenderType] /\ SenderInv'
BY DEF TypeInv, TypeOK, SenderInv, SenderType

\* The history of one listener.
LEMMA TallyMoves ==
    ASSUME NEW t \in TallyType, NEW n \in Nat
    PROVE  /\ [t EXCEPT !.taken = n] \in TallyType
           /\ [t EXCEPT !.row = n] \in TallyType
           /\ [t EXCEPT !.offered = n] \in TallyType
           /\ t.taken \in Nat /\ t.row \in Nat /\ t.offered \in Nat /\ t.dropped \in Nat
BY DEF TallyType

LEMMA VisitKeepsType ==
    ASSUME TypeInv, NEW s \in Senders, VisitStep(s)
    PROVE  TypeInv'
<1> USE ListenersAssumption DEF TypeInv, TypeOK, streamVars, Visits, Rest
<1>0. snd[s] \in SenderType BY DEF SenderType
<1>1. ASSUME NEW l \in Streams, SkipExcluded(s, l) PROVE TypeInv'
  <2> DEFINE r == [snd[s] EXCEPT !.todo = Rest(s, l)]
  <2>1. r \in SenderType /\ r.kind = snd[s].kind /\ r.st = "visit"
    BY <1>0, <1>1 DEF SkipExcluded, SenderType
  <2>2. snd' = [snd EXCEPT ![s] = r] BY <1>1 DEF SkipExcluded
  <2>3. r.kind \in Kinds BY <2>1, <1>1 DEF SkipExcluded, SenderInv
  <2>4. snd' \in [Senders -> SenderType] /\ SenderInv'
    BY <2>1, <2>2, <2>3, SenderMoves
  <2> QED BY <1>1, <2>4 DEF SkipExcluded, SenderType
<1>2. ASSUME NEW l \in Streams, Deliver(s, l) PROVE TypeInv'
  <2> DEFINE r == [snd[s] EXCEPT !.st = "reset", !.todo = Rest(s, l), !.at = l]
  <2>1. r \in SenderType /\ r.kind = snd[s].kind /\ r.st = "reset"
    BY <1>0, <1>2 DEF SenderType
  <2>2. snd' = [snd EXCEPT ![s] = r] BY <1>2 DEF Deliver
  <2>3. snd[s].kind \in Kinds BY <1>2 DEF Deliver, SenderInv
  <2>4. snd' \in [Senders -> SenderType] /\ SenderInv'
    BY <2>1, <2>2, <2>3, SenderMoves
  <2>5. /\ buf' \in [Streams -> Seq(Kinds)]
        /\ \A m \in Streams : Len(buf'[m]) <= BufCap
    BY <1>2, <2>3 DEF Deliver
  <2>6. tally' \in [Streams -> TallyType] BY ZenonT(40), <1>2 DEF Deliver, TallyType
  <2> QED BY <1>2, <2>4, <2>5, <2>6 DEF Deliver, SenderType, TallyType
<1>3. ASSUME NEW l \in Streams, DropEvent(s, l) PROVE TypeInv'
  <2> DEFINE r == [snd[s] EXCEPT !.st = "judge", !.todo = Rest(s, l), !.at = l,
                                 !.count = drops[l] + 1]
  <2>0. drops[l] + 1 \in Nat OBVIOUS
  <2>1. r \in SenderType /\ r.kind = snd[s].kind /\ r.st = "judge" /\ r.at = l
    <3> HIDE DEF TypeOK
    <3> QED BY <1>0, <2>0 DEF SenderType
  <2>2. snd' = [snd EXCEPT ![s] = r] BY <1>3 DEF DropEvent
  <2>3. snd[s].kind \in Kinds BY <1>3 DEF DropEvent, SenderInv
  <2>4. snd' \in [Senders -> SenderType] /\ SenderInv'
    BY <2>1, <2>2, <2>3, SenderMoves
  <2>5. tally' \in [Streams -> TallyType]
    <3> DEFINE t == [tally[l] EXCEPT !.dropped = tally[l].dropped + 1,
                                     !.row = tally[l].row + 1]
    <3>1. tally[l] \in TallyType BY DEF TallyType
    <3>2. tally[l].dropped + 1 \in Nat /\ tally[l].row + 1 \in Nat BY <3>1, TallyMoves
    <3>3. t \in TallyType BY <3>1, <3>2 DEF TallyType
    <3>4. tally' = [tally EXCEPT ![l] = t] BY <1>3 DEF DropEvent
    <3> QED BY <3>3, <3>4 DEF TallyType
  <2>6. drops' \in [Streams -> Nat] BY <1>3 DEF DropEvent
  <2> QED BY <1>3, <2>4, <2>5, <2>6 DEF DropEvent, SenderType, TallyType
<1>4. CASE ResetDrops(s)
  <2> DEFINE r == [snd[s] EXCEPT !.st = "visit", !.at = None]
  <2>1. r \in SenderType /\ r.kind = snd[s].kind /\ r.st = "visit"
    BY <1>0 DEF SenderType
  <2>2. snd' = [snd EXCEPT ![s] = r] BY <1>4 DEF ResetDrops
  <2>3. snd[s].kind \in Kinds BY <1>4 DEF ResetDrops, SenderInv
  <2>4. snd' \in [Senders -> SenderType] /\ SenderInv'
    BY <2>1, <2>2, <2>3, SenderMoves
  <2>5. drops' \in [Streams -> Nat] BY <1>4 DEF ResetDrops
  <2> QED BY <1>4, <2>4, <2>5 DEF ResetDrops, SenderType
<1>5. CASE JudgeDrop(s)
  <2> DEFINE r == [snd[s] EXCEPT !.st = "visit", !.at = None, !.count = 0]
  <2>1. r \in SenderType /\ r.kind = snd[s].kind /\ r.st = "visit"
    BY <1>0 DEF SenderType
  <2>2. snd' = [snd EXCEPT ![s] = r] BY <1>5 DEF JudgeDrop
  <2>3. snd[s].kind \in Kinds /\ snd[s].at \in Streams BY <1>5 DEF JudgeDrop, SenderInv
  <2>4. snd' \in [Senders -> SenderType] /\ SenderInv'
    BY <2>1, <2>2, <2>3, SenderMoves
  <2>5. poisoned' \subseteq Streams BY <1>5, <2>3 DEF JudgeDrop
  <2> QED BY <1>5, <2>4, <2>5 DEF JudgeDrop, SenderType
<1>6. CASE EndSend(s)
  <2>1. IdleSender \in SenderType /\ IdleSender.st = "idle" BY DEF IdleSender, SenderType
  <2>2. snd' \in [Senders -> SenderType] /\ SenderInv'
    BY <1>6, <2>1, SenderMoves DEF EndSend
  <2> QED BY <1>6, <2>2 DEF EndSend, SenderType
<1> QED BY <1>1, <1>2, <1>3, <1>4, <1>5, <1>6 DEF VisitStep

LEMMA StartKeepsType ==
    ASSUME TypeInv, NEW s \in Senders, NEW kind \in Kinds, StartSend(s, kind)
    PROVE  TypeInv'
<1> USE ListenersAssumption DEF TypeInv, TypeOK, streamVars
<1> DEFINE r == [IdleSender EXCEPT !.st = "visit", !.kind = kind, !.todo = listeners]
<1>1. r \in SenderType /\ r.kind = kind /\ r.st = "visit" BY DEF SenderType, IdleSender
<1>2. snd' = [snd EXCEPT ![s] = r] BY DEF StartSend
<1>3. snd' \in [Senders -> SenderType] /\ SenderInv' BY <1>1, <1>2, SenderMoves
<1>4. tally' \in [Streams -> TallyType]
  <2>1. \A l \in Streams : tally[l] \in TallyType BY DEF TallyType
  <2>2. \A l \in Streams : [tally[l] EXCEPT !.offered = tally[l].offered + 1] \in TallyType
    <3> TAKE l \in Streams
    <3>1. tally[l].offered + 1 \in Nat BY <2>1, TallyMoves
    <3> QED BY <2>1, <3>1, TallyMoves
  <2> HIDE DEF TypeOK
  <2> QED BY <2>1, <2>2 DEF StartSend
<1> QED BY SMTT(30), <1>3, <1>4 DEF StartSend, SenderType, TallyType

LEMMA StreamKeepsType ==
    ASSUME TypeInv, NEW l \in Streams, LeaveStep(l) \/ StreamStep(l) \/ ClientStep(l)
    PROVE  TypeInv'
<1> USE DEF TypeInv, TypeOK, SenderInv, Move
<1>1. CASE LeaveCancelled(l) BY <1>1 DEF LeaveCancelled
<1>2. CASE LeavePoisoned(l) BY <1>2 DEF LeavePoisoned
<1>3. CASE AddListener(l) BY <1>3 DEF AddListener
<1>4. CASE ReceiveEvent(l)
  <2>1. /\ buf' \in [Streams -> Seq(Kinds)]
        /\ \A m \in Streams : Len(buf'[m]) <= BufCap
    BY <1>4, ListenersAssumption DEF ReceiveEvent
  <2>2. tally' \in [Streams -> TallyType]
    <3>1. tally[l] \in TallyType BY DEF TallyType
    <3>2. tally[l].taken + 1 \in Nat BY <3>1, TallyMoves
    <3>3. [tally[l] EXCEPT !.taken = tally[l].taken + 1] \in TallyType
      BY <3>1, <3>2, TallyMoves
    <3> QED BY <1>4, <3>3 DEF ReceiveEvent, TallyType
  <2>3. st' \in [Streams -> {"new", "adding", "select", "sending", "removing", "gone"}]
    BY <1>4 DEF ReceiveEvent
  <2> QED BY <1>4, <2>1, <2>2, <2>3 DEF ReceiveEvent, TallyType
<1>5. CASE SendFails(l) BY <1>5 DEF SendFails
<1>6. CASE RemoveListener(l) BY <1>6 DEF RemoveListener
<1>7. CASE OpenStream(l) BY <1>7 DEF OpenStream
<1>8. CASE CancelStream(l) BY <1>8 DEF CancelStream
<1>9. CASE SendAccepted(l) BY <1>9 DEF SendAccepted
<1> QED BY <1>1, <1>2, <1>3, <1>4, <1>5, <1>6, <1>7, <1>8, <1>9
        DEF LeaveStep, StreamStep, ClientStep

LEMMA TypeInvariant == Spec => []TypeInv
<1>1. Init => TypeInv
  BY ListenersAssumption DEF Init, TypeInv, TypeOK, SenderInv, IdleSender, NoTally
<1>2. TypeInv /\ UNCHANGED vars => TypeInv'
  BY DEF TypeInv, TypeOK, SenderInv, vars, streamVars
<1>3. TypeInv /\ [Next]_vars => TypeInv'
  BY <1>2, VisitKeepsType, StartKeepsType, StreamKeepsType DEF Next
<1> QED BY <1>1, <1>3, PTL DEF Spec

\* The variables always have the types TypeOK gives them.
THEOREM TypeCorrect == Spec => []TypeOK
<1>1. TypeInv => TypeOK BY DEF TypeInv
<1> QED BY <1>1, TypeInvariant, PTL

-----------------------------------------------------------------------------
(* The lock protects the channels: a sender that is not reading visits nobody, a
   reading one visits registered listeners, and a registered one is not closed. *)

Protected ==
    /\ \A s \in Senders : snd[s].todo \subseteq listeners
    /\ \A s \in Senders : ~Reading(s) => snd[s].todo = {}
    /\ \A l \in closed : st[l] = "gone" /\ l \notin listeners

LEMMA ProtectedInductive ==
    ASSUME TypeInv, Protected, [Next]_vars
    PROVE  Protected'
<1> USE DEF TypeInv, TypeOK, Protected, Reading, streamVars, Move, IdleSender
<1>1. ASSUME NEW s \in Senders, VisitStep(s) PROVE Protected'
  <2> USE DEF Visits, Rest
  <2>1. ASSUME NEW l \in Streams, SkipExcluded(s, l) \/ Deliver(s, l) \/ DropEvent(s, l)
        PROVE  Protected'
    <3>1. /\ snd'[s].todo = snd[s].todo \ {l} /\ snd'[s].st # "idle"
          /\ \A t \in Senders \ {s} : snd'[t] = snd[t]
          /\ UNCHANGED <<st, listeners, closed>>
      <4>1. CASE SkipExcluded(s, l) BY <4>1 DEF SkipExcluded
      <4>2. CASE Deliver(s, l) BY <4>2 DEF Deliver
      <4>3. CASE DropEvent(s, l) BY <4>3 DEF DropEvent
      <4> QED BY <2>1, <4>1, <4>2, <4>3
    <3> QED BY <3>1
  <2>2. CASE ResetDrops(s) BY <2>2 DEF ResetDrops
  <2>3. CASE JudgeDrop(s) BY <2>3 DEF JudgeDrop
  <2>4. CASE EndSend(s) BY <2>4 DEF EndSend
  <2> QED BY <1>1, <2>1, <2>2, <2>3, <2>4 DEF VisitStep
<1>2. ASSUME NEW s \in Senders, NEW kind \in Kinds, StartSend(s, kind) PROVE Protected'
  BY <1>2 DEF StartSend
<1>3. ASSUME NEW l \in Streams, LeaveStep(l) PROVE Protected'
  BY <1>3 DEF LeaveStep, LeaveCancelled, LeavePoisoned
<1>4. ASSUME NEW l \in Streams, StreamStep(l) PROVE Protected'
  <2>1. CASE AddListener(l) BY <2>1 DEF AddListener
  <2>2. CASE ReceiveEvent(l) BY <2>2 DEF ReceiveEvent
  <2>3. CASE SendFails(l) BY <2>3 DEF SendFails
  <2>4. CASE RemoveListener(l) BY <2>4 DEF RemoveListener
  <2> QED BY <1>4, <2>1, <2>2, <2>3, <2>4 DEF StreamStep
<1>5. ASSUME NEW l \in Streams, ClientStep(l) PROVE Protected'
  BY <1>5 DEF ClientStep, OpenStream, CancelStream, SendAccepted
<1>6. CASE UNCHANGED vars BY <1>6 DEF vars
<1> QED BY <1>1, <1>2, <1>3, <1>4, <1>5, <1>6 DEF Next

\* A pump never sends on a closed listener channel, and so never panics there.
THEOREM SendsAreSafe == Spec => []NoSendOnClosedChannel
<1>1. Init => Protected
  BY DEF Init, Protected, IdleSender, Reading
<1>2. Protected => NoSendOnClosedChannel
  BY DEF Protected, NoSendOnClosedChannel
<1> QED BY <1>1, <1>2, TypeInvariant, ProtectedInductive, PTL DEF Spec

-----------------------------------------------------------------------------
(* The accounts: an event offered to a listener is with the senders that have not
   visited it until one of them puts it into the buffer or drops it. *)

Waiting(l) == {s \in Senders : l \in snd[s].todo /\ ~Excluded(l, snd[s].kind)}

Balance(l) == tally[l].taken + Len(buf[l]) + tally[l].dropped

Accounts == \A l \in Streams : tally[l].offered = Balance(l) + Cardinality(Waiting(l))

LEMMA WaitingCounts ==
    ASSUME NEW l \in Streams
    PROVE  /\ IsFiniteSet(Waiting(l)) /\ Cardinality(Waiting(l)) \in Nat
           /\ \A s \in Waiting(l) : Cardinality(Waiting(l) \ {s}) = Cardinality(Waiting(l)) - 1
           /\ \A s : s \notin Waiting(l) => Cardinality(Waiting(l) \cup {s}) = Cardinality(Waiting(l)) + 1
<1>1. IsFiniteSet(Waiting(l)) BY ListenersAssumption, FS_Subset DEF Waiting
<1> QED BY <1>1, FS_CardinalityType, FS_RemoveElement, FS_AddElement

LEMMA BalanceType ==
    ASSUME TypeInv, NEW l \in Streams
    PROVE  /\ tally[l] \in TallyType /\ Len(buf[l]) \in Nat
           /\ tally[l].offered \in Nat /\ tally[l].taken \in Nat /\ tally[l].dropped \in Nat
BY DEF TypeInv, TypeOK, TallyType

\* What a sender's step does to the listeners it does not touch.
LEMMA OthersKeep ==
    ASSUME TypeInv, Accounts, NEW m \in Streams,
           tally'[m] = tally[m], buf'[m] = buf[m], Waiting(m)' = Waiting(m)
    PROVE  tally'[m].offered = Balance(m)' + Cardinality(Waiting(m)')
BY DEF Accounts, Balance

LEMMA VisitKeepsAccounts ==
    ASSUME TypeInv, Accounts, NEW s \in Senders, VisitStep(s)
    PROVE  Accounts'
<1> USE DEF Visits, Rest, streamVars, Excluded
<1> SUFFICES ASSUME NEW m \in Streams
             PROVE  tally'[m].offered = Balance(m)' + Cardinality(Waiting(m)')
  BY DEF Accounts
<1>1. ASSUME NEW l \in Streams, SkipExcluded(s, l) PROVE tally'[m].offered = Balance(m)' + Cardinality(Waiting(m)')
  <2>1. Waiting(m)' = Waiting(m) BY <1>1 DEF SkipExcluded, Waiting, TypeInv, TypeOK
  <2> QED BY <2>1, <1>1, OthersKeep DEF SkipExcluded
<1>2. ASSUME NEW l \in Streams, Deliver(s, l) \/ DropEvent(s, l)
      PROVE  tally'[m].offered = Balance(m)' + Cardinality(Waiting(m)')
  <2>1. /\ \A t \in Senders : t # s => snd'[t] = snd[t]
        /\ snd'[s].todo = snd[s].todo \ {l} /\ snd'[s].kind = snd[s].kind
        /\ l \in snd[s].todo /\ ~Excluded(l, snd[s].kind) /\ exclude' = exclude
    <3>1. CASE Deliver(s, l) BY <3>1 DEF Deliver, TypeInv, TypeOK
    <3>2. CASE DropEvent(s, l) BY <3>2 DEF DropEvent, TypeInv, TypeOK
    <3> QED BY <1>2, <3>1, <3>2
  <2>2. CASE m # l
    <3>1. Waiting(m)' = Waiting(m) BY <2>1, <2>2 DEF Waiting
    <3>2. tally'[m] = tally[m] /\ buf'[m] = buf[m]
      BY <1>2, <2>2 DEF Deliver, DropEvent, TypeInv, TypeOK
    <3> QED BY <3>1, <3>2, OthersKeep
  <2>3. CASE m = l
    <3>1. s \in Waiting(l) /\ Waiting(l)' = Waiting(l) \ {s} BY <2>1 DEF Waiting
    <3>2. Cardinality(Waiting(l)') = Cardinality(Waiting(l)) - 1 /\ Cardinality(Waiting(l)) \in Nat
      BY <3>1, WaitingCounts
    <3>3. tally[l].offered = Balance(l) + Cardinality(Waiting(l)) BY DEF Accounts
    <3>0. /\ tally[l].offered \in Nat /\ tally[l].taken \in Nat /\ tally[l].dropped \in Nat
          /\ Len(buf[l]) \in Nat
      BY BalanceType
    <3>4. tally'[l].offered = tally[l].offered /\ Balance(l)' = Balance(l) + 1
      <4>1. CASE Deliver(s, l)
        <5>1. tally'[l] = [tally[l] EXCEPT !.row = 0] BY <4>1 DEF Deliver, TypeInv, TypeOK
        <5>2. /\ tally'[l].offered = tally[l].offered
              /\ tally'[l].taken = tally[l].taken /\ tally'[l].dropped = tally[l].dropped
          BY <5>1, BalanceType DEF TallyType
        <5>3. snd[s].kind \in Kinds BY <4>1 DEF Deliver, TypeInv, SenderInv
        <5>4. Len(buf'[l]) = Len(buf[l]) + 1
          <6>1. buf'[l] = Append(buf[l], snd[s].kind) BY <4>1 DEF Deliver, TypeInv, TypeOK
          <6>2. buf[l] \in Seq(Kinds) BY DEF TypeInv, TypeOK
          <6> QED BY <6>1, <6>2, <5>3
        <5> DEFINE before == Len(buf[l])  after == Len(buf'[l])
        <5>5. after = before + 1 /\ before \in Nat BY <5>4, <3>0
        <5>6. /\ Balance(l) = tally[l].taken + before + tally[l].dropped
              /\ Balance(l)' = tally[l].taken + after + tally[l].dropped
          BY <5>2 DEF Balance
        <5> HIDE DEF before, after
        <5>7. tally'[l].offered = tally[l].offered BY <5>2
        <5>8. Balance(l)' = Balance(l) + 1 BY <5>5, <5>6, <3>0
        <5> QED BY <5>7, <5>8
      <4>2. CASE DropEvent(s, l)
        <5>1. tally'[l] = [tally[l] EXCEPT !.dropped = tally[l].dropped + 1, !.row = tally[l].row + 1]
          BY <4>2 DEF DropEvent, TypeInv, TypeOK
        <5>2. /\ tally'[l].offered = tally[l].offered
              /\ tally'[l].taken = tally[l].taken /\ tally'[l].dropped = tally[l].dropped + 1
          BY <5>1, BalanceType DEF TallyType
        <5>3. buf' = buf BY <4>2 DEF DropEvent
        <5> QED BY SMTT(30), <5>2, <5>3, <3>0 DEF Balance
      <4> QED BY <1>2, <4>1, <4>2
    <3>5. Balance(l) \in Nat BY SMTT(30), <3>0 DEF Balance
    <3> QED BY <2>3, <3>2, <3>3, <3>4, <3>5
  <2> QED BY <2>2, <2>3
<1>3. CASE ResetDrops(s) \/ JudgeDrop(s)
  <2>1. Waiting(m)' = Waiting(m)
    <3>1. CASE ResetDrops(s) BY <3>1 DEF ResetDrops, Waiting, TypeInv, TypeOK
    <3>2. CASE JudgeDrop(s) BY <3>2 DEF JudgeDrop, Waiting, TypeInv, TypeOK
    <3> QED BY <1>3, <3>1, <3>2
  <2> QED BY <2>1, <1>3, OthersKeep DEF ResetDrops, JudgeDrop
<1>4. CASE EndSend(s)
  <2>1. Waiting(m)' = Waiting(m) BY <1>4 DEF EndSend, Waiting, IdleSender, TypeInv, TypeOK
  <2> QED BY <2>1, <1>4, OthersKeep DEF EndSend
<1> QED BY <1>1, <1>2, <1>3, <1>4 DEF VisitStep

LEMMA StartKeepsAccounts ==
    ASSUME TypeInv, Protected, Accounts, NEW s \in Senders, NEW kind \in Kinds, StartSend(s, kind)
    PROVE  Accounts'
<1> USE DEF streamVars, Excluded
<1> SUFFICES ASSUME NEW m \in Streams
             PROVE  tally'[m].offered = Balance(m)' + Cardinality(Waiting(m)')
  BY DEF Accounts
<1>1. /\ \A t \in Senders : t # s => snd'[t] = snd[t]
      /\ snd'[s].todo = listeners /\ snd'[s].kind = kind /\ snd[s].todo = {}
      /\ exclude' = exclude /\ buf' = buf
  BY DEF StartSend, IdleSender, Protected, TypeInv, TypeOK
<1>2. CASE m \in listeners /\ ~Excluded(m, kind)
  <2>1. s \notin Waiting(m) /\ Waiting(m)' = Waiting(m) \cup {s} BY <1>1, <1>2 DEF Waiting
  <2>2. Cardinality(Waiting(m)') = Cardinality(Waiting(m)) + 1 /\ Cardinality(Waiting(m)) \in Nat
    BY <2>1, WaitingCounts
  <2>3. tally'[m] = [tally[m] EXCEPT !.offered = tally[m].offered + 1]
    BY <1>2 DEF StartSend, TypeInv, TypeOK
  <2>4. /\ tally'[m].offered = tally[m].offered + 1
        /\ tally'[m].taken = tally[m].taken /\ tally'[m].dropped = tally[m].dropped
    BY <2>3, BalanceType DEF TallyType
  <2>5. /\ tally[m].offered \in Nat /\ tally[m].taken \in Nat /\ tally[m].dropped \in Nat
        /\ Len(buf[m]) \in Nat
    BY BalanceType
  <2>6. Balance(m)' = Balance(m) /\ Balance(m) \in Nat BY <1>1, <2>4, <2>5 DEF Balance
  <2>7. tally[m].offered = Balance(m) + Cardinality(Waiting(m)) BY DEF Accounts
  <2> QED BY <2>2, <2>4, <2>6, <2>7
<1>3. CASE ~(m \in listeners /\ ~Excluded(m, kind))
  <2>1. Waiting(m)' = Waiting(m) BY <1>1, <1>3 DEF Waiting
  <2>2. tally'[m] = tally[m] BY <1>3 DEF StartSend
  <2> QED BY <1>1, <2>1, <2>2, OthersKeep
<1> QED BY <1>2, <1>3

LEMMA StreamKeepsAccounts ==
    ASSUME TypeInv, Accounts, NEW l \in Streams, LeaveStep(l) \/ StreamStep(l) \/ ClientStep(l)
    PROVE  Accounts'
<1> SUFFICES ASSUME NEW m \in Streams
             PROVE  tally'[m].offered = Balance(m)' + Cardinality(Waiting(m)')
  BY DEF Accounts
<1>1. Waiting(m)' = Waiting(m)
  BY DEF LeaveStep, LeaveCancelled, LeavePoisoned, StreamStep, AddListener, ReceiveEvent, SendFails,
         RemoveListener, ClientStep, OpenStream, CancelStream, SendAccepted, Waiting, Excluded
<1>2. CASE ReceiveEvent(l)
  <2>1. CASE m # l BY <1>1, <1>2, <2>1, OthersKeep DEF ReceiveEvent, TypeInv, TypeOK
  <2>2. CASE m = l
    <3>1. tally'[l] = [tally[l] EXCEPT !.taken = tally[l].taken + 1]
      BY <1>2 DEF ReceiveEvent, TypeInv, TypeOK
    <3>2. /\ tally'[l].offered = tally[l].offered
          /\ tally'[l].taken = tally[l].taken + 1 /\ tally'[l].dropped = tally[l].dropped
      BY <3>1, BalanceType DEF TallyType
    <3>3. Len(buf'[l]) = Len(buf[l]) - 1 BY <1>2 DEF ReceiveEvent, TypeInv, TypeOK
    <3>5. /\ tally[l].taken \in Nat /\ tally[l].dropped \in Nat /\ Len(buf[l]) \in Nat
      BY BalanceType
    <3>6. Balance(l)' = Balance(l) BY SMTT(30), <3>2, <3>3, <3>5 DEF Balance
    <3>7. tally[l].offered = Balance(l) + Cardinality(Waiting(l)) BY DEF Accounts
    <3> QED BY <1>1, <2>2, <3>2, <3>6, <3>7
  <2> QED BY <2>1, <2>2
<1>3. CASE ~ReceiveEvent(l)
  BY <1>1, <1>3, OthersKeep
  DEF LeaveStep, LeaveCancelled, LeavePoisoned, StreamStep, AddListener, SendFails,
      RemoveListener, ClientStep, OpenStream, CancelStream, SendAccepted
<1> QED BY <1>2, <1>3

\* Whatever pumps and streams do, an event offered to a listener is taken by its stream,
\* in its buffer, dropped because that was full, or about to be tried.
THEOREM EventsAreAccounted == Spec => []EveryEventAccounted
<1>1. Init => Accounts
  <2> SUFFICES ASSUME Init, NEW l \in Streams
               PROVE  tally[l].offered = Balance(l) + Cardinality(Waiting(l))
    BY DEF Accounts
  <2>1. Waiting(l) = {} BY DEF Init, IdleSender, Waiting
  <2> QED BY <2>1, FS_EmptySet DEF Init, NoTally, Balance
<1>2. TypeInv /\ Protected /\ Accounts /\ [Next]_vars => Accounts'
  <2> SUFFICES ASSUME TypeInv, Protected, Accounts, [Next]_vars PROVE Accounts'
    OBVIOUS
  <2>1. CASE UNCHANGED vars
    BY <2>1 DEF vars, streamVars, Accounts, Balance, Waiting, Excluded
  <2> QED BY <2>1, VisitKeepsAccounts, StartKeepsAccounts, StreamKeepsAccounts DEF Next
<1>3. Init => Protected
  BY DEF Init, Protected, IdleSender, Reading
<1>4. Accounts => EveryEventAccounted
  <2>1. \A l \in Streams : Waiting(l) = {s \in Senders : l \in snd[s].todo /\ ~Excluded(l, snd[s].kind)}
    BY DEF Waiting
  <2> QED BY <2>1 DEF Accounts, EveryEventAccounted, Balance
<1> QED BY <1>1, <1>2, <1>3, <1>4, TypeInvariant, ProtectedInductive, PTL DEF Spec

-----------------------------------------------------------------------------
(* Poisoning, with one pump s: but for the moment between a delivery and the reset that
   follows it, the counter of a listener is the number of events in a row that did not
   fit, and so is the value that is judged. *)

Counter(s, l) ==
    LET row == tally[l].row
    IN  /\ IF snd[s].st = "reset" /\ snd[s].at = l THEN row = 0 ELSE drops[l] = row
        /\ snd[s].st = "judge" /\ snd[s].at = l => snd[s].count = row
        /\ row >= MaxDrops /\ ~(snd[s].st = "judge" /\ snd[s].at = l) => l \in poisoned

OnePump(s) == \A l \in Streams : Counter(s, l)

\* Whom the step does not concern keeps its account.
LEMMA CounterKept ==
    ASSUME NEW s, NEW l, Counter(s, l),
           tally'[l].row = tally[l].row, drops'[l] = drops[l],
           l \in poisoned => l \in poisoned',
           ~(snd[s].st \in {"reset", "judge"} /\ snd[s].at = l),
           ~(snd'[s].st \in {"reset", "judge"} /\ snd'[s].at = l)
    PROVE  Counter(s, l)'
BY DEF Counter

LEMMA VisitKeepsCounter ==
    ASSUME TypeInv, NEW s \in Senders, OnePump(s), VisitStep(s)
    PROVE  OnePump(s)'
<1> USE DEF TypeInv, TypeOK, Visits
<1> SUFFICES ASSUME NEW m \in Streams PROVE Counter(s, m)'
  BY DEF OnePump
<1>0. Counter(s, m) BY DEF OnePump
<1>a. /\ tally[m] \in TallyType /\ tally[m].row \in Nat /\ drops[m] \in Nat
      /\ snd[s] \in SenderType /\ MaxDrops \in Nat \ {0}
  BY ListenersAssumption DEF TallyType, SenderType
<1>1. ASSUME NEW l \in Streams, SkipExcluded(s, l) PROVE Counter(s, m)'
  <2>1. snd[s].st = "visit" /\ snd'[s].st = "visit" /\ UNCHANGED <<tally, drops, poisoned>>
    BY <1>1, <1>a DEF SkipExcluded, streamVars, SenderType
  <2> QED BY <1>0, <2>1, CounterKept
<1>2. ASSUME NEW l \in Streams, Deliver(s, l) PROVE Counter(s, m)'
  <2>1. /\ snd[s].st = "visit" /\ snd'[s].st = "reset" /\ snd'[s].at = l
        /\ UNCHANGED <<drops, poisoned>>
    BY <1>2, <1>a DEF Deliver, streamVars, SenderType
  <2>2. tally' = [tally EXCEPT ![l] = [tally[l] EXCEPT !.row = 0]] BY <1>2 DEF Deliver
  <2>3. CASE m = l
    <3>1. tally'[m].row = 0 BY <1>a, <2>2, <2>3 DEF TallyType
    <3> QED BY <1>a, <2>1, <2>3, <3>1 DEF Counter
  <2>4. CASE m # l
    <3>1. tally'[m] = tally[m] BY <2>2, <2>4
    <3> QED BY <1>0, <2>1, <2>4, <3>1, CounterKept
  <2> QED BY <2>3, <2>4
<1>3. ASSUME NEW l \in Streams, DropEvent(s, l) PROVE Counter(s, m)'
  <2>1. /\ snd[s].st = "visit" /\ snd'[s].st = "judge" /\ snd'[s].at = l
        /\ snd'[s].count = drops[l] + 1 /\ poisoned' = poisoned
        /\ drops' = [drops EXCEPT ![l] = drops[l] + 1]
    BY <1>3, <1>a DEF DropEvent, streamVars, SenderType
  <2>2. tally' = [tally EXCEPT ![l] = [tally[l] EXCEPT !.dropped = tally[l].dropped + 1,
                                                       !.row = tally[l].row + 1]]
    BY <1>3 DEF DropEvent
  <2>3. CASE m = l
    <3>1. tally'[m].row = tally[m].row + 1
      <4>1. tally'[m] = [tally[m] EXCEPT !.dropped = tally[m].dropped + 1, !.row = tally[m].row + 1]
        BY <2>2, <2>3
      <4> HIDE DEF TypeInv
      <4> QED BY <1>a, <4>1 DEF TallyType
    <3>2. drops[m] = tally[m].row BY <1>0, <2>1 DEF Counter
    <3>3. drops'[m] = drops[m] + 1 BY <2>1, <2>3
    <3> QED BY <2>1, <2>3, <3>1, <3>2, <3>3 DEF Counter
  <2>4. CASE m # l
    <3>1. tally'[m] = tally[m] /\ drops'[m] = drops[m] BY <2>1, <2>2, <2>4
    <3> QED BY <1>0, <2>1, <2>4, <3>1, CounterKept
  <2> QED BY <2>3, <2>4
<1>4. CASE ResetDrops(s)
  <2>1. /\ snd[s].st = "reset" /\ snd'[s].st = "visit" /\ UNCHANGED <<tally, poisoned>>
        /\ drops' = [drops EXCEPT ![snd[s].at] = 0]
    BY <1>4, <1>a DEF ResetDrops, streamVars, SenderType
  <2>2. CASE m = snd[s].at BY <1>0, <2>1, <2>2 DEF Counter
  <2>3. CASE m # snd[s].at BY <1>0, <2>1, <2>3, CounterKept
  <2> QED BY <2>2, <2>3
<1>5. CASE JudgeDrop(s)
  <2>1. /\ snd[s].st = "judge" /\ snd'[s].st = "visit" /\ UNCHANGED <<tally, drops>>
        /\ poisoned' = IF snd[s].count >= MaxDrops THEN poisoned \cup {snd[s].at} ELSE poisoned
    BY <1>5, <1>a DEF JudgeDrop, streamVars, SenderType
  <2>2. CASE m = snd[s].at BY <1>0, <2>1, <2>2 DEF Counter
  <2>3. CASE m # snd[s].at BY <1>0, <2>1, <2>3, CounterKept
  <2> QED BY <2>2, <2>3
<1>6. CASE EndSend(s)
  <2>1. /\ snd[s].st = "visit" /\ snd'[s].st = "idle" /\ UNCHANGED <<tally, drops, poisoned>>
    BY <1>6 DEF EndSend, streamVars, IdleSender
  <2> QED BY <1>0, <2>1, CounterKept
<1> QED BY <1>1, <1>2, <1>3, <1>4, <1>5, <1>6 DEF VisitStep

LEMMA StartKeepsCounter ==
    ASSUME TypeInv, NEW s \in Senders, OnePump(s), NEW kind \in Kinds, StartSend(s, kind)
    PROVE  OnePump(s)'
<1> SUFFICES ASSUME NEW m \in Streams PROVE Counter(s, m)'
  BY DEF OnePump
<1>1. snd[s].st = "idle" /\ snd'[s].st = "visit" /\ UNCHANGED <<drops, poisoned>>
  BY DEF StartSend, Reading, IdleSender, TypeInv, TypeOK
<1>2. tally'[m].row = tally[m].row
  <2>1. tally[m] \in TallyType BY DEF TypeInv, TypeOK, TallyType
  <2>2. tally'[m] \in {tally[m], [tally[m] EXCEPT !.offered = tally[m].offered + 1]}
    BY DEF StartSend
  <2> QED BY <2>1, <2>2 DEF TallyType
<1> QED BY <1>1, <1>2, CounterKept DEF OnePump

LEMMA StreamKeepsCounter ==
    ASSUME TypeInv, NEW s, OnePump(s), NEW l \in Streams, LeaveStep(l) \/ StreamStep(l) \/ ClientStep(l)
    PROVE  OnePump(s)'
<1>1. UNCHANGED <<snd, drops, poisoned>>
  BY DEF LeaveStep, LeaveCancelled, LeavePoisoned, StreamStep, AddListener, ReceiveEvent, SendFails,
         RemoveListener, ClientStep, OpenStream, CancelStream, SendAccepted
<1>2. ASSUME NEW m \in Streams PROVE tally'[m].row = tally[m].row
  <2>1. CASE ReceiveEvent(l)
    <3>1. tally[m] \in TallyType BY DEF TypeInv, TypeOK, TallyType
    <3>2. tally'[m] \in {tally[m], [tally[m] EXCEPT !.taken = tally[m].taken + 1]}
      BY <2>1 DEF ReceiveEvent, TypeInv, TypeOK
    <3> QED BY <3>1, <3>2 DEF TallyType
  <2>2. CASE ~ReceiveEvent(l)
    BY <2>2 DEF LeaveStep, LeaveCancelled, LeavePoisoned, StreamStep, AddListener, SendFails,
                RemoveListener, ClientStep, OpenStream, CancelStream, SendAccepted
  <2> QED BY <2>1, <2>2
<1> QED BY <1>1, <1>2 DEF OnePump, Counter

LEMMA OnePumpInductive ==
    ASSUME NEW CONSTANT p, Senders = {p}
    PROVE  /\ Init => OnePump(p)
           /\ TypeInv /\ OnePump(p) /\ [Next]_vars => OnePump(p)'
<1>1. Init => OnePump(p)
  <2> SUFFICES ASSUME Init, NEW l \in Streams PROVE Counter(p, l)
    BY DEF OnePump
  <2>1. snd[p].st = "idle" /\ drops[l] = 0 /\ tally[l].row = 0
    BY DEF Init, IdleSender, NoTally
  <2> QED BY <2>1, ListenersAssumption DEF Counter
<1>2. TypeInv /\ OnePump(p) /\ [Next]_vars => OnePump(p)'
  <2> SUFFICES ASSUME TypeInv, OnePump(p), [Next]_vars PROVE OnePump(p)'
    OBVIOUS
  <2>1. CASE UNCHANGED vars BY <2>1 DEF vars, OnePump, Counter
  <2> QED BY <2>1, VisitKeepsCounter, StartKeepsCounter, StreamKeepsCounter DEF Next
<1> QED BY <1>1, <1>2

\* A session with one pump poisons a listener exactly when MaxDrops events in a row did not
\* fit: no delivery in between is overlooked, and no listener that is stuck is spared.
THEOREM PoisonIsExact ==
    ASSUME NEW CONSTANT p, Senders = {p}
    PROVE  Spec => PoisonsWhenStuck
<1>1. OnePump(p) => \A l \in Streams :
          tally[l].row >= MaxDrops /\ (\A s \in Senders : snd[s].at # l) => l \in poisoned
  BY DEF OnePump, Counter
<1>2. TypeInv /\ OnePump(p) /\ [Next]_vars =>
        [\A l \in poisoned' \ poisoned : tally[l].row >= MaxDrops]_vars
  <2> SUFFICES ASSUME TypeInv, OnePump(p), Next, NEW l \in poisoned' \ poisoned
               PROVE  tally[l].row >= MaxDrops
    BY DEF vars
  <2>1. JudgeDrop(p)
    BY DEF Next, VisitStep, StartSend, LeaveStep, LeaveCancelled, LeavePoisoned, StreamStep,
           AddListener, ReceiveEvent, SendFails, RemoveListener, ClientStep, OpenStream,
           CancelStream, SendAccepted, SkipExcluded, Deliver, DropEvent, ResetDrops, EndSend
  <2>2. l = snd[p].at /\ snd[p].st = "judge" /\ snd[p].count >= MaxDrops BY <2>1 DEF JudgeDrop
  <2>3. l \in Streams BY <2>2 DEF TypeInv, SenderInv
  <2> QED BY <2>2, <2>3 DEF OnePump, Counter
<1>0. /\ Init => OnePump(p)
      /\ TypeInv /\ OnePump(p) /\ [Next]_vars => OnePump(p)'
  BY OnePumpInductive
<1>3. Spec => [](\A l \in Streams :
          tally[l].row >= MaxDrops /\ (\A s \in Senders : snd[s].at # l) => l \in poisoned)
  BY <1>0, <1>1, TypeInvariant, PTL DEF Spec
<1>4. Spec => [][\A l \in poisoned' \ poisoned : tally[l].row >= MaxDrops]_vars
  BY <1>0, <1>2, TypeInvariant, PTL DEF Spec
<1> QED BY <1>3, <1>4 DEF PoisonsWhenStuck
=============================================================================
