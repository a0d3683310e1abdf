-------------------------- MODULE MessageStoreProofs --------------------------
(***************************************************************************)
(* Invariants of MessageStore for any workers, ids and events.              *)
(***************************************************************************)
EXTENDS MessageStore, TLAPS

Jobs == [calls : Seq(Calls), tries : 0 .. Attempts - 1]

LEMMA IdleIsAJob == Idle \in Jobs
BY StoreAssumption DEF Idle, Jobs

\* What the handlers put into their sequences are calls.
LEMMA CallsAreTyped ==
    /\ \A id \in Ids, c \in Contents, s \in Statuses : Save(id, c, s) \in Calls
    /\ \A id \in Ids, new, old \in Rows : WriteBack(id, new, old) \in Calls
    /\ \A op \in {"delete", "fetch", "load"}, id \in Ids, n \in Statuses : On(op, id, n) \in Calls
    /\ \A n \in Nat : On("clear", None, n) \in Calls
BY DEF Save, WriteBack, On, Calls, Rows, NoRow, Contents, Statuses

LEMMA CallsInARow ==
    ASSUME NEW c \in Calls
    PROVE  /\ <<c>> \in Seq(Calls)
           /\ \A d \in Calls : <<c, d>> \in Seq(Calls)
           /\ \A rest \in Seq(Calls) : <<c>> \o rest \in Seq(Calls)
<1>1. <<c>> \in Seq(Calls) OBVIOUS
<1>2. \A d \in Calls : <<c, d>> \in Seq(Calls) OBVIOUS
<1>3. \A rest \in Seq(Calls) : <<c>> \o rest \in Seq(Calls) BY <1>1
<1> QED BY <1>1, <1>2, <1>3

\* A worker that takes up a handler.
LEMMA StartKeepsType ==
    ASSUME TypeOK, NEW w \in Workers, NEW calls \in Seq(Calls), Start(w, calls)
    PROVE  TypeOK'
<1>1. [calls |-> calls, tries |-> 0] \in Jobs BY StoreAssumption DEF Jobs
<1> QED BY <1>1 DEF TypeOK, Start, Jobs

\* The first call of a worker, and what is left after it.
LEMMA HeadIsACall ==
    ASSUME TypeOK, NEW w \in Workers, work[w].calls # <<>>
    PROVE  /\ Head(work[w].calls) \in Calls
           /\ Tail(work[w].calls) \in Seq(Calls)
           /\ Rest(w) \in Jobs
<1>1. work[w].calls \in Seq(Calls) BY DEF TypeOK
<1>2. Head(work[w].calls) \in Calls /\ Tail(work[w].calls) \in Seq(Calls) BY <1>1
<1> QED BY <1>2, StoreAssumption DEF Rest, Jobs

LEMMA EventKeepsType ==
    ASSUME TypeOK, NEW w \in Workers, Event(w)
    PROVE  TypeOK'
<1>1. CASE MessageEvent(w)
  <2>1. PICK id \in Ids :
          \/ Start(w, <<Save(id, "stub", EventStatus(id))>>)
          \/ Start(w, <<Save(id, "sent", EventStatus(id))>>)
          \/ /\ Target[id] # None
             /\ Start(w, <<Save(id, "stub", EventStatus(id)), On("delete", Target[id], 0)>>)
    BY <1>1 DEF MessageEvent
  <2>2. /\ Save(id, "stub", EventStatus(id)) \in Calls
        /\ Save(id, "sent", EventStatus(id)) \in Calls
    BY CallsAreTyped DEF EventStatus, Contents, Statuses
  <2>3. Target[id] # None => On("delete", Target[id], 0) \in Calls
    BY CallsAreTyped, StoreAssumption DEF Statuses
  <2>4. /\ <<Save(id, "stub", EventStatus(id))>> \in Seq(Calls)
        /\ <<Save(id, "sent", EventStatus(id))>> \in Seq(Calls)
        /\ Target[id] # None =>
             <<Save(id, "stub", EventStatus(id)), On("delete", Target[id], 0)>> \in Seq(Calls)
    BY <2>2, <2>3, CallsInARow
  <2> QED BY <2>1, <2>4, StartKeepsType
<1>2. CASE ReceiptEvent(w)
  <2>1. PICK ids \in Batches, s \in ReceiptStatuses :
          Start(w, [i \in DOMAIN ids |-> On("fetch", ids[i], s)])
    BY <1>2 DEF ReceiptEvent
  <2>2. ids \in Seq(Ids) BY StoreAssumption
  <2>3. \A i \in DOMAIN ids : On("fetch", ids[i], s) \in Calls
    BY <2>2, CallsAreTyped DEF ReceiptStatuses, Statuses
  <2>4. [i \in DOMAIN ids |-> On("fetch", ids[i], s)] \in Seq(Calls) BY <2>2, <2>3
  <2> QED BY <2>1, <2>4, StartKeepsType
<1>3. CASE HistoryChunk(w)
  <2> DEFINE saved(id) == IF Target[id] = None THEN "sent" ELSE "stub"
  <2>1. PICK ids \in Batches, s \in HistoryStatuses :
          Start(w, [i \in DOMAIN ids |-> Save(ids[i], saved(ids[i]), s)])
    BY <1>3 DEF HistoryChunk
  <2>2. ids \in Seq(Ids) BY StoreAssumption
  <2>3. \A i \in DOMAIN ids : ids[i] \in Ids /\ saved(ids[i]) \in Contents
    BY <2>2 DEF Contents
  <2>4. \A i \in DOMAIN ids : Save(ids[i], saved(ids[i]), s) \in Calls
    BY <2>3, CallsAreTyped, StoreAssumption
  <2>5. [i \in DOMAIN ids |-> Save(ids[i], saved(ids[i]), s)] \in Seq(Calls)
    <3> HIDE DEF saved
    <3> QED BY <2>2, <2>4
  <2> QED BY <2>1, <2>5, StartKeepsType
<1>4. CASE DeleteChatEvent(w)
  <2>1. PICK t \in Times : Start(w, <<On("clear", None, t)>>) BY <1>4 DEF DeleteChatEvent
  <2>2. <<On("clear", None, t)>> \in Seq(Calls)
    BY CallsAreTyped, CallsInARow, StoreAssumption
  <2> QED BY <2>1, <2>2, StartKeepsType
<1>5. CASE PersistRefreshedPath(w)
  <2>1. PICK id \in Ids : Start(w, <<On("load", id, 0)>>) BY <1>5 DEF PersistRefreshedPath
  <2>2. <<On("load", id, 0)>> \in Seq(Calls) BY CallsAreTyped, CallsInARow DEF Statuses
  <2> QED BY <2>1, <2>2, StartKeepsType
<1> QED BY <1>1, <1>2, <1>3, <1>4, <1>5 DEF Event

LEMMA StepKeepsType ==
    ASSUME TypeOK, NEW w \in Workers, Step(w)
    PROVE  TypeOK'
<1>0. work[w].calls # <<>> BY DEF Step, Calling, Upsert, DeleteMessage, DeleteChatMessages,
                                FetchFinds, FetchMisses, GiveUp, LoadFinds, CallFails
<1> DEFINE c == Head(work[w].calls)
<1>1. c \in Calls /\ Tail(work[w].calls) \in Seq(Calls) /\ Rest(w) \in Jobs
  BY <1>0, HeadIsACall
<1>2. c.op # "clear" => c.id \in Ids /\ c.row \in Rows /\ c.n \in Statuses BY <1>1 DEF Calls
<1> HIDE DEF c
<1>3. ASSUME work' = [work EXCEPT ![w] = Rest(w)]
      PROVE  work' \in [Workers -> Jobs]
  BY <1>1, <1>3 DEF TypeOK, Jobs
<1>4. ASSUME NEW b \in Calls, UNCHANGED <<row, kept>>,
             work' = [work EXCEPT ![w] = [calls |-> <<b>> \o Tail(work[w].calls), tries |-> 0]]
      PROVE  TypeOK'
  <2>1. <<b>> \o Tail(work[w].calls) \in Seq(Calls) BY <1>1, CallsInARow
  <2>2. [calls |-> <<b>> \o Tail(work[w].calls), tries |-> 0] \in Jobs
    BY <2>1, StoreAssumption DEF Jobs
  <2> QED BY <1>4, <2>2 DEF TypeOK, Jobs
<1>5. CASE Upsert(w)
  <2>1. c.id \in Ids /\ c.row \in Rows BY <1>2, <1>5 DEF Upsert, Calling, c
  <2>2. row' = [row EXCEPT ![c.id] = Upserted(row[c.id], c.row)] BY <1>5 DEF Upsert, c
  <2>3. kept' = IF Real(c.row) THEN kept \cup {c.id} ELSE kept BY <1>5 DEF Upsert, c
  <2>4. row' \in [Ids -> Rows] BY <2>1, <2>2 DEF TypeOK, Upserted
  <2>5. kept' \subseteq Ids BY <2>1, <2>3 DEF TypeOK
  <2> QED BY <1>3, <1>5, <2>4, <2>5 DEF Upsert, TypeOK, Jobs
<1>6. CASE DeleteMessage(w)
  <2>1. NoRow \in Rows BY DEF NoRow, Rows, Contents, Statuses
  <2>2. row' \in [Ids -> Rows] /\ kept' \subseteq Ids
    BY <1>6, <2>1 DEF DeleteMessage, TypeOK
  <2> QED BY <1>3, <1>6, <2>2 DEF DeleteMessage, TypeOK, Jobs
<1>7. CASE DeleteChatMessages(w)
  <2>1. row' \in [Ids -> Rows]
    BY <1>7 DEF DeleteChatMessages, TypeOK, Rows, NoRow, Contents, Statuses
  <2>2. kept' \subseteq Ids BY <1>7 DEF DeleteChatMessages, TypeOK
  <2> QED BY <1>3, <1>7, <2>1, <2>2 DEF DeleteChatMessages, TypeOK, Jobs
<1>8. CASE FetchFinds(w)
  <2>1. c.id \in Ids /\ c.op = "fetch" BY <1>2, <1>8 DEF FetchFinds, Calling, c
  <2> DEFINE new == [content |-> row[c.id].content, status |-> c.n]
             b == WriteBack(c.id, new, row[c.id])
  <2>2. CASE row[c.id].status >= c.n
    <3>1. work' = [work EXCEPT ![w] = Rest(w)] BY <1>8, <2>2 DEF FetchFinds, Rest, c
    <3> QED BY <1>3, <1>8, <3>1 DEF FetchFinds, TypeOK, Jobs
  <2>3. CASE ~(row[c.id].status >= c.n)
    <3>1. work' = [work EXCEPT ![w] = [calls |-> <<b>> \o Tail(work[w].calls), tries |-> 0]]
      BY <1>8, <2>3 DEF FetchFinds, c
    <3>2. row[c.id] \in Rows /\ new \in Rows BY <1>2, <2>1 DEF TypeOK, Rows
    <3>3. b \in Calls BY <2>1, <3>2, CallsAreTyped
    <3> HIDE DEF b
    <3> QED BY <1>4, <1>8, <3>1, <3>3 DEF FetchFinds
  <2> QED BY <2>2, <2>3
<1>9. CASE FetchMisses(w)
  <2> DEFINE j == [work[w] EXCEPT !.tries = work[w].tries + 1]
  <2>1. work[w] \in Jobs /\ work[w].tries + 1 \in 0 .. Attempts - 1
    BY <1>9, StoreAssumption DEF FetchMisses, TypeOK, Jobs
  <2>2. j \in Jobs BY <2>1 DEF Jobs
  <2>3. work' = [work EXCEPT ![w] = j] BY <1>9 DEF FetchMisses
  <2> QED BY <1>9, <2>2, <2>3 DEF FetchMisses, TypeOK, Jobs
<1>10. CASE GiveUp(w) BY <1>3, <1>10 DEF GiveUp, TypeOK, Jobs
<1>11. CASE LoadFinds(w)
  <2>1. c.id \in Ids BY <1>2, <1>11 DEF LoadFinds, Calling, c
  <2> DEFINE new == IF Real(row[c.id]) THEN [row[c.id] EXCEPT !.content = "refreshed"]
                                       ELSE row[c.id]
             b == WriteBack(c.id, new, row[c.id])
  <2>2. row[c.id] \in Rows BY <2>1 DEF TypeOK
  <2>3. new \in Rows BY <2>2 DEF Rows, Contents
  <2>4. b \in Calls BY <2>1, <2>2, <2>3, CallsAreTyped
  <2>5. work' = [work EXCEPT ![w] = [calls |-> <<b>> \o Tail(work[w].calls), tries |-> 0]]
    BY <1>11 DEF LoadFinds, c
  <2> HIDE DEF b
  <2> QED BY <1>4, <1>11, <2>4, <2>5 DEF LoadFinds
<1>12. CASE CallFails(w) BY <1>3, <1>12 DEF CallFails, TypeOK, Jobs
<1> QED BY <1>5, <1>6, <1>7, <1>8, <1>9, <1>10, <1>11, <1>12 DEF Step

\* MessageStore is type correct, and every call a goroutine has left is one of the
\* table's, about a message or about the chat.
THEOREM TypeCorrect == Spec => []TypeOK
<1>1. Init => TypeOK
  BY IdleIsAJob DEF Init, TypeOK, Jobs, Rows, NoRow, Contents, Statuses
<1>2. TypeOK /\ [Next]_vars => TypeOK'
  <2> SUFFICES ASSUME TypeOK, [Next]_vars PROVE TypeOK' OBVIOUS
  <2>1. CASE Crash BY <2>1, IdleIsAJob DEF Crash, TypeOK, Jobs
  <2>2. ASSUME NEW w \in Workers, Event(w) PROVE TypeOK' BY <2>2, EventKeepsType
  <2>3. ASSUME NEW w \in Workers, Step(w) PROVE TypeOK' BY <2>3, StepKeepsType
  <2>4. CASE UNCHANGED vars BY <2>4 DEF vars, TypeOK
  <2> QED BY <2>1, <2>2, <2>3, <2>4 DEF Next
<1> QED BY <1>1, <1>2, PTL DEF Spec

-----------------------------------------------------------------------------
(* The content of a message *)

\* A goroutine that takes up a handler touches no row.
LEMMA EventsTouchNoRow ==
    ASSUME NEW w \in Workers, Event(w)
    PROVE  UNCHANGED <<row, kept>>
BY DEF Event, MessageEvent, ReceiptEvent, HistoryChunk, DeleteChatEvent,
       PersistRefreshedPath, Start

\* Inductive with the types: a write that is not real leaves a real row as it is, and
\* what deletes a row takes its id out of "kept".
LEMMA StepKeepsContent ==
    ASSUME TypeOK, RealContentStays, NEW w \in Workers, Step(w)
    PROVE  RealContentStays'
<1>1. CASE Upsert(w)
  <2> DEFINE c == Head(work[w].calls)
  <2>1. work[w].calls # <<>> /\ c.op = "upsert" BY <1>1 DEF Upsert, Calling
  <2>2. c.id \in Ids BY <2>1, HeadIsACall DEF Calls
  <2>3. /\ row' = [row EXCEPT ![c.id] = Upserted(row[c.id], c.row)]
        /\ kept' = IF Real(c.row) THEN kept \cup {c.id} ELSE kept
    BY <1>1 DEF Upsert
  <2> HIDE DEF c
  <2>4. ASSUME NEW id \in kept' PROVE Real(row'[id])
    <3>1. CASE id = c.id
      <4>1. row'[id] = Upserted(row[id], c.row) BY <2>2, <2>3, <3>1 DEF TypeOK
      <4>2. Real(c.row) \/ Real(row[id]) BY <2>3, <2>4 DEF RealContentStays
      <4> QED BY <4>1, <4>2 DEF Upserted
    <3>2. CASE id # c.id
      <4>1. id \in kept /\ row'[id] = row[id] BY <2>3, <2>4, <3>2 DEF TypeOK
      <4> QED BY <4>1 DEF RealContentStays
    <3> QED BY <3>1, <3>2
  <2> QED BY <2>4 DEF RealContentStays
<1>2. CASE DeleteMessage(w) BY <1>2 DEF DeleteMessage, RealContentStays, TypeOK
<1>3. CASE DeleteChatMessages(w) BY <1>3 DEF DeleteChatMessages, RealContentStays, TypeOK
<1>4. CASE FetchFinds(w) \/ FetchMisses(w) \/ GiveUp(w) \/ LoadFinds(w) \/ CallFails(w)
  <2>1. UNCHANGED <<row, kept>>
    BY <1>4 DEF FetchFinds, FetchMisses, GiveUp, LoadFinds, CallFails
  <2> QED BY <2>1 DEF RealContentStays
<1> QED BY <1>1, <1>2, <1>3, <1>4 DEF Step

\* No event, receipt, refreshed path, failure or crash hides the stored content of a
\* message, in any interleaving of any number of goroutines: only deleting it does.
THEOREM ContentStays == Spec => []RealContentStays
<1>1. Init => RealContentStays BY DEF Init, RealContentStays
<1>2. TypeOK /\ RealContentStays /\ [Next]_vars => RealContentStays'
  <2> SUFFICES ASSUME TypeOK, RealContentStays, [Next]_vars PROVE RealContentStays' OBVIOUS
  <2>1. CASE Crash BY <2>1 DEF Crash, RealContentStays
  <2>2. ASSUME NEW w \in Workers, Event(w) PROVE RealContentStays'
    BY <2>2, EventsTouchNoRow DEF RealContentStays
  <2>3. ASSUME NEW w \in Workers, Step(w) PROVE RealContentStays' BY <2>3, StepKeepsContent
  <2>4. CASE UNCHANGED vars BY <2>4 DEF vars, RealContentStays
  <2> QED BY <2>1, <2>2, <2>3, <2>4 DEF Next
<1> QED BY <1>1, <1>2, TypeCorrect, PTL DEF Spec

-----------------------------------------------------------------------------
(* What is written back *)

\* A call that writes back what it has read of a row raises the status, and keeps the
\* content but for the path of its media; other calls have read nothing.
Keeping(c) ==
    c.was # NoRow =>
        /\ c.row.status >= c.was.status
        /\ c.row.content \in {c.was.content} \cup (IF Real(c.was) THEN {"refreshed"} ELSE {})

KeepingCalls == {c \in Calls : Keeping(c)}

BacksKeep == \A w \in Workers : work[w].calls \in Seq(KeepingCalls)

LEMMA CallsAreKeeping ==
    /\ \A id \in Ids, c \in Contents, s \in Statuses : Save(id, c, s) \in KeepingCalls
    /\ \A op \in {"delete", "fetch", "load"}, id \in Ids, n \in Statuses :
         On(op, id, n) \in KeepingCalls
    /\ \A n \in Nat : On("clear", None, n) \in KeepingCalls
BY CallsAreTyped DEF KeepingCalls, Keeping, Save, On

LEMMA KeepingInARow ==
    ASSUME NEW c \in KeepingCalls
    PROVE  /\ <<c>> \in Seq(KeepingCalls)
           /\ \A d \in KeepingCalls : <<c, d>> \in Seq(KeepingCalls)
           /\ \A rest \in Seq(KeepingCalls) : <<c>> \o rest \in Seq(KeepingCalls)
<1>1. <<c>> \in Seq(KeepingCalls) OBVIOUS
<1>2. \A d \in KeepingCalls : <<c, d>> \in Seq(KeepingCalls) OBVIOUS
<1>3. \A rest \in Seq(KeepingCalls) : <<c>> \o rest \in Seq(KeepingCalls) BY <1>1
<1> QED BY <1>1, <1>2, <1>3

LEMMA EventKeepsBacks ==
    ASSUME TypeOK, BacksKeep, NEW w \in Workers, Event(w)
    PROVE  BacksKeep'
<1>0. ASSUME NEW calls \in Seq(KeepingCalls), Start(w, calls) PROVE BacksKeep'
  BY <1>0 DEF Start, BacksKeep, TypeOK
<1>1. CASE MessageEvent(w)
  <2>1. PICK id \in Ids :
          \/ Start(w, <<Save(id, "stub", EventStatus(id))>>)
          \/ Start(w, <<Save(id, "sent", EventStatus(id))>>)
          \/ /\ Target[id] # None
             /\ Start(w, <<Save(id, "stub", EventStatus(id)), On("delete", Target[id], 0)>>)
    BY <1>1 DEF MessageEvent
  <2>2. /\ Save(id, "stub", EventStatus(id)) \in KeepingCalls
        /\ Save(id, "sent", EventStatus(id)) \in KeepingCalls
    BY CallsAreKeeping DEF EventStatus, Contents, Statuses
  <2>3. Target[id] # None => On("delete", Target[id], 0) \in KeepingCalls
    BY CallsAreKeeping, StoreAssumption DEF Statuses
  <2>4. /\ <<Save(id, "stub", EventStatus(id))>> \in Seq(KeepingCalls)
        /\ <<Save(id, "sent", EventStatus(id))>> \in Seq(KeepingCalls)
        /\ Target[id] # None =>
             <<Save(id, "stub", EventStatus(id)), On("delete", Target[id], 0)>> \in Seq(KeepingCalls)
    BY <2>2, <2>3, KeepingInARow
  <2> QED BY <1>0, <2>1, <2>4
<1>2. CASE ReceiptEvent(w)
  <2>1. PICK ids \in Batches, s \in ReceiptStatuses :
          Start(w, [i \in DOMAIN ids |-> On("fetch", ids[i], s)])
    BY <1>2 DEF ReceiptEvent
  <2>2. ids \in Seq(Ids) BY StoreAssumption
  <2>3. \A i \in DOMAIN ids : On("fetch", ids[i], s) \in KeepingCalls
    BY <2>2, CallsAreKeeping DEF ReceiptStatuses, Statuses
  <2>4. [i \in DOMAIN ids |-> On("fetch", ids[i], s)] \in Seq(KeepingCalls) BY <2>2, <2>3
  <2> QED BY <1>0, <2>1, <2>4
<1>3. CASE HistoryChunk(w)
  <2> DEFINE saved(id) == IF Target[id] = None THEN "sent" ELSE "stub"
  <2>1. PICK ids \in Batches, s \in HistoryStatuses :
          Start(w, [i \in DOMAIN ids |-> Save(ids[i], saved(ids[i]), s)])
    BY <1>3 DEF HistoryChunk
  <2>2. ids \in Seq(Ids) BY StoreAssumption
  <2>3. \A i \in DOMAIN ids : ids[i] \in Ids /\ saved(ids[i]) \in Contents
    BY <2>2 DEF Contents
  <2>4. \A i \in DOMAIN ids : Save(ids[i], saved(ids[i]), s) \in KeepingCalls
    BY <2>3, CallsAreKeeping, StoreAssumption
  <2>5. [i \in DOMAIN ids |-> Save(ids[i], saved(ids[i]), s)] \in Seq(KeepingCalls)
    <3> HIDE DEF saved
    <3> QED BY <2>2, <2>4
  <2> QED BY <1>0, <2>1, <2>5
<1>4. CASE DeleteChatEvent(w)
  <2>1. PICK t \in Times : Start(w, <<On("clear", None, t)>>) BY <1>4 DEF DeleteChatEvent
  <2>2. <<On("clear", None, t)>> \in Seq(KeepingCalls)
    BY CallsAreKeeping, KeepingInARow, StoreAssumption
  <2> QED BY <1>0, <2>1, <2>2
<1>5. CASE PersistRefreshedPath(w)
  <2>1. PICK id \in Ids : Start(w, <<On("load", id, 0)>>) BY <1>5 DEF PersistRefreshedPath
  <2>2. <<On("load", id, 0)>> \in Seq(KeepingCalls)
    BY CallsAreKeeping, KeepingInARow DEF Statuses
  <2> QED BY <1>0, <2>1, <2>2
<1> QED BY <1>1, <1>2, <1>3, <1>4, <1>5 DEF Event

LEMMA StepKeepsBacks ==
    ASSUME TypeOK, BacksKeep, NEW w \in Workers, Step(w)
    PROVE  BacksKeep'
<1>0. work[w].calls # <<>> BY DEF Step, Calling, Upsert, DeleteMessage, DeleteChatMessages,
                                FetchFinds, FetchMisses, GiveUp, LoadFinds, CallFails
<1> DEFINE c == Head(work[w].calls)
           rest == Tail(work[w].calls)
<1>1. c \in Calls /\ rest \in Seq(KeepingCalls)
  <2>1. work[w].calls \in Seq(KeepingCalls) BY DEF BacksKeep
  <2> QED BY <1>0, <2>1, HeadIsACall
<1>2. c.op # "clear" => c.id \in Ids /\ c.n \in Statuses BY <1>1 DEF Calls
<1> HIDE DEF c, rest
<1>3. ASSUME NEW calls \in Seq(KeepingCalls), NEW n,
             work' = [work EXCEPT ![w] = [calls |-> calls, tries |-> n]]
      PROVE  BacksKeep'
  BY <1>3 DEF BacksKeep, TypeOK
<1>4. CASE \/ Upsert(w) \/ DeleteMessage(w) \/ DeleteChatMessages(w) \/ GiveUp(w) \/ CallFails(w)
  BY <1>1, <1>3, <1>4 DEF Upsert, DeleteMessage, DeleteChatMessages, GiveUp, CallFails, Rest, rest
<1>5. CASE FetchFinds(w)
  <2> DEFINE old == row[c.id]
             new == [content |-> old.content, status |-> c.n]
             b == WriteBack(c.id, new, old)
  <2>1. c.id \in Ids /\ c.n \in Statuses BY <1>2, <1>5 DEF FetchFinds, Calling, c
  <2>2. old \in Rows /\ new \in Rows BY <2>1 DEF TypeOK, Rows
  <2>3. work' = [work EXCEPT ![w] = [calls |-> IF old.status >= c.n THEN rest ELSE <<b>> \o rest,
                                     tries |-> 0]]
    BY <1>5 DEF FetchFinds, c, rest
  <2>4. CASE old.status >= c.n BY <1>1, <1>3, <2>3, <2>4
  <2>5. CASE ~(old.status >= c.n)
    <3>1. new.status >= old.status /\ new.content = old.content
      BY <2>1, <2>2, <2>5 DEF Rows, Statuses
    <3>2. b \in Calls /\ b.row = new /\ b.was = old
      BY <2>1, <2>2, CallsAreTyped DEF WriteBack
    <3> HIDE DEF b, new, old
    <3>3. b \in KeepingCalls BY <3>1, <3>2 DEF KeepingCalls, Keeping
    <3>4. <<b>> \o rest \in Seq(KeepingCalls) BY <1>1, <3>3, KeepingInARow
    <3> QED BY <1>3, <2>3, <2>5, <3>4
  <2> QED BY <2>4, <2>5
<1>6. CASE FetchMisses(w)
  <2>1. work' = [work EXCEPT ![w] = [work[w] EXCEPT !.tries = work[w].tries + 1]]
    BY <1>6 DEF FetchMisses
  <2>2. [work[w] EXCEPT !.tries = work[w].tries + 1].calls = work[w].calls
    BY DEF TypeOK
  <2> QED BY <2>1, <2>2 DEF BacksKeep, TypeOK
<1>7. CASE LoadFinds(w)
  <2> DEFINE old == row[c.id]
             new == IF Real(old) THEN [old EXCEPT !.content = "refreshed"] ELSE old
             b == WriteBack(c.id, new, old)
  <2>1. c.id \in Ids BY <1>2, <1>7 DEF LoadFinds, Calling, c
  <2>2. old \in Rows BY <2>1 DEF TypeOK
  <2>3. new \in Rows BY <2>2 DEF Rows, Contents
  <2>4. work' = [work EXCEPT ![w] = [calls |-> <<b>> \o rest, tries |-> 0]]
    BY <1>7 DEF LoadFinds, c, rest
  <2>5. /\ new.status >= old.status
        /\ new.content \in {old.content} \cup (IF Real(old) THEN {"refreshed"} ELSE {})
    BY <2>2 DEF Rows, Statuses
  <2>6. b \in Calls /\ b.row = new /\ b.was = old
    BY <2>1, <2>2, <2>3, CallsAreTyped DEF WriteBack
  <2> HIDE DEF b, new, old
  <2>7. b \in KeepingCalls BY <2>5, <2>6 DEF KeepingCalls, Keeping
  <2>8. <<b>> \o rest \in Seq(KeepingCalls) BY <1>1, <2>7, KeepingInARow
  <2> QED BY <1>3, <2>4, <2>8
<1> QED BY <1>4, <1>5, <1>6, <1>7 DEF Step

\* A receipt, or a refreshed media path, that writes back a row nobody has touched since it
\* read it, lowers no status and loses no content, however many receipts, messages and
\* retries there are; a row that was touched is overwritten with what was read.
THEOREM WriteBacksKeep == Spec => CurrentWriteBackKeeps
<1>0. Idle.calls \in Seq(KeepingCalls)
  <2>1. <<>> \in Seq(KeepingCalls) OBVIOUS
  <2> QED BY <2>1 DEF Idle
<1>1. Init => BacksKeep BY <1>0 DEF Init, BacksKeep
<1>2. TypeOK /\ BacksKeep /\ [Next]_vars => BacksKeep'
  <2> SUFFICES ASSUME TypeOK, BacksKeep, [Next]_vars PROVE BacksKeep' OBVIOUS
  <2>1. CASE Crash BY <1>0, <2>1 DEF Crash, BacksKeep
  <2>2. ASSUME NEW w \in Workers, Event(w) PROVE BacksKeep' BY <2>2, EventKeepsBacks
  <2>3. ASSUME NEW w \in Workers, Step(w) PROVE BacksKeep' BY <2>3, StepKeepsBacks
  <2>4. CASE UNCHANGED vars BY <2>4 DEF vars, BacksKeep
  <2> QED BY <2>1, <2>2, <2>3, <2>4 DEF Next
<1>3. TypeOK /\ BacksKeep /\ [Next]_vars =>
        [\A w \in Workers :
           Upsert(w) =>
             LET c == Head(work[w].calls)
             IN  (c.was # NoRow /\ c.was = row[c.id]) =>
                   /\ row'[c.id].status >= row[c.id].status
                   /\ row'[c.id].content \in
                        {row[c.id].content} \cup (IF Real(row[c.id]) THEN {"refreshed"} ELSE {})]_vars
  <2> SUFFICES ASSUME TypeOK, BacksKeep, NEW w \in Workers, Upsert(w),
                      LET c == Head(work[w].calls) IN c.was # NoRow /\ c.was = row[c.id]
               PROVE  LET c == Head(work[w].calls)
                      IN  /\ row'[c.id].status >= row[c.id].status
                          /\ row'[c.id].content \in
                               {row[c.id].content} \cup (IF Real(row[c.id]) THEN {"refreshed"} ELSE {})
    OBVIOUS
  <2> DEFINE c == Head(work[w].calls)
  <2>1. c \in KeepingCalls
    <3>1. work[w].calls \in Seq(KeepingCalls) /\ work[w].calls # <<>>
      BY DEF BacksKeep, Upsert, Calling
    <3> QED BY <3>1
  <2>2. c.op = "upsert" BY DEF Upsert, Calling
  <2>3. c.id \in Ids BY <2>1, <2>2 DEF KeepingCalls, Calls
  <2>4. row' = [row EXCEPT ![c.id] = Upserted(row[c.id], c.row)] BY DEF Upsert
  <2>5. c.was # NoRow /\ c.was = row[c.id] OBVIOUS
  <2> HIDE DEF c
  <2>6. row'[c.id] = row[c.id] \/ row'[c.id] = c.row
    BY <2>3, <2>4 DEF TypeOK, Upserted
  <2>7. row[c.id].status \in Nat
    <3>1. row[c.id] \in Rows BY <2>3 DEF TypeOK
    <3> QED BY <3>1 DEF Rows, Statuses
  <2>8. /\ c.row.status >= c.was.status
        /\ c.row.content \in {c.was.content} \cup (IF Real(c.was) THEN {"refreshed"} ELSE {})
    BY <2>1, <2>5 DEF KeepingCalls, Keeping
  <2>9. /\ row'[c.id].status >= row[c.id].status
        /\ row'[c.id].content \in
             {row[c.id].content} \cup (IF Real(row[c.id]) THEN {"refreshed"} ELSE {})
    BY <2>5, <2>6, <2>7, <2>8
  <2> QED BY <2>9 DEF c
<1> QED BY <1>1, <1>2, <1>3, TypeCorrect, PTL DEF Spec, CurrentWriteBackKeeps
=============================================================================
