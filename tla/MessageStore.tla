---------------------------- MODULE MessageStore ----------------------------
(***************************************************************************)
(* The table of messages and everybody who writes it: the goroutines that   *)
(* StorageEventHandler.handleEvent starts for messages, receipts, history   *)
(* and deleted chats (gows/storage_event_handler.go), and the download that *)
(* got a fresh media path from the phone (gows/media.go).                   *)
(*                                                                          *)
(* A worker is one such goroutine.  A handler is the sequence of the calls   *)
(* it makes to the table; each call is one SQL statement, so other workers  *)
(* run between any two.  The calls a handler makes to other tables and the  *)
(* events whose JID is ignored do not touch this one.                       *)
(***************************************************************************)
EXTENDS Naturals, Sequences, FiniteSets

CONSTANTS Workers,         \* goroutines
          Ids,             \* message ids of one chat
          Mine,            \* ids of messages sent by the account
          Target,          \* the message that a REVOKE message names, else None
          None,
          TimeOf,          \* Info.Timestamp of a message
          Times,           \* timestamps of DeleteChat events
          Batches,         \* sequences of ids a receipt or a history chunk names
          HistoryStatuses, \* statuses that history reports
          Attempts         \* retry.Attempts of GetMessageWithRetries

Statuses == 0 .. 5
ReceiptStatuses == 3 .. 5  \* StatusDeliveryAck, StatusRead, StatusPlayed

ASSUME StoreAssumption ==
    /\ None \notin Ids
    /\ Mine \subseteq Ids
    /\ Target \in [Ids -> Ids \cup {None}]
    /\ TimeOf \in [Ids -> Nat]
    /\ Times \subseteq Nat
    /\ Batches \subseteq Seq(Ids)
    /\ HistoryStatuses \subseteq Statuses
    /\ Attempts \in Nat \ {0}

VARIABLES row,  \* gows_messages
          work, \* the workers: the calls left to make, the attempts made at the first
          kept  \* history: ids whose real content was written and not deleted since

vars == <<row, work, kept>>

\* What a row holds: a "stub" has is_real = false (a key, a protocol message); of a
\* real message only the path of its media is told apart, as sent or refreshed.
Contents == {"absent", "stub", "sent", "refreshed"}
Rows == [content : Contents, status : Statuses]
NoRow == [content |-> "absent", status |-> 0]
Real(r) == r.content \in {"sent", "refreshed"}

\* "was" is the row that a read-modify-write has read, NoRow for a plain write; "n" a
\* receipt's status or a DeleteChat's timestamp.
Calls == [op : {"upsert", "delete", "fetch", "load"}, id : Ids,
          row : Rows, was : Rows, n : Statuses]
            \cup [op : {"clear"}, id : {None}, row : {NoRow}, was : {NoRow}, n : Nat]

Save(id, content, status) ==
    [op |-> "upsert", id |-> id, row |-> [content |-> content, status |-> status],
     was |-> NoRow, n |-> 0]
\* A row that was read, changed and is written whole.  The mapper brings back what is told
\* apart here: the status as it was, content as real or not.
WriteBack(id, new, old) ==
    [op |-> "upsert", id |-> id, row |-> new, was |-> old, n |-> 0]
On(op, id, n) == [op |-> op, id |-> id, row |-> NoRow, was |-> NoRow, n |-> n]

TypeOK ==
    /\ row \in [Ids -> Rows]
    /\ work \in [Workers -> [calls : Seq(Calls), tries : 0 .. Attempts - 1]]
    /\ kept \subseteq Ids

Idle == [calls |-> <<>>, tries |-> 0]

Init ==
    /\ row = [id \in Ids |-> NoRow]
    /\ work = [w \in Workers |-> Idle]
    /\ kept = {}

-----------------------------------------------------------------------------
(* The handlers *)

Start(w, calls) ==
    /\ work[w] = Idle
    /\ work' = [work EXCEPT ![w] = [calls |-> calls, tries |-> 0]]
    /\ UNCHANGED <<row, kept>>

EventStatus(id) == IF id \in Mine THEN 2 ELSE 3

\* handleSaveMessage, then handleMessageEvent: one message may come as several events,
\* one per enc child, and only one of them carries the content.
MessageEvent(w) ==
    \E id \in Ids :
        \/ Start(w, <<Save(id, "stub", EventStatus(id))>>)
        \/ /\ Target[id] = None
           /\ Start(w, <<Save(id, "sent", EventStatus(id))>>)
        \/ /\ Target[id] # None
           /\ Start(w, <<Save(id, "stub", EventStatus(id)), On("delete", Target[id], 0)>>)

ReceiptEvent(w) ==
    \E ids \in Batches, s \in ReceiptStatuses :
        Start(w, [i \in DOMAIN ids |-> On("fetch", ids[i], s)])

\* saveHistoryForOneChat: revokes are stored, never applied.
HistoryChunk(w) ==
    \E ids \in Batches, s \in HistoryStatuses :
        Start(w, [i \in DOMAIN ids |->
                    Save(ids[i], IF Target[ids[i]] = None THEN "sent" ELSE "stub", s)])

DeleteChatEvent(w) == \E t \in Times : Start(w, <<On("clear", None, t)>>)

PersistRefreshedPath(w) == \E id \in Ids : Start(w, <<On("load", id, 0)>>)

-----------------------------------------------------------------------------
(* The calls *)

Calling(w, op) == work[w].calls # <<>> /\ Head(work[w].calls).op = op
Rest(w) == [calls |-> Tail(work[w].calls), tries |-> 0]

\* Mutant: ON CONFLICT DO UPDATE without UpdateOnConflictWhere.
UpsertedAlways(old, new) == new

\* NOT (gows_messages.is_real AND NOT EXCLUDED.is_real)
Upserted(old, new) == IF Real(old) /\ ~Real(new) THEN old ELSE new

Upsert(w) ==
    /\ Calling(w, "upsert")
    /\ LET c == Head(work[w].calls)
       IN  /\ row' = [row EXCEPT ![c.id] = Upserted(row[c.id], c.row)]
           /\ kept' = IF Real(c.row) THEN kept \cup {c.id} ELSE kept
    /\ work' = [work EXCEPT ![w] = Rest(w)]

DeleteMessage(w) ==
    /\ Calling(w, "delete")
    /\ LET c == Head(work[w].calls)
       IN  /\ row' = [row EXCEPT ![c.id] = NoRow]
           /\ kept' = kept \ {c.id}
    /\ work' = [work EXCEPT ![w] = Rest(w)]

DeleteChatMessages(w) ==
    /\ Calling(w, "clear")
    /\ LET older == {id \in Ids : TimeOf[id] < Head(work[w].calls).n}
       IN  /\ row' = [id \in Ids |-> IF id \in older THEN NoRow ELSE row[id]]
           /\ kept' = kept \ older
    /\ work' = [work EXCEPT ![w] = Rest(w)]

\* Mutant: the status is written back whatever the stored one is.
FetchFindsAlways(w) ==
    /\ Calling(w, "fetch")
    /\ LET c == Head(work[w].calls)
           old == row[c.id]
       IN  /\ old # NoRow
           /\ work' = [work EXCEPT ![w] =
                [calls |-> <<WriteBack(c.id, [content |-> old.content, status |-> c.n], old)>>
                             \o Tail(work[w].calls),
                 tries |-> 0]]
    /\ UNCHANGED <<row, kept>>

\* GetMessageWithRetries: only a higher status is written back.
FetchFinds(w) ==
    /\ Calling(w, "fetch")
    /\ LET c == Head(work[w].calls)
           old == row[c.id]
           new == [content |-> old.content, status |-> c.n]
           rest == Tail(work[w].calls)
       IN  /\ old.content # "absent"
           /\ work' = [work EXCEPT ![w] =
                [calls |-> IF old.status >= c.n
                             THEN rest ELSE <<WriteBack(c.id, new, old)>> \o rest,
                 tries |-> 0]]
    /\ UNCHANGED <<row, kept>>

\* No such row, or the query failed.
FetchMisses(w) ==
    /\ Calling(w, "fetch")
    /\ work[w].tries + 1 < Attempts
    /\ work' = [work EXCEPT ![w] = [work[w] EXCEPT !.tries = work[w].tries + 1]]
    /\ UNCHANGED <<row, kept>>

GiveUpNever(w) == FALSE /\ UNCHANGED vars   \* mutant: it retries until the row is there

GiveUp(w) ==
    /\ Calling(w, "fetch")
    /\ work[w].tries + 1 = Attempts
    /\ work' = [work EXCEPT ![w] = Rest(w)]
    /\ UNCHANGED <<row, kept>>

\* GetMessage of persistRefreshedDirectPath, one attempt.  A stub has no media.
LoadFinds(w) ==
    /\ Calling(w, "load")
    /\ LET id == Head(work[w].calls).id
           new == IF Real(row[id]) THEN [row[id] EXCEPT !.content = "refreshed"] ELSE row[id]
       IN  /\ row[id].content # "absent"
           /\ work' = [work EXCEPT ![w] =
                [calls |-> <<WriteBack(id, new, row[id])>> \o Tail(work[w].calls), tries |-> 0]]
    /\ UNCHANGED <<row, kept>>

\* A failed statement is logged and the handler goes on; so does a load that finds
\* nothing.
CallFails(w) ==
    /\ \E op \in {"upsert", "delete", "clear", "load"} : Calling(w, op)
    /\ work' = [work EXCEPT ![w] = Rest(w)]
    /\ UNCHANGED <<row, kept>>

\* The process ends: what its goroutines had left to do is gone.
Crash ==
    /\ work' = [w \in Workers |-> Idle]
    /\ UNCHANGED <<row, kept>>

-----------------------------------------------------------------------------
Event(w) ==
    \/ MessageEvent(w) \/ ReceiptEvent(w) \/ HistoryChunk(w)
    \/ DeleteChatEvent(w) \/ PersistRefreshedPath(w)
Step(w) ==
    \/ Upsert(w) \/ DeleteMessage(w) \/ DeleteChatMessages(w)
    \/ FetchFinds(w) \/ FetchMisses(w) \/ GiveUp(w) \/ LoadFinds(w) \/ CallFails(w)

Next == Crash \/ \E w \in Workers : Event(w) \/ Step(w)

Spec == Init /\ [][Next]_vars

\* A goroutine runs on: the database answers every statement, if only with an error.
FairSpec == Spec /\ \A w \in Workers : WF_vars(Step(w))

-----------------------------------------------------------------------------
(* Properties *)

\* Once the content of a message is stored, no later event of the same id, no receipt
\* that read the row before the content came and no crash hides it again
\* (UpdateOnConflictWhere of MessageTable, #2289): only deleting it does.
RealContentStays == \A id \in kept : Real(row[id])

\* A write back whose row nobody wrote meanwhile loses nothing: the status does not
\* fall and the content stays, or is refreshed (handleReceipt,
\* persistRefreshedDirectPath).
CurrentWriteBackKeeps ==
    [][\A w \in Workers :
         Upsert(w) =>
           LET c == Head(work[w].calls)
           IN  (c.was # NoRow /\ c.was = row[c.id]) =>
                 /\ row'[c.id].status >= row[c.id].status
                 /\ row'[c.id].content \in
                      {row[c.id].content} \cup (IF Real(row[c.id]) THEN {"refreshed"} ELSE {})]_vars

\* Every handler ends, also a receipt whose message never comes.
HandlersEnd == \A w \in Workers : (work[w] # Idle) ~> (work[w] = Idle)
=============================================================================
