--------------------------- MODULE StatusAckWriter ---------------------------
(***************************************************************************)
(* The writer that batches the receipts of our statuses into the database   *)
(* (gows/status_ack_writer.go, storage/sqlstorage/status_acks.go): the      *)
(* producers inside Record, the run / drain goroutine, GoWS.Stop, which      *)
(* stops the writer and then closes the database, crashes and restarts.     *)
(*                                                                          *)
(* A producer is a processEvent goroutine that handles one receipt.  Time is *)
(* abstracted to fresh: the rows updated within the retention.              *)
(***************************************************************************)
EXTENDS Naturals, Sequences, FiniteSets

CONSTANTS Producers,   \* goroutines handling a receipt
          Pairs,       \* (message id, viewer) pairs, the viewer without device
          OwnPairs,    \* those whose viewer is the account itself
          DevicePairs, \* pairs as an older build stored them, with a device
          PersonOf,    \* the pair a device pair folds into, None: unparsable JID
          None,
          QueueCap,    \* statusAckQueueSize
          FlushSize    \* statusAckFlushSize

ASSUME WriterAssumption ==
    /\ OwnPairs \subseteq Pairs
    /\ Pairs \cap DevicePairs = {}
    /\ None \notin Pairs
    /\ PersonOf \in [DevicePairs -> Pairs \cup {None}]
    /\ QueueCap \in Nat \ {0}
    /\ FlushSize \in Nat \ {0}

VARIABLES row,      \* gows_status_acks: the ack stored for a pair, 0 = no row
          fresh,    \* pairs whose row was updated within the retention
          dbOpen,   \* the GContainer is open
          queue,    \* StatusAckWriter.queue
          stopping, \* the stopping channel is closed
          writer,   \* where the writer goroutine is
          batch,    \* the batch it has collected
          cleaned,  \* selfViewsCleaned
          paired,   \* the account has a JID
          stop,     \* GoWS.Stop: not called, waiting for done, database closed
          prod,     \* the producers: what is left of the receipt they record
          seen,     \* history: highest ack a queued record reported for a pair
          owed      \* history: highest ack that must not get lost any more

memVars == <<queue, batch, prod>>
ctlVars == <<stopping, writer, stop, dbOpen, cleaned, paired>>
dataVars == <<row, fresh, seen, owed>>
vars == <<dataVars, memVars, ctlVars>>

Acks == {2, 3}        \* StatusAckDelivered, StatusAckRead
Levels == {0} \cup Acks
Records == [pair : Pairs, ack : Acks]
AllPairs == Pairs \cup DevicePairs
IdleProducer == [todo |-> {}, ack |-> 0]

TypeOK ==
    /\ row \in [AllPairs -> Levels]
    /\ fresh \subseteq AllPairs
    /\ queue \in Seq(Records) /\ Len(queue) <= QueueCap
    /\ batch \in Seq(Records) /\ Len(batch) < FlushSize
    /\ writer \in {"off", "prune", "merge", "self", "run", "drain", "done"}
    /\ stop \in {"idle", "waiting", "closed"}
    /\ dbOpen \in BOOLEAN /\ stopping \in BOOLEAN
    /\ cleaned \in BOOLEAN /\ paired \in BOOLEAN
    /\ prod \in [Producers -> [todo : SUBSET Pairs, ack : Levels]]
    /\ seen \in [Pairs -> Levels]
    /\ owed \in [Pairs -> Levels]

-----------------------------------------------------------------------------
(* The table *)

Highest(S) == CHOOSE n \in S \cup {0} : \A m \in S : m <= n
Elements(s) == {s[i] : i \in DOMAIN s}
AcksFor(recs, x) == {r.ack : r \in {q \in recs : q.pair = x}}

\* All the rows that count for pair k: its own and those of the viewer's devices.
RowsOf(k) == {k} \cup {d \in DevicePairs : PersonOf[d] = k}
\* Up to which threshold GetSummary, which counts the rows at or above each, counts a row of
\* person k.  How many it counts for a person with several rows is not told apart.
Stored(table, k) == Highest({table[x] : x \in RowsOf(k)})

\* Mutant: ON CONFLICT DO UPDATE without its WHERE, the last write wins.
UpsertedLast(table, recs) ==
    [x \in AllPairs |->
        IF AcksFor(recs, x) = {} THEN table[x] ELSE Highest(AcksFor(recs, x))]

\* dedupeStatusAcks keeps the highest ack of a pair, ON CONFLICT .. WHERE
\* EXCLUDED.ack > ack keeps the higher of the new and the stored one.
Upserted(table, recs) ==
    [x \in AllPairs |-> Highest({table[x]} \cup AcksFor(recs, x))]

Raised(before, after) == {x \in AllPairs : before[x] < after[x]}
Deleted(table, xs) == [x \in AllPairs |-> IF x \in xs THEN 0 ELSE table[x]]

\* DeleteSelfViews has a pattern for each of the two forms of a participant.
OwnRowsBare == OwnPairs   \* mutant: only the pattern of the device-less form
OwnRows == OwnPairs \cup {d \in DevicePairs : PersonOf[d] \in OwnPairs}

(* The store operations map what the writer holds to the set of outcomes; each
   may fail, which is logged and otherwise ignored.  "lost" collects the pairs
   that are owed no more than what is left of them. *)
Now == [row |-> row, fresh |-> fresh, cleaned |-> cleaned, lost |-> {}]

\* flush: when UpsertMany fails the batch is dropped all the same.
Flushed(o, recs) ==
    LET table == Upserted(o.row, recs)
    IN  {[o EXCEPT !.row = table, !.fresh = @ \cup Raised(o.row, table)]}
          \cup {[o EXCEPT !.lost = @ \cup {r.pair : r \in recs}]}

Without(o, xs) ==
    [o EXCEPT !.row = Deleted(@, xs), !.fresh = @ \ xs,
              !.lost = @ \cup {k \in Pairs : RowsOf(k) \cap xs # {}}]

\* DeleteBefore
Pruned(o) == {o, Without(o, {x \in AllPairs : o.row[x] # 0 /\ x \notin o.fresh})}

\* deleteSelfViews: nothing to match on before the session is paired.
SelfViewsDeleted(o) ==
    IF o.cleaned \/ ~paired
      THEN {o}
      ELSE {o, [Without(o, OwnRows) EXCEPT !.cleaned = TRUE]}

\* Mutant: the device rows are deleted without having been folded.
MergedAway(o) ==
    {o, [o EXCEPT !.row = Deleted(@, DevicePairs), !.fresh = @ \ DevicePairs]}

\* MergeDeviceParticipants, one transaction.  A row that is new or raised gets the
\* time of its parts; a row whose participant cannot be parsed goes.
Merged(o) ==
    LET folded == {d \in DevicePairs : o.row[d] # 0 /\ PersonOf[d] # None}
        table == Upserted(o.row, {[pair |-> PersonOf[d], ack |-> o.row[d]] : d \in folded})
        raised == Raised(o.row, table)
    IN  {o, [o EXCEPT
               !.row = Deleted(table, DevicePairs),
               !.fresh = (@ \ (DevicePairs \cup raised))
                           \cup {k \in raised : \E d \in folded \cap @ : PersonOf[d] = k}]}

\* Takes over an outcome; "rest" are the records that may still be committed.
Become(o, rest) ==
    /\ row' = o.row
    /\ fresh' = o.fresh
    /\ cleaned' = o.cleaned
    /\ owed' = [k \in Pairs |->
                  LET backed == Highest({Stored(o.row, k)} \cup AcksFor(rest, k))
                  IN  IF k \in o.lost /\ backed < owed[k] THEN backed ELSE owed[k]]

-----------------------------------------------------------------------------
(* Construction.  Rows an older build may have left, a session that may not be
   paired yet. *)

Init ==
    /\ row \in [AllPairs -> Levels]
    /\ fresh \in SUBSET {x \in AllPairs : row[x] # 0}
    /\ seen = [k \in Pairs |-> Stored(row, k)]
    /\ owed = seen
    /\ queue = <<>> /\ batch = <<>>
    /\ prod = [p \in Producers |-> IdleProducer]
    /\ writer = "off" /\ stop = "idle"
    /\ dbOpen = FALSE /\ stopping = FALSE /\ cleaned = FALSE
    /\ paired \in BOOLEAN

\* BuildSession opens the database and calls NewStatusAckWriter ...
Build ==
    /\ writer = "off"
    /\ writer' = "prune"
    /\ dbOpen' = TRUE
    /\ UNCHANGED <<dataVars, memVars, stopping, stop, cleaned, paired>>

\* ... which prunes, merges and deletes before it starts the goroutine.
Construct(from, to, outcomes) ==
    /\ writer = from
    /\ writer' = to
    /\ \E o \in outcomes : Become(o, {})
    /\ UNCHANGED <<seen, memVars, stopping, stop, dbOpen, paired>>

StartPrune == Construct("prune", "merge", Pruned(Now))
StartMerge == Construct("merge", "self", Merged(Now))
StartDeleteSelfViews == Construct("self", "run", SelfViewsDeleted(Now))

Pair ==
    /\ writer = "run" /\ stop = "idle"
    /\ ~paired
    /\ paired' = TRUE
    /\ UNCHANGED <<dataVars, memVars, stopping, writer, stop, dbOpen, cleaned>>

\* The retention of a row passes.
Expire(x) ==
    /\ x \in fresh
    /\ fresh' = fresh \ {x}
    /\ UNCHANGED <<row, seen, owed, memVars, ctlVars>>

-----------------------------------------------------------------------------
(* Record *)

\* A receipt names one viewer and several messages, hence a set of pairs; our own
\* views were filtered out by isOwnStatusReceipt.  Receipts stop coming once
\* GoWS.Stop has disconnected, but the goroutine of one may still be running.
Arrive(p, todo, ack) ==
    /\ writer = "run" /\ stop = "idle"
    /\ prod[p].todo = {}
    /\ prod' = [prod EXCEPT ![p] = [todo |-> todo, ack |-> ack]]
    /\ UNCHANGED <<dataVars, queue, batch, ctlVars>>

\* The select either sends, which it may do after stopping is closed, ...
Enqueue(p, k) ==
    /\ k \in prod[p].todo
    /\ Len(queue) < QueueCap
    /\ queue' = Append(queue, [pair |-> k, ack |-> prod[p].ack])
    /\ LET left == prod[p].todo \ {k}
       IN  prod' = [prod EXCEPT ![p] = IF left = {} THEN IdleProducer
                                      ELSE [todo |-> left, ack |-> prod[p].ack]]
    /\ seen' = [seen EXCEPT ![k] = Highest({@, prod[p].ack})]
    /\ owed' = IF stopping THEN owed ELSE [owed EXCEPT ![k] = Highest({@, prod[p].ack})]
    /\ UNCHANGED <<row, fresh, batch, ctlVars>>

\* Mutant: a plain send that does not watch stopping.
GiveUpNever(p) == FALSE

\* ... or gives the rest of the receipt up.
GiveUp(p) ==
    /\ prod[p].todo # {}
    /\ stopping
    /\ prod' = [prod EXCEPT ![p] = IdleProducer]
    /\ UNCHANGED <<dataVars, queue, batch, ctlVars>>

-----------------------------------------------------------------------------
(* run and drain *)

\* Mutant: the batch may grow past its size.
TakeFlushesLate ==
    /\ writer \in {"run", "drain"}
    /\ queue # <<>>
    /\ queue' = Tail(queue)
    /\ LET full == Append(batch, Head(queue))
       IN  IF Len(full) > FlushSize
             THEN /\ \E o \in Flushed(Now, Elements(full)) : Become(o, Elements(queue'))
                  /\ batch' = <<>>
             ELSE batch' = full /\ UNCHANGED <<row, fresh, owed, cleaned>>
    /\ UNCHANGED <<seen, prod, stopping, writer, stop, dbOpen, paired>>

Take ==
    /\ writer \in {"run", "drain"}
    /\ queue # <<>>
    /\ queue' = Tail(queue)
    /\ LET full == Append(batch, Head(queue))
       IN  IF Len(full) >= FlushSize
             THEN /\ \E o \in Flushed(Now, Elements(full)) : Become(o, Elements(queue'))
                  /\ batch' = <<>>
             ELSE batch' = full /\ UNCHANGED <<row, fresh, owed, cleaned>>
    /\ UNCHANGED <<seen, prod, stopping, writer, stop, dbOpen, paired>>

\* Mutant: no flush ticker.
FlushTickNever == FALSE

FlushTick ==
    /\ writer = "run"
    /\ batch # <<>>
    /\ batch' = <<>>
    /\ \E o \in Flushed(Now, Elements(batch)) : Become(o, Elements(queue))
    /\ UNCHANGED <<seen, queue, prod, stopping, writer, stop, dbOpen, paired>>

PruneTick ==
    /\ writer = "run"
    /\ batch' = <<>>
    /\ \E o1 \in Flushed(Now, Elements(batch)) :
         \E o2 \in Pruned(o1) :
           \E o3 \in SelfViewsDeleted(o2) : Become(o3, Elements(queue))
    /\ UNCHANGED <<seen, queue, prod, stopping, writer, stop, dbOpen, paired>>

\* Mutants: the select does not watch stopping; the writer leaves without draining.
SeeStoppingReturns ==
    /\ writer = "run"
    /\ stopping
    /\ writer' = "done"
    /\ UNCHANGED <<dataVars, memVars, stopping, stop, dbOpen, cleaned, paired>>

SeeStopping ==
    /\ writer = "run"
    /\ stopping
    /\ writer' = "drain"
    /\ UNCHANGED <<dataVars, memVars, stopping, stop, dbOpen, cleaned, paired>>

\* The queue was found empty: the last batch is committed and done is closed.
DrainEnd ==
    /\ writer = "drain"
    /\ queue = <<>>
    /\ writer' = "done"
    /\ batch' = <<>>
    /\ \E o \in Flushed(Now, Elements(batch)) : Become(o, {})
    /\ UNCHANGED <<seen, queue, prod, stopping, stop, dbOpen, paired>>

-----------------------------------------------------------------------------
(* GoWS.Stop, crash and restart *)

StopWriter ==
    /\ writer = "run" /\ stop = "idle"
    /\ stop' = "waiting"
    /\ stopping' = TRUE
    /\ UNCHANGED <<dataVars, memVars, writer, dbOpen, cleaned, paired>>

\* Mutant: Stop does not wait for done.
CloseStoreEarly ==
    /\ stop = "waiting"
    /\ stop' = "closed"
    /\ dbOpen' = FALSE
    /\ UNCHANGED <<dataVars, memVars, stopping, writer, cleaned, paired>>

CloseStore ==
    /\ stop = "waiting"
    /\ writer = "done"
    /\ stop' = "closed"
    /\ dbOpen' = FALSE
    /\ UNCHANGED <<dataVars, memVars, stopping, writer, cleaned, paired>>

\* All that is in memory is gone; nobody is owed more than what is committed.
ForgetMemory ==
    /\ queue' = <<>> /\ batch' = <<>>
    /\ prod' = [p \in Producers |-> IdleProducer]
    /\ writer' = "off" /\ stop' = "idle"
    /\ dbOpen' = FALSE /\ stopping' = FALSE
    /\ Become([Now EXCEPT !.cleaned = FALSE, !.lost = Pairs], {})
    /\ UNCHANGED <<seen, paired>>

Crash == writer # "off" /\ ForgetMemory

\* The session is stopped, and its last receipt goroutine has ended.  What Stop
\* left behind is gone for good, so nothing is released from what is owed.
Restart ==
    /\ stop = "closed"
    /\ \A p \in Producers : prod[p].todo = {}
    /\ queue' = <<>> /\ batch' = <<>>
    /\ writer' = "off" /\ stop' = "idle" /\ stopping' = FALSE /\ cleaned' = FALSE
    /\ UNCHANGED <<dataVars, prod, dbOpen, paired>>

-----------------------------------------------------------------------------

ProducerStep(p) == GiveUp(p) \/ \E k \in Pairs : Enqueue(p, k)
WriterStep == Take \/ SeeStopping \/ DrainEnd
TickStep == FlushTick \/ PruneTick
StartStep == Build \/ StartPrune \/ StartMerge \/ StartDeleteSelfViews

Next ==
    \/ StartStep \/ Pair
    \/ \E x \in AllPairs : Expire(x)
    \/ \E p \in Producers :
         \/ ProducerStep(p)
         \/ \E todo \in SUBSET (Pairs \ OwnPairs) \ {{}}, ack \in Acks : Arrive(p, todo, ack)
    \/ WriterStep \/ TickStep
    \/ StopWriter \/ CloseStore \/ Crash \/ Restart

Spec == Init /\ [][Next]_vars

\* The writer's goroutine is scheduled, its select cannot ignore a ready case for
\* ever, the senders blocked on a channel are served in order (hence the strong
\* fairness of a producer), and GoWS.Stop returns from its wait.
Fairness ==
    /\ WF_vars(Take) /\ WF_vars(SeeStopping) /\ WF_vars(DrainEnd) /\ WF_vars(FlushTick)
    /\ WF_vars(CloseStore)
    /\ \A p \in Producers : SF_vars(ProducerStep(p))

FairSpec == Spec /\ Fairness

-----------------------------------------------------------------------------
(* Properties *)

\* The counters as the summary reads them implement the abstract counter: never
\* above what a receipt said, raised only, forgotten only by age or as our own.
Counter == INSTANCE StatusAckCounter WITH
    level <- [k \in Pairs |-> Stored(row, k)],
    seen <- seen,
    expired <- {k \in Pairs : \E x \in RowsOf(k) : row[x] # 0 /\ x \notin fresh}

ImplementsCounter == Counter!CounterSpec

\* A view that was queued before Stop, and one an older build had stored, is in
\* the database or still on its way to it, in the queue or in the batch, except
\* when its own batch fails, the process crashes, or its row outlives the
\* retention.  In particular all of them are committed when Stop returns.
NothingVanishes ==
    \A k \in Pairs :
        owed[k] <= Highest({Stored(row, k)} \cup AcksFor(Elements(queue) \cup Elements(batch), k))

StoppedIsCommitted ==
    stop = "closed" => \A k \in Pairs : owed[k] <= Stored(row, k)

\* The database is closed only after the writer's last statement.
WritesWhileOpen == [][row' # row => dbOpen]_vars

\* Once deleteSelfViews has run, no view of ours is counted, under either form,
\* until the writer is built again.
SelfViewsStayDeleted == cleaned => \A k \in OwnPairs : Stored(row, k) = 0

\* No receipt goroutine waits for ever, even when the queue is full as Stop comes, and
\* GoWS.Stop returns (or the process dies first).
NobodyWaits ==
    /\ \A p \in Producers : prod[p].todo # {} ~> prod[p].todo = {}
    /\ stop = "waiting" ~> stop # "waiting"

\* A queued record does not stay in memory: it is committed or dropped with a log.
QueueIsWritten ==
    \A k \in Pairs : \A a \in Acks :
        (writer = "run" /\ [pair |-> k, ack |-> a] \in Elements(batch))
            ~> [pair |-> k, ack |-> a] \notin Elements(batch)
=============================================================================
