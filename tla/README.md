# gows-plus in TLA+

gows-plus is the Go process that connects WhatsApp accounts ("sessions") through
whatsmeow and offers them over gRPC. It keeps little state, but that state is
written by many goroutines: whatsmeow hands every event to handlers which start a
goroutine each, gRPC calls come concurrently, and every session is built and torn
down while events arrive. This directory models that concurrency, checks it with
TLC and proves the central safety properties with TLAPS.

Source paths below are relative to `src/src/` of the repository.

## 1. The system

### Components, their state and operations

| Component | State | Operations |
|---|---|---|
| Session lifecycle: `server/session.go`, `gows/manager.go`, `gows/gows.go` | `SessionManager.sessions`, `Server.eventSubs`, and of each `GoWS`: database, `events` channel, context, registered handlers | `StartSession`, `StopSession`; `Build`, `Start`, `Stop`; the pump goroutine; `emitEvent` |
| Event fan-out: `server/events.go` | `Server.listeners`; of each listener its buffer, drop counter and poisoned channel | `StreamEvents`, `addListener`, `removeListener`, `SendEventToAllListeners` |
| Status ack writer: `gows/status_ack_writer.go`, `storage/sqlstorage/status_acks.go` | queue, batch, `gows_status_acks` | `Record`, flush, prune, repair of older rows, `Stop` |
| Message table: `gows/storage_event_handler.go`, `storage/sqlstorage/message.go`, `gows/media.go` | `gows_messages` | message, receipt, history and delete-chat handlers, the refreshed media path |
| Group cache: `gows/storage_groups_cache.go`, `storage/helpers` | `gows_groups`, group rows of the ephemeral settings, `lastTimeRefreshed`, a mutex | `FetchGroups`, `GetGroup`, `GetAllGroups`, `UpdateGroup`, `UpsertOneGroup`, `DeleteGroup` |
| Tables of chats: `gows/storage_event_handler.go`, `storage/sqlstorage/{group_member_labels,labels,label_associations,chat_ephemeral_setting}.go` | member tags, labels and the chats they are on, disappearing timers | the handlers of label, tag, leave, timer and delete-chat events and of history |
| Sending: `server/messages.go`, `gows/build.go`, `gows/status.go` | none that calls share; of a status, the batches sent so far | every sending RPC, `SendStatusMessage`, `sendStatusBatchWithRetry` |
| Limits of the account: `gows/gows.go`, `gows/capping.go`, `gows/reachouttimelock.go` | time of the last fetch of each kind | connect, push, poll and nack, `fetch...Throttled`, `fetchAndEmit...` |
| Media retry: `server/media.go`, `gows/media.go` | `mediaRetryWaiters`, `mediaRetryEvents` (a TTL cache) | `DownloadMedia`, `requestAndWaitForMediaRetry`, the handler of the phone's answer |
| LID mapping, newsletters, link previews, media conversions | none of their own | queries, conversions |
| Database container, migrations, process wiring | the connection | open, migrate, close |

`PROJECT.json` lists every component with its status, and every hazard with its
line and the properties that watch it.

### How they interact

* whatsmeow calls `GoWS.handleEvent` for each event. It starts one goroutine for
  `reissueEvent` (enrich the event, then `emitEvent` into the session's `events`
  channel) and one for `StorageEventHandler.processEvent`. **Events of one session
  are therefore handled in any order.**
* `StartSession` spawns the pump: it reads the session's channel and calls
  `SendEventToAllListeners`, which offers the event to the buffer of every open gRPC
  stream. `StopSession` cancels it.
* `StorageEventHandler` writes messages, groups, labels and settings, each with
  single SQL statements and without transactions across them, and hands status
  receipts to the status ack writer.
* `GoWS.Stop` removes the handler, disconnects, drains the ack writer, closes the
  database, closes the channel and cancels the context, while goroutines of earlier
  events may still run.

### What is hard, and what makes each component correct

* *Lifecycle*: `Build`, subscribe and `Start` are three critical sections, and the
  instance is used after each of them. What is in the map must be usable, torn down
  once, and forwarded by exactly one pump; blocked emitters must end.
* *Fan-out*: listeners come and go while the pump visits them. No send on a closed
  channel; a slow client costs only its own events and never the pump's progress; one
  that never catches up is disconnected.
* *Ack writer*: receipts come in any order, in batches, while the writer prunes,
  repairs, drains or crashes. The stored level is the highest reported, and nothing
  queued before `Stop` is lost.
* *Messages*: one id comes several times, from several goroutines that read, change
  and write the row. Stored content must survive; a write back must lose nothing when
  nobody overtook it.
* *Groups*: an update applies to one participant version, a refresh replaces all rows
  in many statements, and three of the writers take no lock.
* *Tables of chats*: live events and history cross in their goroutines; a removed tag must
  not come back, a label must not inherit the chats of a deleted one, a timer must not be
  taken by an older deletion.
* *Sending*: lookups, uploads and sends fail one by one, callers hang up, a status goes out in
  batches. What the caller asked for must be in the message, an error must not hide that
  somebody received it, and the session's own handlers see what was accepted, once.
* *Media retry*: the phone's answer races with the 60 s timeout, with other callers and with a
  second answer. One receipt in flight; a bad answer must not be served for 24 h.

## 2. Modules

| Module | Kind |
|---|---|
| `SessionLifecycle` | start and stop of one session name by concurrent callers |
| `SessionLifecycleProofs` | its type invariant, four safety properties, and two more of one caller, proved |
| `EventListeners` | the fan-out of one session to its streams |
| `EventListenersProofs` | its type invariant, the safety of sends, the accounts of streams, and when one sender poisons, proved |
| `StatusAckCounter` | what the ack counters promise (abstract) |
| `StatusAckWriter` | queue, writer goroutine, table; implements the counter |
| `StatusAckWriterProofs` | its type invariant, four safety properties and the refinement of the counter, proved |
| `MessageStore` | the table of messages and all its writers |
| `MessageStoreProofs` | its type invariant, `RealContentStays` and `CurrentWriteBackKeeps`, proved |
| `GroupCache` | the stored groups: refreshes, versioned updates and the writers without a lock |
| `GroupCacheProofs` | its type invariant and all its properties, proved: `VersionTruth`, `LockIsHeld`, `VersionsOnlyGrow`, `UpsertFirst`, `CacheInSync` |
| `ChatTables` | member tags, labels and timers of chats, and all their writers |
| `ChatTablesProofs` | its type invariant, what its tables settle on and `OnlyOlderTimersGo`, proved |
| `MessageContent` | what a message is made of: pure operators |
| `LimitFetches` | the fetches of what WhatsApp allows the account |
| `SendPromise` | what a sending call promises (abstract) |
| `Sending` | the sending calls; extends `MessageContent` and `LimitFetches`, implements the promise |
| `SendingProofs` | its type invariant, the context and the report of a send, and the steps of the promise, proved |
| `MediaRetry` | downloads of one message's media, and the phone's answers |
| `MediaRetryProofs` | its type invariant and two safety properties, proved |
| `MC...` | symmetry, and model values where the functions of an instance need them |

A definition that starts with the name of another one and is commented "mutant" is a
plausible bug of the code; it is never part of a specification.

### SessionLifecycle

A *caller* is a gRPC handler goroutine, an *instance* a `*GoWS`, a *pump* the
goroutine that `StartSession` spawns along with the cancel function it stores in
`eventSubs`. Each lock-protected section of the code is one action: `BuildExisting /
BuildNew / BuildBadProxy / BuildFails` (`SessionManager.Build`), `Subscribe`
(`eventSubsLock`), `Lookup` (first half of `SessionManager.Start`). What runs without
a lock is split: `DropOldHandler`, `AddHandler`, `Connect` (`GoWS.Start`), and
`TeardownHandler ... TeardownCancel` (`GoWS.Stop`), so that every interleaving of two
callers is a behaviour. `Dispatch` is whatsmeow calling the handler, `Emit` and
`EmitAbort` the two outcomes of `emitEvent`. A pump reads the field `gows.events` once
(`PumpOpens`): it is nil after `Stop`, and receiving from nil blocks for ever, which is
why the pump must watch its context.

Some properties hold for any callers (`MappedSessionIsLive`, `TeardownExclusive`,
`OpenStoreIsOwned`, `OneSubscription`); `LiveSessionHasPump` and `NoZombie` hold when a
client serialises its calls for a name, and *two callers do violate them*: two overlapping `Start`s register two handlers (every event twice); a
`Stop` between the lookup and the use in `SessionManager.Start` leaves a connected client
that no later `Stop` reaches; a `Stop` between `Build` and the subscription leaves an
entry in `eventSubs` that keeps the next session silent (the finding of
`session_stale_subscription`).

### EventListeners

*Senders* are the goroutines inside `SendEventToAllListeners`. There is one pump per
session, but the pump of a stopped session can overlap with the next one's: the theorems
hold for any number of senders and streams, the runs have one of each. The read lock is
`Reading(s)`: `AddListener` and `RemoveListener` wait for it. A visit is a `Deliver`
followed by `ResetDrops`, or a `DropEvent` followed by `JudgeDrop`, since the atomic counter
and the channel are not updated together. `ReceiveEvent`, `SendAccepted` and `SendFails` are
`StreamEvents` calling `stream.Send`, which blocks as long as the client's window is full:
nothing makes `SendAccepted` fair.

`PoisonsWhenStuck` is about one sender: with two, the reset of one crosses the increment of
the other, and the counter is off by one event.

### StatusAckWriter and StatusAckCounter

The store operations are operators from what the writer holds to the set of its outcomes
(`Flushed`, `Pruned`, `Merged`, `SelfViewsDeleted`), each with its failure. `Init` starts
from any table an older build may have left, device rows and rows that cannot be parsed
included. `owed` is history: the level that a queued record has promised. A failed flush
drops its batch (the code logs it and goes on), a crash drops what is in memory; both
release what is owed, nothing else does. `StatusAckWriter!Counter` is the refinement
mapping: the level of a pair is the highest of the rows that count for it.

### MessageStore

A *worker* is a goroutine, a handler the sequence of the SQL statements it runs, so other
workers run between any two of them. A row is "absent", a "stub" (`is_real` false), or
real with the media path as "sent" or "refreshed"; statuses are the numbers of the code.
A receipt reads the row, raises its status and writes the *whole* row back; so does the
refreshed path. `kept` is history: ids whose real content was written and not deleted
since.

`CurrentWriteBackKeeps` is about write backs that nobody overtook. The overtaken ones do
lose updates in this code, and the module has these behaviours: a stale write back lowers
a status, undoes a refreshed path, or brings a revoked message back; a message that is
saved again (its second event, or history) resets the status.

### GroupCache

A *worker* is the goroutine of an event or of a gRPC call; `calls` are the statements it has
left to run, `Lock` and `Unlock` of `GroupCacheStorage.lock` among them, so other workers run
between any two. WhatsApp is part of the module, as what the cache has to agree with: it changes
a group and appends an event about it to `events`, which `HandleEvent` takes in any order. A
group is its participant version, the roles of its participants, and its ephemeral parameter,
which is stored twice: in the row, and in the chat ephemeral settings (`setting`, with those
that may have a timestamp in `stamped`). Reading a fresh cache changes nothing and is not a step.
An event carries one kind of change; the order of participants and superadmins are not told
apart; member labels have a table of their own. `Groups` are those that this account is in, or
will join, at some time.

`handleMeLeftGroup` compares those who left with the account's phone number only: that is the
event "left". An own leave that is listed under our @lid, or that is handled while `Store.ID` is
nil, is a change of participants like any other ("people", after which `server[g].in` is FALSE):
the row and the setting stay until a refresh deletes them as stale.

`unsure` and `alone` are history: the groups whose row may differ from WhatsApp's for a reason
that the code accepts, and the jobs that nothing overlapped. A complete refresh that nothing
disturbed makes its groups sure again. The reasons are behaviours of this code, all of them in
the module:

* a statement that failed and was logged, an update given up after its attempts, a restart;
* an empty list from WhatsApp: the stored groups are deleted, the cache is not marked fresh;
* events handled in another order than sent, when no version orders them (joined and left,
  two changes of a parameter);
* jobs without the lock next to any other. `SetGroupMemberShareHistoryMode` writes back what it
  has read, so an update in between is lost and the later ones do not apply any more; a group
  that joins between `GetJoinedGroups` and `GetAllGroups` of a refresh is deleted as stale; a
  group that was left is written back by an update that had read it;
* a deleted chat, which removes the setting of a group that is still ephemeral;
* a setting that is not deleted (`SettingKept`). `DeleteChatEphemeralSetting` keeps one whose
  timestamp is not before the deletion. What a group's parameter says is stored with no timestamp,
  but protocol messages and history store the settings of groups with one, and a refresh in the
  same second leaves it;
* an own leave under @lid, as above.

`VersionTruth` and `LockIsHeld` have no such exception. `CacheInSync` does not wait for the cache
to be quiet: a group is as WhatsApp has it whenever nothing is due about that group, while a
refresh rewrites its row, another group's events are handled, or its setting is written before
its row.

### ChatTables

A *job* is an event whose handler is not over: the goroutine with the rest of its statements.
Jobs run in any order and between each other's statements, except those about labels, which
`handleEvent` runs within whatsmeow's dispatch (`InOrder`). A job of members who leave is one
statement for the group if this account is among them under its phone number, which is all that
`handleMeLeftGroup` compares with. Listed under @lid (`LeavesUnderLid`), its leave is anybody's,
and the tags of those who stay are kept, which makes them unsure. Where a handler would go on with the
next member after a failed statement, those members are jobs of their own.

WhatsApp's side is `truth`. A row of a tag gives way to one that is not older, and a removed
tag is a row without text, so that history cannot bring it back: `TagsSettle`. Labels have no
timestamps and settle by order alone: `LabelsSettle`. A deleted label loses its chats first and
its row then; `added` is history, the chats a label was put on since its row went. A deletion of
a timer reads it in one statement and deletes it in another one: a newer timer that is stored
between the two goes with it, and `OnlyOlderTimersGo` says that nothing else does.

`unsure` is history again: a failed statement, a crash, two changes of one tag within one second
(the table cannot order them), and a member who leaves while its tag is still being handled: the
tag is stored after it was deleted, which the code cannot tell, since it keeps no trace of a
deleted row; and an own leave under @lid. A member is sure again with its next change, if that
finds an older row and nothing else about the member on its way (`Outdated`). Labels stay
unsure: a lost event about a label has nothing that a later one is compared with.

### MessageContent, LimitFetches, SendPromise and Sending

`MessageContent` is the data: a message is its kind, the *marks* of its context (timer, quote,
mentions, forwarded, and those an old message brings along), whose secret it has and how its
media was uploaded. `Contents` is the set of messages a request may lead to, given what
the storage answered; `Nothing` is an error. Which kinds carry a context at all (`Carriers`)
is what `ExtractContextInfo` and `SetContextInfo` list. Texts, keys and sizes are left out.

`Sending` is the control. A call is received, prepares its context (`Prepare`: a setting or
a quoted message that cannot be read is logged and adds nothing), builds the message and sends
it. `Answers` to a lookup are "found" and "error"; what is missing is an error in the code
too. A status is cut in batches; `SendBatch` is one attempt of one batch. It runs under
`context.WithoutCancel`, so a caller that gives up does not end it (`StatusContextDone`). The code
does not look for a participant that is named twice: it can be in a batch that was sent and in
one that failed, and is reported in both lists (`NamedTwice` in `DeliveryAccounted`).
`BuildEventUpdate` may fail and its error be overwritten, so that a message without content is
handed to whatsmeow: the kind is "nil", and what happens to it there is external. A panic of a
handler (`CancelEvent` of a stored message that is not an event) becomes an error by the gRPC
server's recovery, and is `Nothing` as well.

Calls share nothing but `LimitFetches`: the goroutines that ask WhatsApp for the capping and
the timelock after a connect, a push, an hourly tick or a nack. The throttle is read in one
critical section and set in another (`CheckThrottle`, `Stamp`), so a burst may fetch twice, and
a 463 within a minute of the last fetch learns nothing of the timelock; its capping is fetched
in any case: `NackIsLearnt`. `Expire` is the interval running out.

`KeepsPromise` is the refinement of `SendPromise`: a call that is taken ends; it is refused only
if nobody acknowledged its message; it is echoed to the session's handlers exactly when it was
accepted.

### MediaRetry

One message, several *callers* of `DownloadMedia`. The first to register is the waiter and
sends the receipt; the others poll the cache. An answer is handled by a goroutine that caches it
and then notifies the waiter, without blocking; the phone may answer late, twice, badly or never.
A caller that finds its answer bad drops the cache entry, by message id. Behaviours that are in
the module and harmless: that deletion may take a newer good answer with it, and the next call
asks again; an answer cached between a caller's lookup and its registration is not seen by it,
and another receipt is sent. `judged` is history, `row` the path in the message table.

## 3. Runs

| Run | What it checks | Bounds, and why they are enough |
|---|---|---|
| `session_serial` | One caller: a mapped session is connected, handled once and pumped; a full channel drains; a stopped instance leaves no emitter and no pump; cancelled pumps end | Two instances and two pumps: an instance that is being torn down or a pump that has not noticed its cancellation, next to the new one. Channel of 1, two emitters: one of them blocks |
| `session_concurrent` | Two callers: no dead instance mapped, none torn down twice, no database forgotten, one subscription | Two callers take every pair of steps of two calls; a third instance would be neither mapped nor torn down |
| `session_stale_subscription` (violated) | `LiveSessionHasPump` for two callers | as above |
| `listeners` | A pump and a stream that comes, goes and may stop reading: no send on a closed channel; every event accounted for; poisoned exactly after `MaxDrops` drops in a row; the pump gets through; streams end | Seven events: fill the buffer (2), poison (2), and a reset in between. Two kinds, one of them excluded or not. Streams touch each other only in the sender's walk, about which the theorems are |
| `listeners_stuck_client` (violated) | `PoisonKillsStream` | as above |
| `ack_repair` | Construction on any older table, receipts, failures, crashes, restarts: nothing vanishes, own views stay deleted, the counter is implemented | One viewer, the account itself, a device of each and a row nobody can parse: all the classes the repair tells apart |
| `ack_queue` | Two producers race with `Stop` over a queue of 1 and a flush size of 2: committed before the database closes, nobody waits for ever | One pair per receipt: receipts that name several messages are in `ack_repair` |
| `message_store` | Content stays, a current write back keeps the row, handlers end | Two workers, a message and its revoke, receipts and history naming one or both, two of the six attempts |
| `group_cache` | Rows are true to their version and never fall back, a group with nothing due about it and nothing gone wrong is as WhatsApp has it, a refresh deletes only what is stale and last, the lock is released whatever fails | Two workers: any pair of writers. Group `a` is changed twice, by any of join, leave, participants, parameter: two events in the wrong order, or one next to a refresh. Group `b` is what else a refresh must keep or remove. Two of the ten attempts. Jobs other than events name group `a` |
| `sending` | The context that was asked for is in every kind of message; the report of a status is complete; the promise is kept; nacks are learnt | One call, any of the requests: calls do not share anything but the fetches, which a source of the session represents. One stored message of each shape that handlers tell apart. Three participants and batches of two: a full batch and the rest; one that has no phone number; one that is named twice, in different batches. One retry |
| `media_retry` | One receipt in flight; a bad answer is not used again; calls return | Two callers: a waiter and a poller, or one after the other. Three answers: a bad one, a good one and another one in flight |
| `chat_tables` | Tags and labels settle on WhatsApp's, a label's id inherits no chats, a deletion takes only what is older | Two members (this account and another one), one label on two chats, one timer, two seconds. Four changes: delete, name and put a label again with an event of another table in between; two changes of a tag, history and a leave. Rows of different members, labels and timers do not meet in a statement, but when this account leaves under its phone number |

Deadlock is checked, except in `listeners` and `listeners_stuck_client`, which stop when
`MaxEvents` events are sent and all streams are gone, in `media_retry`, which stops when all
calls have ended and the phone has answered, and in `chat_tables`, which stops when the changes
are used up and handled.

`MaxEvents`, `MaxAnswers`, `MaxTime` and `MaxChanges` bound what the environment does, `ChanCap`,
`QueueCap`, `BufCap` and `BatchSize` are smaller values of the code's own limits.

### Fairness

A goroutine that can run is scheduled (weak fairness of its own steps). A `select` chooses
at random among its ready cases, and blocked senders of a channel are served in order: a
case that is ready again and again is taken, hence strong fairness for `LeaveCancelled`,
`LeavePoisoned` and the producers of the ack writer. Statements return, if only with an
error; uploads, sends, fetches and waits have timeouts, so that the calls of `Sending` and
`MediaRetry` and the goroutines of `LimitFetches` go on as well. Nothing is assumed of WhatsApp,
of the phone that owes an answer, of gRPC clients, of how often calls are made, of crashes or of
the clock. `GroupCache` and `ChatTables` state safety only, without fairness.

### Findings

* `server/session.go:104`: a `StopSession` that overtakes a `StartSession` leaves a stale
  subscription, and the next session is connected and silent.
* `server/events.go:131`: a poisoned stream that is blocked in `stream.Send` never sees
  that it is poisoned.

Other behaviours of the code that a reader may not expect are in the modules and named in their
sections and under "hazards": overtaken write backs (`MessageStore`), writers of groups
without the lock and settings kept for their timestamp (`GroupCache`), tags that come back after
a leave and timers newer than their deletion (`ChatTables`), an own leave under @lid, after which
the group and its members' tags stay stored (both), and a `Record` that runs while `Stop` drains and queues a view that
nobody commits (`gows/status_ack_writer.go:98`; `StoppedIsCommitted` is about what was queued
before `Stop` began).

## 4. Proofs

All for any value of the constants that satisfies the named assumption of the module.

* `SessionLifecycleProofs`. `TypeInv` is `TypeOK` with the fact that a caller inside
  `GoWS.Start` or `Stop` holds an instance. On it rests `Ownership`: who may hold which
  instance: what is mapped, being torn down by whom, and open. It is inductive where the
  four properties are not: that no two callers tear down one instance follows only from
  its being taken out of the map once and never put back. Theorems `TypeCorrect`,
  `MapIsLive`, `StopIsExclusive`, `StoresAreOwned`, `AtMostOnePump`. What two callers
  violate is proved for one (the hypothesis is that all callers are the same, for any number
  of instances and pumps): `SerialPump` follows the mapped session through a call: which pump
  it has subscribed, or that it has yet to; `SerialClient` says which instances are connected
  and handled at each line of `GoWS.Start` and `Stop`. Theorems `SerialCallsKeepPump`,
  `SerialCallsLeaveNoZombie`.
* `EventListenersProofs`. `TypeInv` adds to `TypeOK` where a sender is (`SenderInv`).
  `SendsAreSafe`: a listener that a sender still has to visit is in the map, since removing
  it needs the write lock; so its channel is open. `EventsAreAccounted`: every event a stream
  was offered was taken by its client's goroutine, is in its buffer, was dropped because the
  buffer was full, or is still to be visited, for any number of senders at once; the count of
  senders that are still to come is the cardinality of a finite set, hence `Senders` is assumed
  finite. `PoisonIsExact` is about one sender: but for the moment between a delivery and its
  `ResetDrops`, the counter is the number of events in a row that did not fit (`Counter`).
* `StatusAckWriterProofs`. The invariant has five parts, all needed by each other:
  `TypeInv` (with the receipts that may be queued), `Stages` (which of the writer's fields go
  with which line of its goroutine), `Witnessed` (every level in the queue, the batch or the
  table was reported), `NothingVanishes` and `SelfViewsStayDeleted`. What a store operation may
  leave behind is proved first, in terms of rows, failures and half-done repairs included
  (`RowsAdvance`), then in terms of the level of a pair (`Advances`), and so every statement of
  the writer is a commit of the abstract counter. Theorems `TypeCorrect`, `OwedIsKept`,
  `StopCommits`, `SelfViewsGone`, `ClosedIsUntouched`, and the refinement `CounterImplemented`.
* `MessageStoreProofs`. `TypeCorrect` needs the shape of every call a worker may have left;
  `ContentStays` says that whatever the calls left to make, the conflict clause keeps a real
  row real. The write backs make it interesting: a stub that was read before the content
  came is written after it. `WriteBacksKeep` rests on what a handler carries from its read to its
  write (`Keeping`): the row it writes is the row it read, raised.
* `GroupCacheProofs`. `Truth` is `TypeOK` with what `VersionTruth` rests on: not only the rows,
  but every row that WhatsApp reported or that a call still has to write is true to its
  version, and every update that is sent is about a version that has a predecessor. Lemma
  `UpdateIsTrue` is the arithmetic of `ParticipantsMap`: join, leave, promote and demote, in
  this order, lead from the participants of one version to those of the next. `Sections` is
  about the shape of a worker's calls (nothing of the lock; about to lock; one unlock ahead):
  `LockFollowsCalls` follows from it.

  The other three properties are about who may write next to whom. `Discipline` adds to the two
  above: `Forms` (which calls may follow which: a setting directly before its row, what
  is reported before what is stale, the mark last, a refresh writes what it got), `Held` (who
  needs the lock is idle, waits for it or holds it), `Apart` and `Sure` (no conflict with a worker
  that is alone, none about a group that is sure). Together they give `Quiet`: next to a worker at
  work that is alone, or while any group is sure, all others are idle or wait for the lock.
  `RowsOnlyGrow` then needs `Bounded` (no row, report or event is ahead of WhatsApp) and `Ahead`
  (who is alone has no older row to write); `StoredBeforeDeleted` needs `Progress` (what a
  refresh does not owe any more is stored as reported).

  `StoredAsReported`, the theorem of `CacheInSync`, needs all of these and what is on its way.
  `QueueTrue`: each event, with those after it, leads to what WhatsApp has. `Snapshot`: what a
  worker got of WhatsApp is still so, or an event about it is due. `Follows(g, r, D)`: with row `r`
  and the updates `D` of other workers, the events lead to what WhatsApp has of `g`. `RowFollows`
  says so of the stored row, unless a worker is joining or leaving the group, and
  `OutcomesFollow` of every row that a worker may leave behind, so that each write only
  exchanges one such row for another. A setting kept for its timestamp counts as a call without
  effect, like one that failed (`StatementCases`): its group is unsure after it, and so is one that
  we left under @lid, about which nothing is claimed. `SettingsFollow`, `SettingsDone` and
  `PutsMatch` say the same of the ephemeral settings: as WhatsApp has them while nothing about
  them is on its way, as reported once a refresh has passed, and never behind the row that is written next. When nothing
  is due about a group, `Follows` has nothing left to wait for. None of this needs the lock to be
  free, so `CacheInSync` holds in the middle of a refresh as well.

  Theorems `TypeCorrect`, `RowsAreTrue`, `LockFollowsCalls`, `RowsOnlyGrow`,
  `StoredBeforeDeleted`, `StoredAsReported`. The groups are assumed to be finitely many.
* `MediaRetryProofs`. `OneReceiptInFlight` is inductive with the types. `BadAnswerIsForgotten` is
  not: it needs that an answer is gone by only after its handler has cached it (`OnlyCached`),
  which it does once, so that what was dropped cannot come back. Theorems `TypeCorrect`,
  `OneCallWaits`, `BadAnswersGo`.
* `ChatTablesProofs`. What the tables settle on is a statement about the jobs still pending.
  `TagInv`: unless a member is unsure, its row is WhatsApp's, or a pending job leads there,
  and every pending tag is WhatsApp's own or older, which also holds of a member that its next
  change makes sure again. `LabelInv`: the last pending job
  about a label's name, and the last about a chat of it, leave what WhatsApp wants; without one the
  row is right already. Since label jobs run in order, the last one is the last to be written;
  a deletion counts for the name and for every chat. `DeletionsFirst` says that only the first
  label job can be half done. Theorems `TypeCorrect`, `ChatsAreFreed`, `LabelsFollow`,
  `TagsFollow`. `NewerTimersStay`, about steps, needs that a deletion which has read a timer
  found it older than itself (`TimerInv`).
* `SendingProofs`. The operators come first. `NthExists`: the ordering of the participants by
  rank names each of them once, as a one-to-one ranking of a finite set is onto; then
  `BatchesOfSequences`: the batches cut from the participants, put together, are the participants.
  `ContextKept`: between `Prepare` and the answer, what a call holds is among the contents of its
  request. `StatusKept`: after `n` batches, those reached and those not are together exactly
  the participants of the first `n`, for any batch size and number of retries. `EchoKept`: at
  each line of a call, whether its message was accepted and whether it was echoed. Theorems
  `TypeCorrect`, `ContextCarried`, `StatusAccounted`, and `PromiseKept`: the initial state and
  every step of a call are those of `SendPromise`.

Left to TLC is liveness, which is out of the provers' reach as `ENABLED` is: `FullChannelDrains`,
`NothingLeftBehind`, `SendersNeverBlock`, `StreamsEnd`, `NobodyWaits`, `QueueIsWritten`,
`HandlersEnd`, `NackIsLearnt`, `CallsReturn`, and that a call ends, the rest of `KeepsPromise`.
Every invariant and every action property of the passing runs is proved.

## 5. Not modelled

* The QR reader and the NCT salt sync of `GoWS.Start`: they wait for the context and call
  WhatsApp. (The capping poller is `PollTick` of `LimitFetches`.)
* `handleSecretMessageEdit` (`gows/gows.go:91`) replaces the message of an event that the
  storage handler reads at the same time; votes, event responses and edits that arrive encrypted
  are decrypted and emitted, without state.
* Rows of other tables that the handlers of `MessageStore` write.
* Lists of messages, chats and contacts: they build SQL and change nothing.
* The RPCs of groups, contacts, labels and newsletters that ask WhatsApp once and convert; LID
  mapping (lookups in whatsmeow's own table); link previews, images, video and audio; migrations.
  None has state that is shared; see the notes in `PROJECT.json`.
* whatsmeow, WhatsApp, SQL engines and gRPC are external: an SQL statement is atomic and
  either done or failed, whatsmeow may call the handler at any time while it is connected.

## 6. Plan

Done: the lifecycle, the fan-out, the ack writer, the messages, the groups, the tables of chats,
sending with its limits, and media retry, each with its type invariant and its safety properties
proved.

Left:

1. The fan-out of one event: `reissueEvent` and `processEvent` share the event, which an
   edit replaces; composition of the session's channel with the listeners.
