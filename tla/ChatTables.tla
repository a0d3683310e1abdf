------------------------------ MODULE ChatTables ------------------------------
(***************************************************************************)
(* What a session stores about chats beside messages and groups: the tags    *)
(* of the members of a group (gows_group_member_labels), the labels of a     *)
(* business account with the chats they are on (gows_labels,                 *)
(* gows_label_associations) and the disappearing timers of user chats        *)
(* (gows_chat_ephemeral_settings).                                           *)
(*                                                                          *)
(* WhatsApp is external: it changes something and sends an event.  An event  *)
(* is a job, handled in a goroutine of its own (handleEvent), so that jobs   *)
(* run in any order and between each other's statements; only those about    *)
(* labels run within whatsmeow's dispatch, one after the other.  Calls of    *)
(* clients that change labels or a tag send the change to WhatsApp and store *)
(* nothing (server/labels.go, SetGroupMemberLabel): they are changes of      *)
(* WhatsApp.  One group stands for all: no statement touches two.            *)
(***************************************************************************)
EXTENDS Naturals, SequencesExt

CONSTANTS Members,    \* of one group
          Me,         \* of the members
          Texts,      \* what a tag says, or a label
          NoText,     \* a removed tag
          Labels,
          Chats,
          Users,      \* user chats, by phone number or @lid
          None,
          MaxTime,    \* seconds (a bound)
          MaxChanges  \* changes made by WhatsApp (a bound)

ASSUME TablesAssumption ==
    /\ Me \in Members
    /\ Members \cap Labels = {}
    /\ NoText \notin Texts
    /\ None \notin Texts \cup Nat
    /\ None \notin [text : Texts \cup {NoText}, at : Nat]
    /\ MaxTime \in Nat \ {0} /\ MaxChanges \in Nat

VARIABLES tags,      \* gows_group_member_labels: the row of a member
          labels,    \* gows_labels: the name of a label, None without a row
          on,        \* gows_label_associations: the chats a label is on
          timers,    \* gows_chat_ephemeral_settings: the timestamp of a chat's timer
          jobs,      \* events whose handler is not over, oldest first
          now,       \* external: the second it is
          changes,   \* external: the changes so far
          truth,     \* external: tags, labels and the chats they are on
          unsure,    \* history: members and labels whose rows may differ from WhatsApp's
          added      \* history: chats a label was put on since its row was deleted

tableVars == <<tags, labels, on, timers>>
externalVars == <<now, changes, truth>>
vars == <<tableVars, jobs, externalVars, unsure, added>>

Times == 1 .. MaxTime
Stamps == 0 .. MaxTime  \* of a timer; 0 where the message had none
Tags == [text : Texts \cup {NoText}, at : Times]
TagRows == [Members -> Tags \cup {None}]
LabelRows == [Labels -> Texts \cup {None}]
ChatSets == [Labels -> SUBSET Chats]

\* A handler with the rest of its work.
Tagging(rows)      == [kind |-> "tag", rows |-> rows]
Leaving(who)       == [kind |-> "left", who |-> who]
Naming(l, text)    == [kind |-> "label", label |-> l, text |-> text]
Deleting(l, stage) == [kind |-> "unlabel", label |-> l, stage |-> stage]
Putting(l, c, yes) == [kind |-> "chat", label |-> l, chat |-> c, yes |-> yes]
Timing(u, t)       == [kind |-> "timer", user |-> u, at |-> t]
Untiming(u, t)     == [kind |-> "untimer", user |-> u, before |-> t, stage |-> "read", read |-> None]

AboutLabels == {"label", "unlabel", "chat"}
Jobs ==
    {Tagging(rows) : rows \in TagRows} \cup {Leaving(who) : who \in SUBSET Members}
      \cup {Naming(l, text) : l \in Labels, text \in Texts}
      \cup {Deleting(l, stage) : l \in Labels, stage \in 1 .. 2}
      \cup {Putting(l, c, yes) : l \in Labels, c \in Chats, yes \in BOOLEAN}
      \cup {Timing(u, t) : u \in Users, t \in Stamps}
      \cup [kind : {"untimer"}, user : Users, before : Times \cup {None},
            stage : {"read", "delete"}, read : Stamps \cup {None}]

TypeOK ==
    /\ tags \in TagRows
    /\ labels \in LabelRows
    /\ on \in ChatSets
    /\ timers \in [Users -> Stamps \cup {None}]
    /\ jobs \in Seq(Jobs)
    /\ now \in Times
    /\ changes \in 0 .. MaxChanges
    /\ truth \in [tags : TagRows, labels : LabelRows, on : ChatSets]
    /\ unsure \subseteq Members \cup Labels
    /\ added \in ChatSets

Init ==
    /\ tags = [m \in Members |-> None]
    /\ labels = [l \in Labels |-> None]
    /\ on = [l \in Labels |-> {}]
    /\ timers = [u \in Users |-> None]
    /\ jobs = <<>>
    /\ now = 1
    /\ changes = 0
    /\ truth = [tags |-> tags, labels |-> labels, on |-> on]
    /\ unsure = {}
    /\ added = on

-----------------------------------------------------------------------------
(* WhatsApp *)

Pending == {jobs[i] : i \in DOMAIN jobs}
AboutTag(m) ==
    {j \in Pending : \/ j.kind = "tag" /\ j.rows[m] # None
                     \/ j.kind = "left" /\ m \in j.who}
AboutLabel(l) == {j \in Pending : j.kind \in AboutLabels /\ j.label = l}

Change(events) ==
    /\ changes < MaxChanges
    /\ changes' = changes + 1
    /\ jobs' = jobs \o events
    /\ UNCHANGED <<tableVars, now, added>>

One(m, row) == [n \in Members |-> IF n = m THEN row ELSE None]

\* A change of the tag now is the newest of all that is stored or on its way.
Outdated(m) == AboutTag(m) = {} /\ (tags[m] # None => tags[m].at < now)

\* A member changes or removes its tag; two changes within a second have no order.
TagChanges(m, text) ==
    LET row == [text |-> text, at |-> now]
    IN  /\ Change(<<Tagging(One(m, row))>>)
        /\ truth' = [truth EXCEPT !.tags[m] = row]
        /\ unsure' = IF Outdated(m) THEN unsure \ {m}
                     ELSE IF \/ \E j \in AboutTag(m) : j.kind = "left"
                             \/ truth.tags[m] # None /\ truth.tags[m].at = now
                     THEN unsure \cup {m} ELSE unsure

\* A history sync repeats the tags a group has.
HistoryOfGroup ==
    LET rows == [m \in Members |-> IF truth.tags[m] # None /\ truth.tags[m].text = NoText
                                   THEN None ELSE truth.tags[m]]
    IN  /\ Change(<<Tagging(rows)>>)
        /\ unsure' = unsure \cup {m \in Members : rows[m] # None /\ \E j \in AboutTag(m) : j.kind = "left"}
        /\ UNCHANGED truth

\* Who leaves the group has no tag in it any more; once I have left, nobody has.  A tag
\* that is still being handled may come back after that.
Leaves(m) ==
    LET who == IF m = Me THEN Members ELSE {m}
    IN  /\ Change(<<Leaving(who)>>)
        /\ truth' = [truth EXCEPT !.tags = [n \in Members |-> IF n \in who THEN None ELSE @[n]]]
        /\ unsure' = unsure \cup {n \in who : AboutTag(n) # {}}

\* I leave, listed under my @lid: handleMeLeftGroup, which compares with the phone number,
\* takes that for anybody's leave, and the tags of the others stay.
LeavesUnderLid ==
    /\ Change(<<Leaving({Me})>>)
    /\ truth' = [truth EXCEPT !.tags = [n \in Members |-> None]]
    /\ unsure' = unsure \cup (Members \ {Me}) \cup {n \in {Me} : AboutTag(n) # {}}

\* A label is named, or renamed.  In a full sync the chats it is on may come before it.
LabelEdited(l, text) ==
    /\ Change(<<Naming(l, text)>>)
    /\ truth' = [truth EXCEPT !.labels[l] = text]
    /\ UNCHANGED unsure

LabelSynced(l, text, c) ==
    /\ Change(<<Putting(l, c, TRUE), Naming(l, text)>>)
    /\ truth' = [truth EXCEPT !.labels[l] = text, !.on[l] = @ \cup {c}]
    /\ UNCHANGED unsure

LabelRemoved(l) ==
    /\ Change(<<Deleting(l, 1)>>)
    /\ truth' = [truth EXCEPT !.labels[l] = None, !.on[l] = {}]
    /\ UNCHANGED unsure

ChatLabelled(l, c, yes) ==
    /\ Change(<<Putting(l, c, yes)>>)
    /\ truth' = [truth EXCEPT !.on[l] = IF yes THEN @ \cup {c} ELSE @ \ {c}]
    /\ UNCHANGED unsure

\* A chat's timer as a protocol message, another message of the chat or history tell it:
\* set now or some time ago, or with no timestamp.
TimerTold(u, t) ==
    /\ t <= now
    /\ Change(<<Timing(u, t)>>)
    /\ UNCHANGED <<truth, unsure>>

\* The timer is switched off: before is the time of the handling (None).  Or the chat is
\* deleted: before is the time of that.
TimerDropped(u, before) ==
    /\ before \in {None, now}
    /\ Change(<<Untiming(u, before)>>)
    /\ UNCHANGED <<truth, unsure>>

Tick ==
    /\ now < MaxTime
    /\ now' = now + 1
    /\ UNCHANGED <<tableVars, jobs, changes, truth, unsure, added>>

-----------------------------------------------------------------------------
(* The handlers, one statement at a time *)

\* Mutant: every event gets a goroutine.
AnyOrder(i) == TRUE

\* handleEvent: what is about labels waits for whatever came before it.
InOrder(i) == jobs[i].kind \in AboutLabels => \A k \in 1 .. i - 1 : jobs[k].kind \notin AboutLabels

Runs(i, kind) == jobs[i].kind = kind /\ InOrder(i)
Return(i) == jobs' = RemoveAt(jobs, i)
Continue(i, job) == jobs' = [jobs EXCEPT ![i] = job]

\* Mutant: the last row to arrive wins.
Arrives(row, new) == TRUE

\* The upsert of GroupMemberLabelsTable: a row gives way to one that is not older.
Wins(row, new) == IF row = None THEN TRUE ELSE new.at >= row.at

UpsertGroupMemberLabels(i) ==
    /\ Runs(i, "tag")
    /\ tags' = [m \in Members |->
                  LET new == jobs[i].rows[m]
                  IN  IF new # None /\ Wins(tags[m], new) THEN new ELSE tags[m]]
    /\ Return(i)
    /\ UNCHANGED <<labels, on, timers, externalVars, unsure, added>>

\* handleMeLeftGroup: one statement for the group; handleGroupMembersLeft: one for each.
DeleteGroupMemberLabels(i) ==
    /\ Runs(i, "left")
    /\ tags' = [m \in Members |-> IF m \in jobs[i].who THEN None ELSE tags[m]]
    /\ Return(i)
    /\ UNCHANGED <<labels, on, timers, externalVars, unsure, added>>

UpsertLabel(i) ==
    /\ Runs(i, "label")
    /\ labels' = [labels EXCEPT ![jobs[i].label] = jobs[i].text]
    /\ Return(i)
    /\ UNCHANGED <<tags, on, timers, externalVars, unsure, added>>

AddOrRemoveAssociation(i) ==
    LET l == jobs[i].label
        c == jobs[i].chat
    IN  /\ Runs(i, "chat")
        /\ on' = [on EXCEPT ![l] = IF jobs[i].yes THEN @ \cup {c} ELSE @ \ {c}]
        /\ added' = [added EXCEPT ![l] = IF jobs[i].yes THEN @ \cup {c} ELSE @]
        /\ Return(i)
        /\ UNCHANGED <<tags, labels, timers, externalVars, unsure>>

\* Mutant: the label first, its chats after.
LabelFirst == <<"label", "chats">>

\* handleLabelEdit drops the chats of a deleted label, then the label.
Dropping == <<"chats", "label">>

DeletionGoesOn(i) ==
    IF jobs[i].stage = 1 THEN Continue(i, Deleting(jobs[i].label, 2)) ELSE Return(i)

RemoveAssociationsByLabelID(i) ==
    LET l == jobs[i].label
    IN  /\ Runs(i, "unlabel")
        /\ Dropping[jobs[i].stage] = "chats"
        /\ on' = [on EXCEPT ![l] = {}]
        /\ DeletionGoesOn(i)
        /\ UNCHANGED <<tags, labels, timers, externalVars, unsure, added>>

DeleteLabel(i) ==
    LET l == jobs[i].label
    IN  /\ Runs(i, "unlabel")
        /\ Dropping[jobs[i].stage] = "label"
        /\ labels' = [labels EXCEPT ![l] = None]
        /\ added' = [added EXCEPT ![l] = {}]
        /\ DeletionGoesOn(i)
        /\ UNCHANGED <<tags, on, timers, externalVars, unsure>>

UpdateTimer(i) ==
    /\ Runs(i, "timer")
    /\ timers' = [timers EXCEPT ![jobs[i].user] = jobs[i].at]
    /\ Return(i)
    /\ UNCHANGED <<tags, labels, on, externalVars, unsure, added>>

\* Mutant: the timestamps are not compared.
AnyAge(t, before) == TRUE

\* "Only delete if the setting is older than the delete event", or has no timestamp.
Older(t, before) == t < before

Before(i) == IF jobs[i].before = None THEN now ELSE jobs[i].before

ReadTimer(i) ==
    LET t == timers[jobs[i].user]
    IN  /\ Runs(i, "untimer")
        /\ jobs[i].stage = "read"
        /\ IF t # None /\ Older(t, Before(i))
           THEN Continue(i, [jobs[i] EXCEPT !.stage = "delete", !.before = Before(i), !.read = t])
           ELSE Return(i)
        /\ UNCHANGED <<tableVars, externalVars, unsure, added>>

DeleteTimer(i) ==
    /\ Runs(i, "untimer")
    /\ jobs[i].stage = "delete"
    /\ timers' = [timers EXCEPT ![jobs[i].user] = None]
    /\ Return(i)
    /\ UNCHANGED <<tags, labels, on, externalVars, unsure, added>>

Concerns(job) ==
    CASE job.kind = "tag" -> {m \in Members : job.rows[m] # None}
      [] job.kind = "left" -> job.who
      [] job.kind \in AboutLabels -> {job.label}
      [] OTHER -> {}

\* A statement fails: the handler logs that and returns.  Where it would go on with
\* another member, those are jobs of their own here.
StatementFails(i) ==
    /\ InOrder(i)
    /\ unsure' = unsure \cup Concerns(jobs[i])
    /\ Return(i)
    /\ UNCHANGED <<tableVars, externalVars, added>>

\* The process ends: handlers are lost, and whatsmeow does not send their events again.
Crash ==
    /\ jobs # <<>>
    /\ unsure' = unsure \cup UNION {Concerns(j) : j \in Pending}
    /\ jobs' = <<>>
    /\ UNCHANGED <<tableVars, externalVars, added>>

WhatsApp ==
    \/ \E m \in Members, text \in Texts \cup {NoText} : TagChanges(m, text)
    \/ \E m \in Members : Leaves(m)
    \/ LeavesUnderLid
    \/ HistoryOfGroup
    \/ \E l \in Labels, text \in Texts : LabelEdited(l, text)
    \/ \E l \in Labels, text \in Texts, c \in Chats : LabelSynced(l, text, c)
    \/ \E l \in Labels : LabelRemoved(l)
    \/ \E l \in Labels, c \in Chats, yes \in BOOLEAN : ChatLabelled(l, c, yes)
    \/ \E u \in Users, t \in Stamps : TimerTold(u, t)
    \/ \E u \in Users, before \in Times \cup {None} : TimerDropped(u, before)
    \/ Tick

Handler(i) ==
    \/ UpsertGroupMemberLabels(i) \/ DeleteGroupMemberLabels(i)
    \/ UpsertLabel(i) \/ AddOrRemoveAssociation(i)
    \/ RemoveAssociationsByLabelID(i) \/ DeleteLabel(i)
    \/ UpdateTimer(i) \/ ReadTimer(i) \/ DeleteTimer(i)
    \/ StatementFails(i)

Next == WhatsApp \/ (\E i \in DOMAIN jobs : Handler(i)) \/ Crash

Spec == Init /\ [][Next]_vars

-----------------------------------------------------------------------------
(* Properties *)

\* However live changes and history cross on their way to the table, once the events about
\* a member are handled its tag is the newest one, and a removed tag has not come back:
\* unless, since a change that found nothing else under way, a statement failed, the process
\* ended, the tag was changed twice within a second, the member left the group while its tag
\* was being handled, or I left it under my @lid.
TagsSettle ==
    \A m \in Members \ unsure : AboutTag(m) = {} => tags[m] = truth.tags[m]

\* Label events keep their order: once those about a label are handled, its row and the
\* chats it is on are WhatsApp's, whatever came first in the sync and however often a label
\* was deleted and made again; unless a statement failed or the process ended.
LabelsSettle ==
    \A l \in Labels \ unsure :
      AboutLabel(l) = {} => labels[l] = truth.labels[l] /\ on[l] = truth.on[l]

\* A label that is made again under the id of a deleted one is not on the old one's chats,
\* also when the deletion was cut short by a failing statement or a crash.
DeletedLabelFreesChats == \A l \in Labels : on[l] \subseteq added[l]

\* A deletion takes a timer that is as new as itself only when that was stored
\* between its two statements.
OnlyOlderTimersGo ==
    [][\A i \in DOMAIN jobs :
         DeleteTimer(i) =>
           LET t == timers[jobs[i].user]
           IN  t # None /\ t >= jobs[i].before => t # jobs[i].read]_vars
=============================================================================
