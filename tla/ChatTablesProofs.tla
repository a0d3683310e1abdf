-------------------------- MODULE ChatTablesProofs --------------------------
(***************************************************************************)
(* What ChatTables promises, for any members, labels, chats and users, any   *)
(* number of changes, and jobs that overlap in any way.                      *)
(***************************************************************************)
EXTENDS ChatTables, TLAPS

-----------------------------------------------------------------------------
(* Jobs come at the end and leave from anywhere. *)

LEMMA ArrivalsFollow ==
    ASSUME NEW S, NEW s \in Seq(S), NEW t \in Seq(S)
    PROVE  /\ s \o t \in Seq(S) /\ Len(s \o t) = Len(s) + Len(t)
           /\ \A k \in 1 .. Len(s) : (s \o t)[k] = s[k]
           /\ \A k \in Len(s) + 1 .. Len(s) + Len(t) : (s \o t)[k] = t[k - Len(s)]
OBVIOUS

LEMMA Pairs ==
    ASSUME NEW S, NEW a \in S, NEW b \in S
    PROVE  <<a, b>> \in Seq(S)
OBVIOUS

LEMMA RemovalShifts ==
    ASSUME NEW S, NEW s \in Seq(S), NEW i \in DOMAIN s
    PROVE  /\ RemoveAt(s, i) \in Seq(S)
           /\ Len(RemoveAt(s, i)) = Len(s) - 1
           /\ \A k \in 1 .. Len(s) - 1 : RemoveAt(s, i)[k] = IF k < i THEN s[k] ELSE s[k + 1]
<1>1. i \in 1 .. Len(s) /\ Len(s) \in Nat OBVIOUS
<1> DEFINE a == SubSeq(s, 1, i - 1)
           b == SubSeq(s, i + 1, Len(s))
<1>2. a \in Seq(S) /\ Len(a) = i - 1 /\ \A k \in 1 .. i - 1 : a[k] = s[k] BY <1>1
<1>3. b \in Seq(S) /\ Len(b) = Len(s) - i /\ \A k \in 1 .. Len(s) - i : b[k] = s[i + k] BY <1>1
<1>4. RemoveAt(s, i) = a \o b BY <1>1 DEF RemoveAt
<1> HIDE DEF a, b
<1>5. /\ a \o b \in Seq(S) /\ Len(a \o b) = Len(a) + Len(b)
      /\ \A k \in 1 .. Len(a) : (a \o b)[k] = a[k]
      /\ \A k \in Len(a) + 1 .. Len(a) + Len(b) : (a \o b)[k] = b[k - Len(a)]
  BY <1>2, <1>3, ArrivalsFollow
<1> DEFINE n == Len(s)  c == a \o b
<1> HIDE DEF n, c
<1>6. ASSUME NEW k \in 1 .. n - 1
      PROVE  c[k] = IF k < i THEN s[k] ELSE s[k + 1]
  <2>0. n \in Nat /\ i \in 1 .. n /\ Len(a) = i - 1 /\ Len(b) = n - i BY <1>1, <1>2, <1>3 DEF n
  <2>1. CASE k < i
    <3>1. k \in 1 .. Len(a) /\ k \in 1 .. i - 1 BY <2>0, <2>1
    <3> QED BY <1>2, <1>5, <2>1, <3>1 DEF c
  <2>2. CASE ~(k < i)
    <3>1. /\ k \in Len(a) + 1 .. Len(a) + Len(b) /\ k - Len(a) \in 1 .. n - i
          /\ i + (k - Len(a)) = k + 1
      BY SMTT(30), <2>0, <2>2
    <3>2. c[k] = b[k - Len(a)] BY <1>5, <3>1 DEF c
    <3>3. b[k - Len(a)] = s[i + (k - Len(a))] BY <1>3, <3>1 DEF n
    <3> QED BY <2>2, <3>1, <3>2, <3>3
  <2> QED BY <2>1, <2>2
<1>7. Len(a) + Len(b) = Len(s) - 1 BY <1>1, <1>2, <1>3
<1> QED BY <1>4, <1>5, <1>6, <1>7 DEF n, c

-----------------------------------------------------------------------------
(* Type correctness *)

LEMMA JobFields ==
    ASSUME NEW j \in Jobs
    PROVE  /\ j.kind \in {"tag", "left", "timer", "untimer"} \cup AboutLabels
           /\ j.kind = "tag" => j.rows \in TagRows
           /\ j.kind = "left" => j.who \subseteq Members
           /\ j.kind \in AboutLabels => j.label \in Labels
           /\ j.kind = "label" => j.text \in Texts
           /\ j.kind = "unlabel" => j.stage \in 1 .. 2
           /\ j.kind = "chat" => j.chat \in Chats /\ j.yes \in BOOLEAN
           /\ j.kind \in {"timer", "untimer"} => j.user \in Users
           /\ j.kind = "timer" => j.at \in Stamps
           /\ j.kind = "untimer" => j \in [kind : {"untimer"}, user : Users, before : Times \cup {None},
                                           stage : {"read", "delete"}, read : Stamps \cup {None}]
<1>1. CASE \E rows \in TagRows : j = Tagging(rows) BY <1>1 DEF Tagging, AboutLabels
<1>2. CASE \E who \in SUBSET Members : j = Leaving(who) BY <1>2 DEF Leaving, AboutLabels
<1>3. CASE \E l \in Labels, text \in Texts : j = Naming(l, text) BY <1>3 DEF Naming, AboutLabels
<1>4. CASE \E l \in Labels, stage \in 1 .. 2 : j = Deleting(l, stage) BY <1>4 DEF Deleting, AboutLabels
<1>5. CASE \E l \in Labels, c \in Chats, yes \in BOOLEAN : j = Putting(l, c, yes)
  BY <1>5 DEF Putting, AboutLabels
<1>6. CASE \E u \in Users, t \in Stamps : j = Timing(u, t) BY <1>6 DEF Timing, AboutLabels
<1>7. CASE j \in [kind : {"untimer"}, user : Users, before : Times \cup {None},
                  stage : {"read", "delete"}, read : Stamps \cup {None}]
  BY <1>7 DEF AboutLabels
<1> QED BY <1>1, <1>2, <1>3, <1>4, <1>5, <1>6, <1>7 DEF Jobs

\* The job at an index after the one at i has returned.
Old(i, k) == IF k < i THEN k ELSE k + 1

LEMMA ReturnShifts ==
    ASSUME TypeOK, NEW i \in DOMAIN jobs, Return(i)
    PROVE  /\ jobs' \in Seq(Jobs)
           /\ \A k \in DOMAIN jobs' : /\ jobs'[k] = jobs[Old(i, k)]
                                      /\ Old(i, k) \in DOMAIN jobs /\ Old(i, k) # i
           /\ \A k \in DOMAIN jobs \ {i} : \E n \in DOMAIN jobs' : Old(i, n) = k
<1>0. jobs \in Seq(Jobs) BY DEF TypeOK
<1> DEFINE n == Len(jobs)
<1>1. i \in 1 .. n /\ n \in Nat /\ DOMAIN jobs = 1 .. n BY <1>0
<1>2. /\ jobs' \in Seq(Jobs) /\ Len(jobs') = n - 1
      /\ \A k \in 1 .. n - 1 : jobs'[k] = jobs[Old(i, k)]
  BY <1>0, RemovalShifts DEF Return, Old
<1>3. DOMAIN jobs' = 1 .. n - 1 BY <1>1, <1>2
<1> HIDE DEF n
<1>4. \A k \in 1 .. n - 1 : Old(i, k) \in 1 .. n /\ Old(i, k) # i BY <1>1 DEF Old
<1>5. ASSUME NEW k \in 1 .. n, k # i PROVE \E e \in 1 .. n - 1 : Old(i, e) = k
  <2>1. CASE k < i
    <3>1. k \in 1 .. n - 1 /\ Old(i, k) = k BY <1>1, <2>1 DEF Old
    <3> QED BY <3>1
  <2>2. CASE ~(k < i)
    <3>1. k - 1 \in 1 .. n - 1 /\ Old(i, k - 1) = k BY <1>1, <1>5, <2>2 DEF Old
    <3> QED BY <3>1
  <2> QED BY <2>1, <2>2
<1> QED BY <1>1, <1>2, <1>3, <1>4, <1>5

LEMMA ContinueStays ==
    ASSUME TypeOK, NEW i \in DOMAIN jobs, NEW j \in Jobs, Continue(i, j)
    PROVE  /\ jobs' \in Seq(Jobs) /\ DOMAIN jobs' = DOMAIN jobs
           /\ jobs'[i] = j /\ \A k \in DOMAIN jobs \ {i} : jobs'[k] = jobs[k]
BY DEF TypeOK, Continue

LEMMA ChangeAppends ==
    ASSUME TypeOK, NEW events \in Seq(Jobs), Change(events)
    PROVE  /\ jobs' \in Seq(Jobs) /\ Len(jobs') = Len(jobs) + Len(events) /\ Len(jobs) \in Nat
           /\ DOMAIN jobs = 1 .. Len(jobs) /\ DOMAIN jobs' = 1 .. Len(jobs) + Len(events)
           /\ \A k \in DOMAIN jobs : jobs'[k] = jobs[k]
           /\ \A k \in Len(jobs) + 1 .. Len(jobs) + Len(events) : jobs'[k] = events[k - Len(jobs)]
<1>1. jobs \in Seq(Jobs) /\ jobs' = jobs \o events BY DEF TypeOK, Change
<1>2. Len(events) \in Nat /\ Len(jobs) \in Nat /\ DOMAIN jobs = 1 .. Len(jobs) BY <1>1
<1>3. jobs' \in Seq(Jobs) /\ Len(jobs') = Len(jobs) + Len(events) BY <1>1, ArrivalsFollow
<1> QED BY <1>1, <1>2, <1>3, ArrivalsFollow

LEMMA JobsAreJobs ==
    /\ \A rows \in TagRows : Tagging(rows) \in Jobs
    /\ \A who \in SUBSET Members : Leaving(who) \in Jobs
    /\ \A l \in Labels, text \in Texts : Naming(l, text) \in Jobs
    /\ \A l \in Labels, stage \in 1 .. 2 : Deleting(l, stage) \in Jobs
    /\ \A l \in Labels, c \in Chats, yes \in BOOLEAN : Putting(l, c, yes) \in Jobs
    /\ \A u \in Users, t \in Stamps : Timing(u, t) \in Jobs
    /\ \A u \in Users, t \in Times \cup {None} : Untiming(u, t) \in Jobs
BY DEF Jobs, Untiming

LEMMA TimesAreTimes ==
    TypeOK => now \in Times /\ now \in Stamps /\ now \in Nat
BY TablesAssumption DEF TypeOK, Times, Stamps

LEMMA WhatsAppKeepsType ==
    ASSUME TypeOK, WhatsApp
    PROVE  TypeOK'
<1> USE JobsAreJobs, TimesAreTimes
<1>1. ASSUME NEW events \in Seq(Jobs), Change(events),
             truth' \in [tags : TagRows, labels : LabelRows, on : ChatSets],
             unsure' \subseteq Members \cup Labels
      PROVE  TypeOK'
  <2>1. jobs' \in Seq(Jobs) BY <1>1, ChangeAppends
  <2>2. changes' \in 0 .. MaxChanges BY <1>1, TablesAssumption DEF Change, TypeOK
  <2> QED BY <1>1, <2>1, <2>2 DEF Change, TypeOK, tableVars
<1>2. ASSUME NEW m \in Members, NEW text \in Texts \cup {NoText}, TagChanges(m, text) PROVE TypeOK'
  <2> DEFINE row == [text |-> text, at |-> now]
  <2>1. row \in Tags BY DEF Tags
  <2>2. One(m, row) \in TagRows BY <2>1 DEF One, TagRows
  <2>3. Change(<<Tagging(One(m, row))>>) /\ <<Tagging(One(m, row))>> \in Seq(Jobs)
    BY <1>2, <2>2 DEF TagChanges
  <2>4. truth' \in [tags : TagRows, labels : LabelRows, on : ChatSets]
    BY <1>2, <2>1 DEF TagChanges, TypeOK, TagRows
  <2>5. unsure' \subseteq Members \cup Labels BY <1>2 DEF TagChanges, TypeOK
  <2> QED BY <1>1, <2>3, <2>4, <2>5
<1>3. ASSUME NEW m \in Members, Leaves(m) PROVE TypeOK'
  <2> DEFINE who == IF m = Me THEN Members ELSE {m}
  <2>1. Change(<<Leaving(who)>>) /\ <<Leaving(who)>> \in Seq(Jobs) /\ who \subseteq Members
    BY <1>3 DEF Leaves
  <2>2. truth' \in [tags : TagRows, labels : LabelRows, on : ChatSets]
    BY <1>3 DEF Leaves, TypeOK, TagRows
  <2>3. unsure' \subseteq Members \cup Labels BY <1>3, <2>1 DEF Leaves, TypeOK
  <2> QED BY <1>1, <2>1, <2>2, <2>3
<1>4. CASE HistoryOfGroup
  <2> DEFINE rows == [m \in Members |-> IF truth.tags[m] # None /\ truth.tags[m].text = NoText
                                        THEN None ELSE truth.tags[m]]
  <2>1. rows \in TagRows BY DEF TypeOK, TagRows
  <2>2. Change(<<Tagging(rows)>>) /\ <<Tagging(rows)>> \in Seq(Jobs)
    BY <1>4, <2>1 DEF HistoryOfGroup
  <2>3. truth' = truth /\ unsure' \subseteq Members \cup Labels BY <1>4 DEF HistoryOfGroup, TypeOK
  <2> QED BY <1>1, <2>2, <2>3 DEF TypeOK
<1>5. ASSUME NEW l \in Labels, NEW text \in Texts, LabelEdited(l, text) PROVE TypeOK'
  <2>1. Change(<<Naming(l, text)>>) /\ <<Naming(l, text)>> \in Seq(Jobs) BY <1>5 DEF LabelEdited
  <2>2. truth' \in [tags : TagRows, labels : LabelRows, on : ChatSets]
    BY <1>5 DEF LabelEdited, TypeOK, LabelRows
  <2> QED BY <1>1, <1>5, <2>1, <2>2 DEF LabelEdited, TypeOK
<1>6. ASSUME NEW l \in Labels, NEW text \in Texts, NEW c \in Chats, LabelSynced(l, text, c) PROVE TypeOK'
  <2>0. Putting(l, c, TRUE) \in Jobs /\ Naming(l, text) \in Jobs OBVIOUS
  <2> DEFINE events == <<Putting(l, c, TRUE), Naming(l, text)>>
  <2>3. events \in Seq(Jobs) BY <2>0, Pairs
  <2>1. Change(events) BY <1>6 DEF LabelSynced
  <2>2. truth' \in [tags : TagRows, labels : LabelRows, on : ChatSets]
    BY <1>6 DEF LabelSynced, TypeOK, LabelRows, ChatSets
  <2> HIDE DEF events
  <2> QED BY <1>1, <1>6, <2>1, <2>2, <2>3 DEF LabelSynced, TypeOK
<1>7. ASSUME NEW l \in Labels, LabelRemoved(l) PROVE TypeOK'
  <2>1. Change(<<Deleting(l, 1)>>) /\ <<Deleting(l, 1)>> \in Seq(Jobs) BY <1>7 DEF LabelRemoved
  <2>2. truth' \in [tags : TagRows, labels : LabelRows, on : ChatSets]
    BY <1>7 DEF LabelRemoved, TypeOK, LabelRows, ChatSets
  <2> QED BY <1>1, <1>7, <2>1, <2>2 DEF LabelRemoved, TypeOK
<1>8. ASSUME NEW l \in Labels, NEW c \in Chats, NEW yes \in BOOLEAN, ChatLabelled(l, c, yes) PROVE TypeOK'
  <2>1. Change(<<Putting(l, c, yes)>>) /\ <<Putting(l, c, yes)>> \in Seq(Jobs) BY <1>8 DEF ChatLabelled
  <2>2. truth' \in [tags : TagRows, labels : LabelRows, on : ChatSets]
    BY <1>8 DEF ChatLabelled, TypeOK, ChatSets
  <2> QED BY <1>1, <1>8, <2>1, <2>2 DEF ChatLabelled, TypeOK
<1>9. ASSUME NEW u \in Users, NEW t \in Stamps, TimerTold(u, t) PROVE TypeOK'
  <2>1. Change(<<Timing(u, t)>>) /\ <<Timing(u, t)>> \in Seq(Jobs) BY <1>9 DEF TimerTold
  <2> QED BY <1>1, <1>9, <2>1 DEF TimerTold, TypeOK
<1>10. ASSUME NEW u \in Users, NEW before \in Times \cup {None}, TimerDropped(u, before) PROVE TypeOK'
  <2>1. Change(<<Untiming(u, before)>>) /\ <<Untiming(u, before)>> \in Seq(Jobs)
    BY <1>10 DEF TimerDropped
  <2> QED BY <1>1, <1>10, <2>1 DEF TimerDropped, TypeOK
<1>11. CASE Tick BY <1>11, TablesAssumption DEF Tick, TypeOK, Times, tableVars
<1>12. CASE LeavesUnderLid
  <2>1. Change(<<Leaving({Me})>>) /\ <<Leaving({Me})>> \in Seq(Jobs)
    BY <1>12, TablesAssumption DEF LeavesUnderLid
  <2>2. truth' \in [tags : TagRows, labels : LabelRows, on : ChatSets]
    BY <1>12 DEF LeavesUnderLid, TypeOK, TagRows
  <2>3. unsure' \subseteq Members \cup Labels BY <1>12, TablesAssumption DEF LeavesUnderLid, TypeOK
  <2> QED BY <1>1, <2>1, <2>2, <2>3
<1> QED BY <1>2, <1>3, <1>4, <1>5, <1>6, <1>7, <1>8, <1>9, <1>10, <1>11, <1>12 DEF WhatsApp

\* A deletion of a timer that goes on with its second statement.
LEMMA ReadGoesOn ==
    ASSUME TypeOK, NEW i \in DOMAIN jobs, jobs[i].kind = "untimer"
    PROVE  LET next == [jobs[i] EXCEPT !.stage = "delete", !.before = Before(i), !.read = timers[jobs[i].user]]
           IN  next \in Jobs /\ next.kind = "untimer"
<1> DEFINE next == [jobs[i] EXCEPT !.stage = "delete", !.before = Before(i), !.read = timers[jobs[i].user]]
           Untimings == [kind : {"untimer"}, user : Users, before : Times \cup {None},
                         stage : {"read", "delete"}, read : Stamps \cup {None}]
<1>1. jobs[i] \in Jobs BY DEF TypeOK
<1>2. jobs[i] \in Untimings BY <1>1, JobFields
<1>3. timers[jobs[i].user] \in Stamps \cup {None} BY <1>2 DEF TypeOK
<1>4. Before(i) \in Times \cup {None} BY <1>2 DEF Before, TypeOK
<1>5. next \in Untimings BY <1>2, <1>3, <1>4
<1>6. next.kind = "untimer" BY <1>5
<1>7. next \in Jobs BY <1>5 DEF Jobs
<1> QED BY <1>6, <1>7

LEMMA HandlerKeepsType ==
    ASSUME TypeOK, NEW i \in DOMAIN jobs, Handler(i)
    PROVE  TypeOK'
<1> USE TimesAreTimes, TablesAssumption
<1>0. jobs[i] \in Jobs /\ jobs \in Seq(Jobs) BY DEF TypeOK
<1>1. CASE UpsertGroupMemberLabels(i)
  <2>1. jobs' \in Seq(Jobs) BY <1>1, ReturnShifts DEF UpsertGroupMemberLabels
  <2>2. jobs[i].rows \in TagRows BY <1>0, <1>1, JobFields DEF UpsertGroupMemberLabels, Runs
  <2>3. tags' \in TagRows BY <1>1, <2>2 DEF UpsertGroupMemberLabels, TypeOK, TagRows
  <2> QED BY <1>1, <2>1, <2>3 DEF UpsertGroupMemberLabels, TypeOK, externalVars
<1>2. CASE DeleteGroupMemberLabels(i)
  <2>1. jobs' \in Seq(Jobs) BY <1>2, ReturnShifts DEF DeleteGroupMemberLabels
  <2>2. tags' \in TagRows BY <1>2 DEF DeleteGroupMemberLabels, TypeOK, TagRows
  <2> QED BY <1>2, <2>1, <2>2 DEF DeleteGroupMemberLabels, TypeOK, externalVars
<1>3. CASE UpsertLabel(i)
  <2>1. jobs' \in Seq(Jobs) BY <1>3, ReturnShifts DEF UpsertLabel
  <2>2. jobs[i].text \in Texts BY <1>0, <1>3, JobFields DEF UpsertLabel, Runs
  <2>3. labels' \in LabelRows BY <1>3, <2>2 DEF UpsertLabel, TypeOK, LabelRows
  <2> QED BY <1>3, <2>1, <2>3 DEF UpsertLabel, TypeOK, externalVars
<1>4. CASE AddOrRemoveAssociation(i)
  <2>1. jobs' \in Seq(Jobs) BY <1>4, ReturnShifts DEF AddOrRemoveAssociation
  <2>2. jobs[i].chat \in Chats BY <1>0, <1>4, JobFields DEF AddOrRemoveAssociation, Runs
  <2>3. on' \in ChatSets /\ added' \in ChatSets
    BY ZenonT(40), <1>4, <2>2 DEF AddOrRemoveAssociation, TypeOK, ChatSets
  <2> QED BY <1>4, <2>1, <2>3 DEF AddOrRemoveAssociation, TypeOK, externalVars
<1>5. ASSUME Runs(i, "unlabel"), DeletionGoesOn(i) PROVE jobs' \in Seq(Jobs)
  <2>1. Deleting(jobs[i].label, 2) \in Jobs
    BY <1>0, <1>5, JobFields, JobsAreJobs DEF Runs, AboutLabels
  <2>2. CASE Continue(i, Deleting(jobs[i].label, 2)) BY <2>1, <2>2, ContinueStays
  <2>3. CASE Return(i) BY <2>3, ReturnShifts
  <2> QED BY <1>5, <2>2, <2>3 DEF DeletionGoesOn
<1>6. CASE RemoveAssociationsByLabelID(i)
  <2>1. jobs' \in Seq(Jobs) BY <1>5, <1>6 DEF RemoveAssociationsByLabelID
  <2>2. on' \in ChatSets BY <1>6 DEF RemoveAssociationsByLabelID, TypeOK, ChatSets
  <2> QED BY <1>6, <2>1, <2>2 DEF RemoveAssociationsByLabelID, TypeOK, externalVars
<1>7. CASE DeleteLabel(i)
  <2>1. jobs' \in Seq(Jobs) BY <1>5, <1>7 DEF DeleteLabel
  <2>2. labels' \in LabelRows /\ added' \in ChatSets
    BY <1>7 DEF DeleteLabel, TypeOK, ChatSets, LabelRows
  <2> QED BY <1>7, <2>1, <2>2 DEF DeleteLabel, TypeOK, externalVars
<1>8. CASE UpdateTimer(i)
  <2>1. jobs' \in Seq(Jobs) BY <1>8, ReturnShifts DEF UpdateTimer
  <2>2. jobs[i].at \in Stamps BY <1>0, <1>8, JobFields DEF UpdateTimer, Runs
  <2>3. timers' \in [Users -> Stamps \cup {None}] BY <1>8, <2>2 DEF UpdateTimer, TypeOK
  <2> QED BY <1>8, <2>1, <2>3 DEF UpdateTimer, TypeOK, externalVars
<1>9. CASE ReadTimer(i)
  <2> DEFINE next == [jobs[i] EXCEPT !.stage = "delete", !.before = Before(i), !.read = timers[jobs[i].user]]
  <2>6. next \in Jobs BY <1>9, ReadGoesOn DEF ReadTimer, Runs
  <2>5. jobs' \in Seq(Jobs)
    <3>1. CASE Continue(i, next) BY <2>6, <3>1, ContinueStays
    <3>2. CASE Return(i) BY <3>2, ReturnShifts
    <3> QED BY <1>9, <3>1, <3>2 DEF ReadTimer
  <2> QED BY <1>9, <2>5 DEF ReadTimer, TypeOK, externalVars, tableVars
<1>10. CASE DeleteTimer(i)
  <2>1. jobs' \in Seq(Jobs) BY <1>10, ReturnShifts DEF DeleteTimer
  <2>2. timers' \in [Users -> Stamps \cup {None}] BY <1>10 DEF DeleteTimer, TypeOK
  <2> QED BY <1>10, <2>1, <2>2 DEF DeleteTimer, TypeOK, externalVars
<1>11. CASE StatementFails(i)
  <2>1. jobs' \in Seq(Jobs) BY <1>11, ReturnShifts DEF StatementFails
  <2>2. Concerns(jobs[i]) \subseteq Members \cup Labels
    BY <1>0, JobFields DEF Concerns, AboutLabels
  <2> QED BY <1>11, <2>1, <2>2 DEF StatementFails, TypeOK, externalVars, tableVars
<1> QED BY <1>1, <1>2, <1>3, <1>4, <1>6, <1>7, <1>8, <1>9, <1>10, <1>11 DEF Handler

LEMMA InitType == Init => TypeOK
<1> SUFFICES ASSUME Init PROVE TypeOK OBVIOUS
<1>1. tags \in TagRows /\ labels \in LabelRows /\ on \in ChatSets /\ added \in ChatSets
  BY DEF Init, TagRows, LabelRows, ChatSets
<1>2. truth \in [tags : TagRows, labels : LabelRows, on : ChatSets] BY <1>1 DEF Init
<1> QED BY <1>1, <1>2, TablesAssumption DEF Init, TypeOK, Times

LEMMA NextType ==
    ASSUME TypeOK, [Next]_vars
    PROVE  TypeOK'
<1>1. CASE WhatsApp BY <1>1, WhatsAppKeepsType
<1>2. ASSUME NEW i \in DOMAIN jobs, Handler(i) PROVE TypeOK' BY <1>2, HandlerKeepsType
<1>3. CASE Crash
  <2>0. Pending \subseteq Jobs BY DEF Pending, TypeOK
  <2>1. \A j \in Pending : Concerns(j) \subseteq Members \cup Labels
    BY <2>0, JobFields DEF Concerns, AboutLabels
  <2> QED BY <1>3, <2>1 DEF Crash, TypeOK, externalVars, tableVars
<1>4. CASE UNCHANGED vars BY <1>4 DEF TypeOK, vars, tableVars, externalVars
<1> QED BY <1>1, <1>2, <1>3, <1>4 DEF Next

\* Every variable keeps its type, whatever WhatsApp sends and wherever a handler fails.
THEOREM TypeCorrect == Spec => []TypeOK
BY InitType, NextType, PTL DEF Spec

-----------------------------------------------------------------------------
(* Labels: the last word about a row is the one it ends with *)

\* The last job of S that is pending leaves what is wanted; the row is that without one.
Settled(js, S, out, row, want) ==
    /\ \A i \in DOMAIN js :
         js[i] \in S => out[js[i]] = want \/ \E k \in DOMAIN js : k > i /\ js[k] \in S
    /\ (\A i \in DOMAIN js : js[i] \notin S) => row = want

LEMMA ChangeSettles ==
    ASSUME TypeOK, NEW events \in Seq(Jobs), Change(events),
           NEW S, NEW out, NEW row, NEW want, NEW wanted,
           Settled(jobs, S, out, row, want),
           \/ wanted = want /\ \A e \in 1 .. Len(events) : events[e] \notin S
           \/ \E e \in 1 .. Len(events) : /\ events[e] \in S /\ out[events[e]] = wanted
                                          /\ \A f \in 1 .. Len(events) : f > e => events[f] \notin S
    PROVE  Settled(jobs', S, out, row, wanted)
<1> DEFINE n == Len(jobs)  m == Len(events)
<1>1. /\ n \in Nat /\ DOMAIN jobs = 1 .. n /\ DOMAIN jobs' = 1 .. n + m
      /\ \A k \in 1 .. n : jobs'[k] = jobs[k]
      /\ \A k \in n + 1 .. n + m : jobs'[k] = events[k - n]
  BY ChangeAppends
<1>2. m \in Nat OBVIOUS
<1> HIDE DEF n
<1>3. CASE wanted = want /\ \A e \in 1 .. m : events[e] \notin S
  <2>1. \A k \in n + 1 .. n + m : jobs'[k] \notin S
    <3>1. \A k \in n + 1 .. n + m : k - n \in 1 .. m BY <1>1, <1>2
    <3> QED BY <1>1, <1>3, <3>1
  <2>2. \A k \in 1 .. n + m : k \in 1 .. n \/ k \in n + 1 .. n + m BY <1>1, <1>2
  <2>3. 1 .. n \subseteq 1 .. n + m BY <1>1, <1>2
  <2> QED BY <1>1, <1>3, <2>1, <2>2, <2>3 DEF Settled
<1>4. ASSUME NEW e \in 1 .. m, events[e] \in S, out[events[e]] = wanted,
             \A f \in 1 .. m : f > e => events[f] \notin S
      PROVE  Settled(jobs', S, out, row, wanted)
  <2>1. n + e \in n + 1 .. n + m /\ n + e \in 1 .. n + m /\ (n + e) - n = e BY <1>1, <1>2
  <2>2. jobs'[n + e] = events[e] BY <1>1, <2>1
  <2>3. ASSUME NEW i \in 1 .. n + m, jobs'[i] \in S
        PROVE  out[jobs'[i]] = wanted \/ \E k \in 1 .. n + m : k > i /\ jobs'[k] \in S
    <3>1. CASE i < n + e BY <1>4, <2>1, <2>2, <3>1
    <3>2. CASE i = n + e BY <1>4, <2>2, <3>2
    <3>3. CASE i > n + e
      <4>1. i \in n + 1 .. n + m /\ i - n \in 1 .. m /\ i - n > e BY <1>1, <1>2, <3>3
      <4> QED BY <1>1, <1>4, <2>3, <4>1
    <3> QED BY <1>1, <1>2, <3>1, <3>2, <3>3
  <2> QED BY <1>1, <1>4, <2>1, <2>2, <2>3 DEF Settled
<1> QED BY <1>3, <1>4

\* A job of S that runs comes before the others, and leaves what it says.
LEMMA ReturnSettles ==
    ASSUME TypeOK, NEW i \in DOMAIN jobs, Return(i),
           NEW S, NEW out, NEW row, NEW left, NEW want,
           Settled(jobs, S, out, row, want),
           \/ jobs[i] \notin S /\ left = row
           \/ /\ jobs[i] \in S /\ left = out[jobs[i]]
              /\ \A k \in DOMAIN jobs : k < i => jobs[k] \notin S
    PROVE  Settled(jobs', S, out, left, want)
<1> USE DEF Settled
<1>1. /\ \A k \in DOMAIN jobs' : /\ jobs'[k] = jobs[Old(i, k)]
                                 /\ Old(i, k) \in DOMAIN jobs /\ Old(i, k) # i
      /\ \A k \in DOMAIN jobs \ {i} : \E n \in DOMAIN jobs' : Old(i, n) = k
  BY ReturnShifts
<1>0. /\ DOMAIN jobs \subseteq Nat /\ DOMAIN jobs' \subseteq Nat
  <2>1. jobs \in Seq(Jobs) /\ jobs' \in Seq(Jobs) BY ReturnShifts DEF TypeOK
  <2> QED BY <2>1
<1>2. ASSUME NEW k \in DOMAIN jobs', NEW n \in DOMAIN jobs', Old(i, k) < Old(i, n)
      PROVE  k < n
  BY <1>0, <1>2 DEF Old
<1>3. ASSUME NEW k \in DOMAIN jobs', jobs'[k] \in S
      PROVE  out[jobs'[k]] = want \/ \E n \in DOMAIN jobs' : n > k /\ jobs'[n] \in S
  <2>1. Old(i, k) \in DOMAIN jobs /\ jobs[Old(i, k)] \in S /\ jobs'[k] = jobs[Old(i, k)]
    BY <1>1, <1>3
  <2>2. CASE out[jobs[Old(i, k)]] = want BY <2>1, <2>2
  <2>3. ASSUME NEW o \in DOMAIN jobs, o > Old(i, k), jobs[o] \in S
        PROVE  \E n \in DOMAIN jobs' : n > k /\ jobs'[n] \in S
    <3>1. o # i BY <1>0, <2>1, <2>3
    <3>2. PICK n \in DOMAIN jobs' : Old(i, n) = o BY <1>1, <3>1
    <3>3. n > k /\ jobs'[n] = jobs[o] BY <1>0, <1>1, <1>2, <2>3, <3>2
    <3> QED BY <2>3, <3>3
  <2> QED BY <2>1, <2>2, <2>3
<1>4. ASSUME \A k \in DOMAIN jobs' : jobs'[k] \notin S PROVE left = want
  <2>1. \A k \in DOMAIN jobs : k # i => jobs[k] \notin S BY <1>1, <1>4
  <2>2. CASE jobs[i] \notin S /\ left = row BY <2>1, <2>2
  <2>3. CASE jobs[i] \in S /\ left = out[jobs[i]]
    <3>1. ~ \E k \in DOMAIN jobs : k > i /\ jobs[k] \in S BY <1>0, <2>1
    <3> QED BY <2>3, <3>1
  <2> QED BY <2>2, <2>3
<1> QED BY <1>3, <1>4

LEMMA ContinueSettles ==
    ASSUME TypeOK, NEW i \in DOMAIN jobs, NEW j \in Jobs, Continue(i, j),
           NEW S, NEW out, NEW row, NEW left, NEW want,
           Settled(jobs, S, out, row, want),
           \/ jobs[i] \notin S /\ j \notin S /\ left = row
           \/ jobs[i] \in S /\ j \in S /\ out[j] = out[jobs[i]]
    PROVE  Settled(jobs', S, out, left, want)
BY ContinueStays DEF Settled

Namings(l) == {j \in Jobs : j.kind \in {"label", "unlabel"} /\ j.label = l}
NameSaid == [j \in Jobs |-> IF j.kind = "label" THEN j.text ELSE None]

Placings(l, c) ==
    {j \in Jobs : \/ j.kind = "unlabel" /\ j.label = l
                  \/ j.kind = "chat" /\ j.label = l /\ j.chat = c}
PlaceSaid == [j \in Jobs |-> IF j.kind = "chat" THEN j.yes ELSE FALSE]

NamesSettled(js, rows, want, out) ==
    \A l \in Labels \ out : Settled(js, Namings(l), NameSaid, rows[l], want[l])
PlacesSettled(js, chats, want, out) ==
    \A l \in Labels \ out : \A c \in Chats :
      Settled(js, Placings(l, c), PlaceSaid, c \in chats[l], c \in want[l])

\* A deletion between its statements is the first job about labels, its label on no chat.
DeletionsFirst ==
    \A i \in DOMAIN jobs :
      jobs[i].kind = "unlabel" /\ jobs[i].stage = 2 =>
        /\ on[jobs[i].label] = {}
        /\ \A k \in 1 .. i - 1 : jobs[k].kind \notin AboutLabels

LabelInv ==
    /\ NamesSettled(jobs, labels, truth.labels, unsure)
    /\ PlacesSettled(jobs, on, truth.on, unsure)
    /\ DeletionsFirst
    /\ DeletedLabelFreesChats

LEMMA InitLabels == Init => LabelInv
<1> SUFFICES ASSUME Init PROVE LabelInv OBVIOUS
<1>1. DOMAIN jobs = {} BY DEF Init
<1>2. NamesSettled(jobs, labels, truth.labels, unsure)
  BY <1>1 DEF Init, NamesSettled, Settled
<1>3. PlacesSettled(jobs, on, truth.on, unsure)
  BY <1>1 DEF Init, PlacesSettled, Settled
<1> QED BY <1>1, <1>2, <1>3 DEF Init, LabelInv, DeletionsFirst, DeletedLabelFreesChats

\* WhatsApp's changes leave the rows alone, and the first statement of a deletion to its handler.
LEMMA ChangeKeepsDeletions ==
    ASSUME TypeOK, LabelInv, NEW events \in Seq(Jobs), Change(events),
           \A e \in 1 .. Len(events) : events[e].kind = "unlabel" => events[e].stage = 1
    PROVE  DeletionsFirst' /\ DeletedLabelFreesChats'
<1> DEFINE n == Len(jobs)  m == Len(events)
<1>1. /\ n \in Nat /\ m \in Nat /\ DOMAIN jobs = 1 .. n /\ DOMAIN jobs' = 1 .. n + m
      /\ \A k \in 1 .. n : jobs'[k] = jobs[k]
      /\ \A k \in n + 1 .. n + m : jobs'[k] = events[k - n]
  BY ChangeAppends
<1>2. on' = on /\ added' = added BY DEF Change, tableVars
<1> HIDE DEF n, m
<1>3. ASSUME NEW i \in DOMAIN jobs', jobs'[i].kind = "unlabel", jobs'[i].stage = 2
      PROVE  /\ on'[jobs'[i].label] = {}
             /\ \A k \in 1 .. i - 1 : jobs'[k].kind \notin AboutLabels
  <2>1. CASE i \in 1 .. n
    <3>1. \A k \in 1 .. i - 1 : k \in 1 .. n BY <1>1, <2>1
    <3> QED BY <1>1, <1>2, <1>3, <2>1, <3>1 DEF LabelInv, DeletionsFirst
  <2>2. CASE i \notin 1 .. n
    <3>1. i \in n + 1 .. n + m /\ i - n \in 1 .. m BY <1>1, <2>2
    <3> QED BY <1>1, <1>3, <3>1 DEF m
  <2> QED BY <2>1, <2>2
<1> QED BY <1>2, <1>3 DEF DeletionsFirst, DeletedLabelFreesChats, LabelInv

\* What is not about labels says nothing about them.
LEMMA OtherChangesSettle ==
    ASSUME TypeOK, LabelInv, NEW events \in Seq(Jobs), Change(events),
           \A e \in 1 .. Len(events) : events[e].kind \notin AboutLabels,
           truth'.labels = truth.labels, truth'.on = truth.on, unsure \cap Labels \subseteq unsure'
    PROVE  LabelInv'
<1>1. labels' = labels /\ on' = on BY DEF Change, tableVars
<1>2. ASSUME NEW l \in Labels \ unsure'
      PROVE  Settled(jobs', Namings(l), NameSaid, labels'[l], truth'.labels[l])
  <2>1. Settled(jobs, Namings(l), NameSaid, labels[l], truth.labels[l])
    BY DEF LabelInv, NamesSettled
  <2>2. \A e \in 1 .. Len(events) : events[e] \notin Namings(l) BY DEF Namings, AboutLabels
  <2> QED BY <1>1, <2>1, <2>2, ChangeSettles
<1>3. ASSUME NEW l \in Labels \ unsure', NEW c \in Chats
      PROVE  Settled(jobs', Placings(l, c), PlaceSaid, c \in on'[l], c \in truth'.on[l])
  <2>1. Settled(jobs, Placings(l, c), PlaceSaid, c \in on[l], c \in truth.on[l])
    BY DEF LabelInv, PlacesSettled
  <2>2. \A e \in 1 .. Len(events) : events[e] \notin Placings(l, c) BY DEF Placings, AboutLabels
  <2> QED BY <1>1, <2>1, <2>2, ChangeSettles
<1>4. DeletionsFirst' /\ DeletedLabelFreesChats' BY ChangeKeepsDeletions DEF AboutLabels
<1> QED BY <1>2, <1>3, <1>4 DEF LabelInv, NamesSettled, PlacesSettled

\* What a change of one label has to say for the rows to settle on it.
LEMMA LabelChangeSettles ==
    ASSUME TypeOK, LabelInv, NEW events \in Seq(Jobs), Change(events), unsure' = unsure,
           \A e \in 1 .. Len(events) : events[e].kind = "unlabel" => events[e].stage = 1,
           \A k \in Labels \ unsure :
             \/ /\ truth'.labels[k] = truth.labels[k]
                /\ \A e \in 1 .. Len(events) : events[e] \notin Namings(k)
             \/ \E e \in 1 .. Len(events) :
                  /\ events[e] \in Namings(k) /\ NameSaid[events[e]] = truth'.labels[k]
                  /\ \A f \in 1 .. Len(events) : f > e => events[f] \notin Namings(k),
           \A k \in Labels \ unsure, c \in Chats :
             \/ /\ (c \in truth'.on[k]) = (c \in truth.on[k])
                /\ \A e \in 1 .. Len(events) : events[e] \notin Placings(k, c)
             \/ \E e \in 1 .. Len(events) :
                  /\ events[e] \in Placings(k, c) /\ PlaceSaid[events[e]] = (c \in truth'.on[k])
                  /\ \A f \in 1 .. Len(events) : f > e => events[f] \notin Placings(k, c)
    PROVE  LabelInv'
<1>1. labels' = labels /\ on' = on BY DEF Change, tableVars
<1>2. ASSUME NEW k \in Labels \ unsure'
      PROVE  Settled(jobs', Namings(k), NameSaid, labels'[k], truth'.labels[k])
  <2>1. Settled(jobs, Namings(k), NameSaid, labels[k], truth.labels[k])
    BY DEF LabelInv, NamesSettled
  <2> QED BY <1>1, <2>1, ChangeSettles
<1>3. ASSUME NEW k \in Labels \ unsure', NEW c \in Chats
      PROVE  Settled(jobs', Placings(k, c), PlaceSaid, c \in on'[k], c \in truth'.on[k])
  <2>1. Settled(jobs, Placings(k, c), PlaceSaid, c \in on[k], c \in truth.on[k])
    BY DEF LabelInv, PlacesSettled
  <2> QED BY SMTT(30), <1>1, <2>1, ChangeSettles
<1>4. DeletionsFirst' /\ DeletedLabelFreesChats' BY ChangeKeepsDeletions
<1> QED BY <1>2, <1>3, <1>4 DEF LabelInv, NamesSettled, PlacesSettled

LEMMA WhatsAppKeepsLabels ==
    ASSUME TypeOK, LabelInv, WhatsApp
    PROVE  LabelInv'
<1> USE JobsAreJobs
<1>0. truth \in [tags : TagRows, labels : LabelRows, on : ChatSets] BY DEF TypeOK
<1>1. ASSUME NEW m \in Members, NEW text \in Texts \cup {NoText}, TagChanges(m, text) PROVE LabelInv'
  <2> DEFINE row == [text |-> text, at |-> now]  events == <<Tagging(One(m, row))>>
  <2>1. One(m, row) \in TagRows BY TimesAreTimes DEF Tags, One, TagRows
  <2>2. events \in Seq(Jobs) /\ Change(events) BY <1>1, <2>1 DEF TagChanges
  <2>3. \A e \in 1 .. Len(events) : events[e].kind \notin AboutLabels BY DEF Tagging, AboutLabels
  <2>4. truth'.labels = truth.labels /\ truth'.on = truth.on /\ unsure \cap Labels \subseteq unsure'
    BY <1>0, <1>1, TablesAssumption DEF TagChanges
  <2> QED BY <2>2, <2>3, <2>4, OtherChangesSettle
<1>2. ASSUME NEW m \in Members, Leaves(m) PROVE LabelInv'
  <2> DEFINE who == IF m = Me THEN Members ELSE {m}  events == <<Leaving(who)>>
  <2>1. events \in Seq(Jobs) /\ Change(events) BY <1>2 DEF Leaves
  <2>2. \A e \in 1 .. Len(events) : events[e].kind \notin AboutLabels BY DEF Leaving, AboutLabels
  <2>3. truth'.labels = truth.labels /\ truth'.on = truth.on /\ unsure \subseteq unsure'
    BY <1>0, <1>2 DEF Leaves
  <2> QED BY <2>1, <2>2, <2>3, OtherChangesSettle
<1>3. CASE HistoryOfGroup
  <2> DEFINE rows == [m \in Members |-> IF truth.tags[m] # None /\ truth.tags[m].text = NoText
                                        THEN None ELSE truth.tags[m]]
             events == <<Tagging(rows)>>
  <2>1. rows \in TagRows BY <1>0 DEF TagRows
  <2>2. events \in Seq(Jobs) /\ Change(events) BY <1>3, <2>1 DEF HistoryOfGroup
  <2>3. \A e \in 1 .. Len(events) : events[e].kind \notin AboutLabels BY DEF Tagging, AboutLabels
  <2>4. truth' = truth /\ unsure \subseteq unsure' BY <1>3 DEF HistoryOfGroup
  <2> QED BY <2>2, <2>3, <2>4, OtherChangesSettle
<1>4. ASSUME NEW u \in Users, NEW t \in Stamps, TimerTold(u, t) PROVE LabelInv'
  <2> DEFINE events == <<Timing(u, t)>>
  <2>1. events \in Seq(Jobs) /\ Change(events) BY <1>4 DEF TimerTold
  <2>2. \A e \in 1 .. Len(events) : events[e].kind \notin AboutLabels BY DEF Timing, AboutLabels
  <2>3. truth' = truth /\ unsure' = unsure BY <1>4 DEF TimerTold
  <2> QED BY <2>1, <2>2, <2>3, OtherChangesSettle
<1>5. ASSUME NEW u \in Users, NEW before \in Times \cup {None}, TimerDropped(u, before) PROVE LabelInv'
  <2> DEFINE events == <<Untiming(u, before)>>
  <2>1. events \in Seq(Jobs) /\ Change(events) BY <1>5 DEF TimerDropped
  <2>2. \A e \in 1 .. Len(events) : events[e].kind \notin AboutLabels BY DEF Untiming, AboutLabels
  <2>3. truth' = truth /\ unsure' = unsure BY <1>5 DEF TimerDropped
  <2> QED BY <2>1, <2>2, <2>3, OtherChangesSettle
<1>6. CASE Tick
  BY <1>6 DEF Tick, LabelInv, NamesSettled, PlacesSettled, DeletionsFirst, DeletedLabelFreesChats, tableVars
<1>7. ASSUME NEW l \in Labels, NEW text \in Texts, LabelEdited(l, text) PROVE LabelInv'
  <2> DEFINE j == Naming(l, text)  events == <<j>>
  <2>0. truth' = [truth EXCEPT !.labels[l] = text] /\ unsure' = unsure BY <1>7 DEF LabelEdited
  <2>1. events \in Seq(Jobs) /\ Change(events) /\ Len(events) = 1 BY <1>7 DEF LabelEdited
  <2>2. j \in Jobs /\ j.kind = "label" /\ j.label = l /\ j.text = text BY DEF Naming
  <2>3. \A k \in Labels : (j \in Namings(k)) = (k = l) BY <2>2 DEF Namings
  <2>4. NameSaid[j] = text BY <2>2 DEF NameSaid
  <2>5. \A k \in Labels, c \in Chats : j \notin Placings(k, c) BY <2>2 DEF Placings
  <2>6. /\ truth'.on = truth.on /\ truth'.labels[l] = text
        /\ \A k \in Labels \ {l} : truth'.labels[k] = truth.labels[k]
    BY <1>0, <2>0 DEF LabelRows
  <2>7. \A e \in 1 .. Len(events) : e = 1 /\ events[e] = j BY <2>1
  <2> HIDE DEF j, events
  <2>8. \A k \in Labels \ unsure :
          \/ /\ truth'.labels[k] = truth.labels[k]
             /\ \A e \in 1 .. Len(events) : events[e] \notin Namings(k)
          \/ \E e \in 1 .. Len(events) :
               /\ events[e] \in Namings(k) /\ NameSaid[events[e]] = truth'.labels[k]
               /\ \A f \in 1 .. Len(events) : f > e => events[f] \notin Namings(k)
    BY <2>1, <2>3, <2>4, <2>6, <2>7
  <2> QED BY SMTT(30), <2>0, <2>1, <2>2, <2>5, <2>6, <2>7, <2>8, LabelChangeSettles
<1>8. ASSUME NEW l \in Labels, NEW text \in Texts, NEW d \in Chats, LabelSynced(l, text, d) PROVE LabelInv'
  <2> DEFINE i == Putting(l, d, TRUE)  j == Naming(l, text)  events == <<i, j>>
  <2>0. /\ truth' = [truth EXCEPT !.labels[l] = text, !.on[l] = @ \cup {d}]
        /\ unsure' = unsure
    BY <1>8 DEF LabelSynced
  <2>1. i \in Jobs /\ i.kind = "chat" /\ i.label = l /\ i.chat = d /\ i.yes = TRUE
    <3>1. TRUE \in BOOLEAN OBVIOUS
    <3>2. i \in Jobs BY <3>1
    <3> QED BY <3>2 DEF Putting
  <2>2. j \in Jobs /\ j.kind = "label" /\ j.label = l /\ j.text = text BY DEF Naming
  <2>3. Change(events) BY <1>8 DEF LabelSynced
  <2>4. events \in Seq(Jobs) BY <2>1, <2>2, Pairs
  <2>5. Len(events) = 2 /\ events[1] = i /\ events[2] = j OBVIOUS
  <2> HIDE DEF i, j, events
  <2>6. \A e \in 1 .. Len(events) : e \in 1 .. 2 /\ (e = 1 \/ e = 2) BY <2>5
  <2>7. \A k \in Labels : i \notin Namings(k) /\ ((j \in Namings(k)) = (k = l))
    BY <2>1, <2>2 DEF Namings
  <2>8. \A k \in Labels, c \in Chats :
          j \notin Placings(k, c) /\ ((i \in Placings(k, c)) = (k = l /\ c = d))
    BY <2>1, <2>2 DEF Placings
  <2>9. NameSaid[j] = text /\ PlaceSaid[i] = TRUE BY <2>1, <2>2 DEF NameSaid, PlaceSaid
  <2>10. /\ truth'.labels[l] = text /\ truth'.on[l] = truth.on[l] \cup {d}
         /\ \A k \in Labels \ {l} : truth'.labels[k] = truth.labels[k] /\ truth'.on[k] = truth.on[k]
    BY <1>0, <2>0 DEF LabelRows, ChatSets
  <2>11. \A k \in Labels \ unsure :
           \/ /\ truth'.labels[k] = truth.labels[k]
              /\ \A e \in 1 .. Len(events) : events[e] \notin Namings(k)
           \/ \E e \in 1 .. Len(events) :
                /\ events[e] \in Namings(k) /\ NameSaid[events[e]] = truth'.labels[k]
                /\ \A f \in 1 .. Len(events) : f > e => events[f] \notin Namings(k)
    <3>1. 2 \in 1 .. Len(events) /\ \A f \in 1 .. Len(events) : ~(f > 2) BY <2>5, <2>6
    <3> QED BY <2>5, <2>6, <2>7, <2>9, <2>10, <3>1
  <2>12. \A k \in Labels \ unsure, c \in Chats :
           \/ /\ (c \in truth'.on[k]) = (c \in truth.on[k])
              /\ \A e \in 1 .. Len(events) : events[e] \notin Placings(k, c)
           \/ \E e \in 1 .. Len(events) :
                /\ events[e] \in Placings(k, c) /\ PlaceSaid[events[e]] = (c \in truth'.on[k])
                /\ \A f \in 1 .. Len(events) : f > e => events[f] \notin Placings(k, c)
    <3>1. ASSUME NEW k \in Labels \ unsure, NEW c \in Chats, ~(k = l /\ c = d)
          PROVE  /\ (c \in truth'.on[k]) = (c \in truth.on[k])
                 /\ \A e \in 1 .. Len(events) : events[e] \notin Placings(k, c)
      BY <2>5, <2>6, <2>8, <2>10, <3>1
    <3>2. /\ 1 \in 1 .. Len(events) /\ events[1] \in Placings(l, d)
          /\ PlaceSaid[events[1]] = (d \in truth'.on[l])
          /\ \A f \in 1 .. Len(events) : f > 1 => events[f] \notin Placings(l, d)
      <4>1. d \in truth'.on[l] /\ PlaceSaid[events[1]] = TRUE BY <2>5, <2>9, <2>10
      <4>2. 1 \in 1 .. Len(events) /\ events[1] \in Placings(l, d) BY <2>5, <2>8
      <4>3. \A f \in 1 .. Len(events) : f > 1 => events[f] \notin Placings(l, d)
        BY <2>5, <2>6, <2>8
      <4> QED BY <4>1, <4>2, <4>3
    <3> QED BY <3>1, <3>2
  <2>13. \A e \in 1 .. Len(events) : events[e].kind # "unlabel" BY <2>1, <2>2, <2>5, <2>6
  <2> QED BY <2>0, <2>3, <2>4, <2>11, <2>12, <2>13, LabelChangeSettles
<1>9. ASSUME NEW l \in Labels, LabelRemoved(l) PROVE LabelInv'
  <2> DEFINE j == Deleting(l, 1)  events == <<j>>
  <2>0. truth' = [truth EXCEPT !.labels[l] = None, !.on[l] = {}] /\ unsure' = unsure
    BY <1>9 DEF LabelRemoved
  <2>1. events \in Seq(Jobs) /\ Change(events) /\ Len(events) = 1 BY <1>9 DEF LabelRemoved
  <2>2. j \in Jobs /\ j.kind = "unlabel" /\ j.label = l /\ j.stage = 1
    <3>1. 1 \in 1 .. 2 OBVIOUS
    <3>2. j \in Jobs BY <3>1
    <3> QED BY <3>2 DEF Deleting
  <2>3. \A k \in Labels : /\ (j \in Namings(k)) = (k = l)
                          /\ \A c \in Chats : (j \in Placings(k, c)) = (k = l)
    BY <2>2 DEF Namings, Placings
  <2>4. NameSaid[j] = None /\ PlaceSaid[j] = FALSE BY <2>2 DEF NameSaid, PlaceSaid
  <2>5. /\ truth'.labels[l] = None /\ truth'.on[l] = {}
        /\ \A k \in Labels \ {l} : truth'.labels[k] = truth.labels[k] /\ truth'.on[k] = truth.on[k]
    BY <1>0, <2>0 DEF LabelRows, ChatSets
  <2>6. \A e \in 1 .. Len(events) : e = 1 /\ events[e] = j BY <2>1
  <2> HIDE DEF j, events
  <2>7. \A k \in Labels \ unsure :
          \/ /\ truth'.labels[k] = truth.labels[k]
             /\ \A e \in 1 .. Len(events) : events[e] \notin Namings(k)
          \/ \E e \in 1 .. Len(events) :
               /\ events[e] \in Namings(k) /\ NameSaid[events[e]] = truth'.labels[k]
               /\ \A f \in 1 .. Len(events) : f > e => events[f] \notin Namings(k)
    BY <2>1, <2>3, <2>4, <2>5, <2>6
  <2>8. \A k \in Labels \ unsure, c \in Chats :
          \/ /\ (c \in truth'.on[k]) = (c \in truth.on[k])
             /\ \A e \in 1 .. Len(events) : events[e] \notin Placings(k, c)
          \/ \E e \in 1 .. Len(events) :
               /\ events[e] \in Placings(k, c) /\ PlaceSaid[events[e]] = (c \in truth'.on[k])
               /\ \A f \in 1 .. Len(events) : f > e => events[f] \notin Placings(k, c)
    <3>1. 1 \in 1 .. Len(events) /\ events[1] = j /\ \A f \in 1 .. Len(events) : ~(f > 1)
      BY <2>1, <2>6
    <3>2. ASSUME NEW k \in Labels \ unsure, NEW c \in Chats, k # l
          PROVE  /\ (c \in truth'.on[k]) = (c \in truth.on[k])
                 /\ \A e \in 1 .. Len(events) : events[e] \notin Placings(k, c)
      BY <2>3, <2>5, <2>6, <3>2
    <3>3. ASSUME NEW c \in Chats
          PROVE  events[1] \in Placings(l, c) /\ PlaceSaid[events[1]] = (c \in truth'.on[l])
      <4>1. (c \in truth'.on[l]) = FALSE BY <2>5
      <4> QED BY <2>3, <2>4, <3>1, <4>1
    <3> QED BY <3>1, <3>2, <3>3
  <2> QED BY <2>0, <2>1, <2>2, <2>6, <2>7, <2>8, LabelChangeSettles
<1>10. ASSUME NEW l \in Labels, NEW d \in Chats, NEW yes \in BOOLEAN, ChatLabelled(l, d, yes) PROVE LabelInv'
  <2> DEFINE j == Putting(l, d, yes)  events == <<j>>
  <2>0. /\ truth' = [truth EXCEPT !.on[l] = IF yes THEN @ \cup {d} ELSE @ \ {d}]
        /\ unsure' = unsure
    BY <1>10 DEF ChatLabelled
  <2>1. events \in Seq(Jobs) /\ Change(events) /\ Len(events) = 1 BY <1>10 DEF ChatLabelled
  <2>2. j \in Jobs /\ j.kind = "chat" /\ j.label = l /\ j.chat = d /\ j.yes = yes BY DEF Putting
  <2>3. \A k \in Labels : /\ j \notin Namings(k)
                          /\ \A c \in Chats : (j \in Placings(k, c)) = (k = l /\ c = d)
    BY <2>2 DEF Namings, Placings
  <2>4. PlaceSaid[j] = yes BY <2>2 DEF PlaceSaid
  <2>5. /\ truth'.labels = truth.labels
        /\ truth'.on[l] = IF yes THEN truth.on[l] \cup {d} ELSE truth.on[l] \ {d}
        /\ \A k \in Labels \ {l} : truth'.on[k] = truth.on[k]
    BY <1>0, <2>0 DEF ChatSets
  <2>6. \A e \in 1 .. Len(events) : e = 1 /\ events[e] = j BY <2>1
  <2> HIDE DEF j, events
  <2>7. ASSUME NEW k \in Labels \ unsure, NEW c \in Chats, ~(k = l /\ c = d)
        PROVE  /\ (c \in truth'.on[k]) = (c \in truth.on[k])
               /\ \A e \in 1 .. Len(events) : events[e] \notin Placings(k, c)
    BY <2>3, <2>5, <2>6, <2>7
  <2>8. /\ 1 \in 1 .. Len(events) /\ events[1] \in Placings(l, d)
        /\ PlaceSaid[events[1]] = (d \in truth'.on[l])
        /\ \A f \in 1 .. Len(events) : ~(f > 1)
    <3>1. (d \in truth'.on[l]) = yes BY <2>5
    <3>2. 1 \in 1 .. Len(events) BY <2>1
    <3>3. events[1] = j BY <2>6, <3>2
    <3>4. \A f \in 1 .. Len(events) : ~(f > 1) BY <2>1
    <3>5. events[1] \in Placings(l, d) BY <2>3, <3>3
    <3>6. PlaceSaid[events[1]] = (d \in truth'.on[l]) BY <2>4, <3>1, <3>3
    <3> QED BY <3>2, <3>4, <3>5, <3>6
  <2>9. \A k \in Labels \ unsure, c \in Chats :
          \/ /\ (c \in truth'.on[k]) = (c \in truth.on[k])
             /\ \A e \in 1 .. Len(events) : events[e] \notin Placings(k, c)
          \/ \E e \in 1 .. Len(events) :
               /\ events[e] \in Placings(k, c) /\ PlaceSaid[events[e]] = (c \in truth'.on[k])
               /\ \A f \in 1 .. Len(events) : f > e => events[f] \notin Placings(k, c)
    BY <2>7, <2>8
  <2>10. \A k \in Labels \ unsure :
           /\ truth'.labels[k] = truth.labels[k]
           /\ \A e \in 1 .. Len(events) : events[e] \notin Namings(k)
    BY <2>3, <2>5, <2>6
  <2>11. \A e \in 1 .. Len(events) : events[e].kind # "unlabel" BY <2>2, <2>6
  <2> QED BY <2>0, <2>1, <2>9, <2>10, <2>11, LabelChangeSettles
<1>11. CASE LeavesUnderLid
  <2> DEFINE events == <<Leaving({Me})>>
  <2>1. events \in Seq(Jobs) /\ Change(events) BY <1>11, TablesAssumption DEF LeavesUnderLid
  <2>2. \A e \in 1 .. Len(events) : events[e].kind \notin AboutLabels BY DEF Leaving, AboutLabels
  <2>3. truth'.labels = truth.labels /\ truth'.on = truth.on /\ unsure \subseteq unsure'
    BY <1>0, <1>11 DEF LeavesUnderLid
  <2> QED BY <2>1, <2>2, <2>3, OtherChangesSettle
<1> QED
  BY <1>1, <1>2, <1>3, <1>4, <1>5, <1>6, <1>7, <1>8, <1>9, <1>10, <1>11 DEF WhatsApp

\* The jobs about labels keep their order when another job returns.
LEMMA ReturnKeepsFirst ==
    ASSUME TypeOK, NEW i \in DOMAIN jobs, Return(i), NEW k \in DOMAIN jobs',
           \A e \in 1 .. Old(i, k) - 1 : jobs[e].kind \notin AboutLabels
    PROVE  \A e \in 1 .. k - 1 : jobs'[e].kind \notin AboutLabels
<1> SUFFICES ASSUME NEW e \in 1 .. k - 1 PROVE jobs'[e].kind \notin AboutLabels OBVIOUS
<1>1. jobs' \in Seq(Jobs) /\ jobs \in Seq(Jobs) BY ReturnShifts DEF TypeOK
<1>2. k \in Nat /\ i \in Nat /\ e \in DOMAIN jobs' BY <1>1
<1>3. Old(i, e) \in DOMAIN jobs /\ jobs'[e] = jobs[Old(i, e)] BY <1>2, ReturnShifts
<1>4. Old(i, e) \in 1 .. Old(i, k) - 1 BY <1>1, <1>2, <1>3 DEF Old
<1> QED BY <1>3, <1>4

LEMMA ReturnKeepsDeletions ==
    ASSUME TypeOK, DeletionsFirst, NEW i \in DOMAIN jobs, Return(i),
           \A k \in DOMAIN jobs \ {i} :
             jobs[k].kind = "unlabel" /\ jobs[k].stage = 2 => on'[jobs[k].label] = {}
    PROVE  DeletionsFirst'
<1> SUFFICES ASSUME NEW k \in DOMAIN jobs', jobs'[k].kind = "unlabel", jobs'[k].stage = 2
             PROVE  /\ on'[jobs'[k].label] = {}
                    /\ \A e \in 1 .. k - 1 : jobs'[e].kind \notin AboutLabels
  BY DEF DeletionsFirst
<1>1. jobs'[k] = jobs[Old(i, k)] /\ Old(i, k) \in DOMAIN jobs \ {i} BY ReturnShifts
<1>2. \A e \in 1 .. Old(i, k) - 1 : jobs[e].kind \notin AboutLabels BY <1>1 DEF DeletionsFirst
<1> QED BY <1>1, <1>2, ReturnKeepsFirst

\* A job that returns without a word about labels.
LEMMA QuietReturnKeepsLabels ==
    ASSUME TypeOK, LabelInv, NEW i \in DOMAIN jobs, Return(i),
           jobs[i].kind \notin AboutLabels,
           UNCHANGED <<labels, on, truth, added>>, unsure \subseteq unsure'
    PROVE  LabelInv'
<1>1. ASSUME NEW l \in Labels \ unsure'
      PROVE  Settled(jobs', Namings(l), NameSaid, labels'[l], truth'.labels[l])
  <2>1. Settled(jobs, Namings(l), NameSaid, labels[l], truth.labels[l])
    BY DEF LabelInv, NamesSettled
  <2>2. jobs[i] \notin Namings(l) BY DEF Namings, AboutLabels
  <2> QED BY <2>1, <2>2, ReturnSettles
<1>2. ASSUME NEW l \in Labels \ unsure', NEW c \in Chats
      PROVE  Settled(jobs', Placings(l, c), PlaceSaid, c \in on'[l], c \in truth'.on[l])
  <2>1. Settled(jobs, Placings(l, c), PlaceSaid, c \in on[l], c \in truth.on[l])
    BY DEF LabelInv, PlacesSettled
  <2>2. jobs[i] \notin Placings(l, c) BY DEF Placings, AboutLabels
  <2> QED BY <2>1, <2>2, ReturnSettles
<1>3. DeletionsFirst' BY ReturnKeepsDeletions DEF LabelInv, DeletionsFirst
<1> QED BY <1>1, <1>2, <1>3 DEF LabelInv, NamesSettled, PlacesSettled, DeletedLabelFreesChats

LEMMA HandlerKeepsLabels ==
    ASSUME TypeOK, LabelInv, NEW i \in DOMAIN jobs, Handler(i)
    PROVE  LabelInv'
<1>0. jobs[i] \in Jobs /\ jobs \in Seq(Jobs) /\ i \in Nat /\ DOMAIN jobs = 1 .. Len(jobs) BY DEF TypeOK
<1>1. CASE UpsertGroupMemberLabels(i)
  BY <1>1, QuietReturnKeepsLabels DEF UpsertGroupMemberLabels, Runs, AboutLabels, externalVars
<1>2. CASE DeleteGroupMemberLabels(i)
  BY <1>2, QuietReturnKeepsLabels DEF DeleteGroupMemberLabels, Runs, AboutLabels, externalVars
<1>3. CASE UpdateTimer(i)
  BY <1>3, QuietReturnKeepsLabels DEF UpdateTimer, Runs, AboutLabels, externalVars
<1>4. CASE DeleteTimer(i)
  BY <1>4, QuietReturnKeepsLabels DEF DeleteTimer, Runs, AboutLabels, externalVars
<1> DEFINE first == \A k \in DOMAIN jobs : k < i => jobs[k].kind \notin AboutLabels
<1>5. ASSUME InOrder(i), jobs[i].kind \in AboutLabels PROVE first
  BY <1>0, <1>5 DEF InOrder
<1>6. ASSUME InOrder(i), jobs[i].kind \in AboutLabels, NEW k \in DOMAIN jobs \ {i},
             jobs[k].kind = "unlabel", jobs[k].stage = 2
      PROVE  FALSE
  <2>1. CASE k < i BY <1>5, <1>6, <2>1 DEF AboutLabels
  <2>2. CASE k > i
    <3>1. i \in 1 .. k - 1 BY <1>0, <2>2
    <3> QED BY <1>6, <3>1 DEF LabelInv, DeletionsFirst
  <2> QED BY <1>0, <2>1, <2>2
<1>7. CASE StatementFails(i)
  <2>0. CASE jobs[i].kind \notin AboutLabels
    BY <1>7, <2>0, QuietReturnKeepsLabels DEF StatementFails, externalVars, tableVars
  <2> SUFFICES ASSUME jobs[i].kind \in AboutLabels PROVE LabelInv' BY <2>0
  <2>1. /\ Return(i) /\ InOrder(i) /\ UNCHANGED <<labels, on, truth, added>>
        /\ unsure' = unsure \cup {jobs[i].label}
    BY <1>7 DEF StatementFails, externalVars, tableVars, Concerns, AboutLabels
  <2>2. ASSUME NEW l \in Labels \ unsure'
        PROVE  Settled(jobs', Namings(l), NameSaid, labels'[l], truth'.labels[l])
    <3>1. Settled(jobs, Namings(l), NameSaid, labels[l], truth.labels[l])
      BY <2>1 DEF LabelInv, NamesSettled
    <3>2. jobs[i] \notin Namings(l) BY <2>1, <2>2 DEF Namings
    <3> QED BY <2>1, <3>1, <3>2, ReturnSettles
  <2>3. ASSUME NEW l \in Labels \ unsure', NEW c \in Chats
        PROVE  Settled(jobs', Placings(l, c), PlaceSaid, c \in on'[l], c \in truth'.on[l])
    <3>1. Settled(jobs, Placings(l, c), PlaceSaid, c \in on[l], c \in truth.on[l])
      BY <2>1 DEF LabelInv, PlacesSettled
    <3>2. jobs[i] \notin Placings(l, c) BY <2>1, <2>3 DEF Placings
    <3> QED BY <2>1, <3>1, <3>2, ReturnSettles
  <2>4. DeletionsFirst' BY <1>6, <2>1, ReturnKeepsDeletions DEF LabelInv
  <2> QED BY <2>1, <2>2, <2>3, <2>4 DEF LabelInv, NamesSettled, PlacesSettled, DeletedLabelFreesChats
<1>8. CASE UpsertLabel(i)
  <2> DEFINE k == jobs[i].label
  <2>1. /\ Return(i) /\ InOrder(i) /\ UNCHANGED <<on, truth, added, unsure>> /\ jobs[i].kind = "label"
        /\ labels' = [labels EXCEPT ![k] = jobs[i].text] /\ jobs[i].kind \in AboutLabels
    BY <1>8 DEF UpsertLabel, Runs, externalVars, AboutLabels
  <2>2. ASSUME NEW l \in Labels \ unsure'
        PROVE  Settled(jobs', Namings(l), NameSaid, labels'[l], truth'.labels[l])
    <3>1. Settled(jobs, Namings(l), NameSaid, labels[l], truth.labels[l])
      BY <2>1 DEF LabelInv, NamesSettled
    <3>2. CASE l # k
      <4>1. labels'[l] = labels[l] /\ jobs[i] \notin Namings(l)
        BY <2>1, <3>2 DEF TypeOK, LabelRows, Namings
      <4> QED BY <2>1, <3>1, <4>1, ReturnSettles
    <3>3. CASE l = k
      <4>1. jobs[i] \in Namings(l) /\ NameSaid[jobs[i]] = jobs[i].text
        BY <1>0, <2>1, <3>3 DEF Namings, NameSaid
      <4>2. labels'[l] = jobs[i].text BY <2>1, <3>3 DEF TypeOK, LabelRows
      <4>3. \A e \in DOMAIN jobs : e < i => jobs[e] \notin Namings(l)
        BY <1>5, <2>1 DEF Namings, AboutLabels
      <4> QED BY <2>1, <3>1, <4>1, <4>2, <4>3, ReturnSettles
    <3> QED BY <3>2, <3>3
  <2>3. ASSUME NEW l \in Labels \ unsure', NEW c \in Chats
        PROVE  Settled(jobs', Placings(l, c), PlaceSaid, c \in on'[l], c \in truth'.on[l])
    <3>1. Settled(jobs, Placings(l, c), PlaceSaid, c \in on[l], c \in truth.on[l])
      BY <2>1 DEF LabelInv, PlacesSettled
    <3>2. jobs[i] \notin Placings(l, c) BY <2>1 DEF Placings
    <3> QED BY <2>1, <3>1, <3>2, ReturnSettles
  <2>4. DeletionsFirst' BY <1>6, <2>1, ReturnKeepsDeletions DEF LabelInv
  <2> QED BY <2>1, <2>2, <2>3, <2>4 DEF LabelInv, NamesSettled, PlacesSettled, DeletedLabelFreesChats
<1>9. CASE AddOrRemoveAssociation(i)
  <2> DEFINE k == jobs[i].label  d == jobs[i].chat
  <2>1. /\ Return(i) /\ InOrder(i) /\ UNCHANGED <<labels, truth, unsure>> /\ jobs[i].kind = "chat"
        /\ on' = [on EXCEPT ![k] = IF jobs[i].yes THEN @ \cup {d} ELSE @ \ {d}]
        /\ added' = [added EXCEPT ![k] = IF jobs[i].yes THEN @ \cup {d} ELSE @]
        /\ jobs[i].kind \in AboutLabels
    BY <1>9 DEF AddOrRemoveAssociation, Runs, externalVars, AboutLabels
  <2>2. ASSUME NEW l \in Labels \ unsure'
        PROVE  Settled(jobs', Namings(l), NameSaid, labels'[l], truth'.labels[l])
    <3>1. Settled(jobs, Namings(l), NameSaid, labels[l], truth.labels[l])
      BY <2>1 DEF LabelInv, NamesSettled
    <3>2. jobs[i] \notin Namings(l) BY <2>1 DEF Namings
    <3> QED BY <2>1, <3>1, <3>2, ReturnSettles
  <2>3. ASSUME NEW l \in Labels \ unsure', NEW c \in Chats
        PROVE  Settled(jobs', Placings(l, c), PlaceSaid, c \in on'[l], c \in truth'.on[l])
    <3>1. Settled(jobs, Placings(l, c), PlaceSaid, c \in on[l], c \in truth.on[l])
      BY <2>1 DEF LabelInv, PlacesSettled
    <3>2. CASE ~(l = k /\ c = d)
      <4>1. jobs[i] \notin Placings(l, c) BY <2>1, <3>2 DEF Placings
      <4>2. (c \in on'[l]) = (c \in on[l]) BY <2>1, <3>2 DEF TypeOK, ChatSets
      <4> QED BY <2>1, <3>1, <4>1, <4>2, ReturnSettles
    <3>3. CASE l = k /\ c = d
      <4>1. jobs[i] \in Placings(l, c) /\ PlaceSaid[jobs[i]] = jobs[i].yes
        BY <1>0, <2>1, <3>3 DEF Placings, PlaceSaid
      <4>2. jobs[i].yes \in BOOLEAN BY <1>0, <2>1, JobFields
      <4>3. (c \in on'[l]) = jobs[i].yes BY <2>1, <3>3, <4>2 DEF TypeOK, ChatSets
      <4>4. \A e \in DOMAIN jobs : e < i => jobs[e] \notin Placings(l, c)
        BY <1>5, <2>1 DEF Placings, AboutLabels
      <4>5. (c \in on'[l]) = PlaceSaid[jobs[i]] BY <4>1, <4>3
      <4> QED BY <2>1, <3>1, <4>1, <4>4, <4>5, ReturnSettles
    <3> QED BY <3>2, <3>3
  <2>4. DeletionsFirst' BY <1>6, <2>1, ReturnKeepsDeletions DEF LabelInv
  <2>5. DeletedLabelFreesChats' BY <2>1 DEF LabelInv, DeletedLabelFreesChats, TypeOK, ChatSets
  <2> QED BY <2>1, <2>2, <2>3, <2>4, <2>5 DEF LabelInv, NamesSettled, PlacesSettled
<1>10. ASSUME Runs(i, "unlabel")
       PROVE  /\ jobs[i].kind = "unlabel" /\ jobs[i].kind \in AboutLabels /\ InOrder(i)
              /\ jobs[i].label \in Labels
              /\ Dropping[jobs[i].stage] = "chats" => jobs[i].stage = 1
              /\ Dropping[jobs[i].stage] = "label" => jobs[i].stage = 2
              /\ \A l \in Labels : /\ (jobs[i] \in Namings(l)) = (l = jobs[i].label)
                                   /\ \A c \in Chats : (jobs[i] \in Placings(l, c)) = (l = jobs[i].label)
              /\ NameSaid[jobs[i]] = None /\ PlaceSaid[jobs[i]] = FALSE
  <2>1. jobs[i].kind = "unlabel" /\ jobs[i].kind \in AboutLabels /\ InOrder(i)
    BY <1>10 DEF Runs, AboutLabels
  <2>2. jobs[i].label \in Labels /\ jobs[i].stage \in 1 .. 2 BY <1>0, <2>1, JobFields
  <2>3. \A l \in Labels : /\ (jobs[i] \in Namings(l)) = (l = jobs[i].label)
                          /\ \A c \in Chats : (jobs[i] \in Placings(l, c)) = (l = jobs[i].label)
    BY <1>0, <2>1 DEF Namings, Placings
  <2>4. NameSaid[jobs[i]] = None /\ PlaceSaid[jobs[i]] = FALSE
    BY <1>0, <2>1 DEF NameSaid, PlaceSaid
  <2>5. /\ Dropping[jobs[i].stage] = "chats" => jobs[i].stage = 1
        /\ Dropping[jobs[i].stage] = "label" => jobs[i].stage = 2
    <3>1. jobs[i].stage = 1 \/ jobs[i].stage = 2 BY <2>2
    <3>2. Dropping[1] = "chats" /\ Dropping[2] = "label" BY DEF Dropping
    <3> QED BY <3>1, <3>2
  <2> QED BY <2>1, <2>2, <2>3, <2>4, <2>5
<1>11. CASE RemoveAssociationsByLabelID(i)
  <2> DEFINE k == jobs[i].label  j == Deleting(k, 2)
  <2>1. /\ Runs(i, "unlabel") /\ jobs[i].stage = 1 /\ Continue(i, j)
        /\ on' = [on EXCEPT ![k] = {}] /\ UNCHANGED <<labels, truth, unsure, added>>
    BY <1>10, <1>11 DEF RemoveAssociationsByLabelID, DeletionGoesOn, externalVars
  <2>2. j \in Jobs /\ j.kind = "unlabel" /\ j.label = k
    <3>1. 2 \in 1 .. 2 OBVIOUS
    <3>2. j \in Jobs BY <1>10, <2>1, <3>1, JobsAreJobs
    <3> QED BY <3>2 DEF Deleting
  <2>3. /\ \A l \in Labels : /\ (j \in Namings(l)) = (l = k)
                             /\ \A c \in Chats : (j \in Placings(l, c)) = (l = k)
        /\ NameSaid[j] = None /\ PlaceSaid[j] = FALSE
    BY <2>2 DEF Namings, Placings, NameSaid, PlaceSaid
  <2>4. /\ DOMAIN jobs' = DOMAIN jobs /\ jobs'[i] = j
        /\ \A e \in DOMAIN jobs \ {i} : jobs'[e] = jobs[e]
    BY <2>1, <2>2, ContinueStays
  <2> HIDE DEF j
  <2>5. ASSUME NEW l \in Labels \ unsure'
        PROVE  Settled(jobs', Namings(l), NameSaid, labels'[l], truth'.labels[l])
    <3>1. Settled(jobs, Namings(l), NameSaid, labels[l], truth.labels[l])
      BY <2>1 DEF LabelInv, NamesSettled
    <3> QED BY <1>10, <2>1, <2>2, <2>3, <3>1, ContinueSettles
  <2>6. ASSUME NEW l \in Labels \ unsure', NEW c \in Chats
        PROVE  Settled(jobs', Placings(l, c), PlaceSaid, c \in on'[l], c \in truth'.on[l])
    <3>1. Settled(jobs, Placings(l, c), PlaceSaid, c \in on[l], c \in truth.on[l])
      BY <2>1 DEF LabelInv, PlacesSettled
    <3>2. CASE l = k
      <4>1. jobs[i] \in Placings(l, c) /\ j \in Placings(l, c) /\ PlaceSaid[j] = PlaceSaid[jobs[i]]
        BY <1>10, <2>1, <2>3, <3>2
      <4> QED BY <2>1, <2>2, <3>1, <4>1, ContinueSettles
    <3>3. CASE l # k
      <4>1. jobs[i] \notin Placings(l, c) /\ j \notin Placings(l, c)
        BY <1>10, <2>1, <2>3, <3>3
      <4>2. on'[l] = on[l] BY <2>1, <3>3 DEF TypeOK, ChatSets
      <4> QED BY <2>1, <2>2, <3>1, <4>1, <4>2, ContinueSettles
    <3> QED BY <3>2, <3>3
  <2>7. ASSUME NEW e \in DOMAIN jobs', jobs'[e].kind = "unlabel", jobs'[e].stage = 2
        PROVE  /\ on'[jobs'[e].label] = {}
               /\ \A f \in 1 .. e - 1 : jobs'[f].kind \notin AboutLabels
    <3>1. e = i BY <1>6, <1>10, <2>1, <2>4, <2>7
    <3>2. on'[k] = {} BY <1>10, <2>1 DEF TypeOK, ChatSets
    <3>3. \A f \in 1 .. e - 1 : f \in DOMAIN jobs \ {i} /\ f < i BY <1>0, <3>1
    <3> QED BY <1>5, <1>10, <2>1, <2>2, <2>4, <3>1, <3>2, <3>3
  <2>8. DeletedLabelFreesChats' BY <2>1 DEF LabelInv, DeletedLabelFreesChats, TypeOK, ChatSets
  <2> QED BY <2>1, <2>5, <2>6, <2>7, <2>8 DEF LabelInv, NamesSettled, PlacesSettled, DeletionsFirst
<1>12. CASE DeleteLabel(i)
  <2> DEFINE k == jobs[i].label
  <2>1. /\ Runs(i, "unlabel") /\ jobs[i].stage = 2 /\ Return(i)
        /\ labels' = [labels EXCEPT ![k] = None] /\ added' = [added EXCEPT ![k] = {}]
        /\ UNCHANGED <<on, truth, unsure>>
    BY <1>10, <1>12 DEF DeleteLabel, DeletionGoesOn, externalVars
  <2>2. on[k] = {} BY <1>10, <2>1 DEF LabelInv, DeletionsFirst
  <2>3. ASSUME NEW l \in Labels \ unsure'
        PROVE  Settled(jobs', Namings(l), NameSaid, labels'[l], truth'.labels[l])
    <3>1. Settled(jobs, Namings(l), NameSaid, labels[l], truth.labels[l])
      BY <2>1 DEF LabelInv, NamesSettled
    <3>2. CASE l # k
      <4>1. labels'[l] = labels[l] /\ jobs[i] \notin Namings(l)
        BY <1>10, <2>1, <3>2 DEF TypeOK, LabelRows
      <4> QED BY <2>1, <3>1, <4>1, ReturnSettles
    <3>3. CASE l = k
      <4>1. jobs[i] \in Namings(l) /\ labels'[l] = NameSaid[jobs[i]]
        BY <1>10, <2>1, <3>3 DEF TypeOK, LabelRows
      <4>2. \A e \in DOMAIN jobs : e < i => jobs[e] \notin Namings(l)
        BY <1>5, <1>10, <2>1 DEF Namings, AboutLabels
      <4> QED BY <2>1, <3>1, <4>1, <4>2, ReturnSettles
    <3> QED BY <3>2, <3>3
  <2>4. ASSUME NEW l \in Labels \ unsure', NEW c \in Chats
        PROVE  Settled(jobs', Placings(l, c), PlaceSaid, c \in on'[l], c \in truth'.on[l])
    <3>1. Settled(jobs, Placings(l, c), PlaceSaid, c \in on[l], c \in truth.on[l])
      BY <2>1 DEF LabelInv, PlacesSettled
    <3>2. CASE l # k BY <1>10, <2>1, <3>1, <3>2, ReturnSettles
    <3>3. CASE l = k
      <4>1. jobs[i] \in Placings(l, c) /\ PlaceSaid[jobs[i]] = FALSE BY <1>10, <2>1, <3>3
      <4>2. \A e \in DOMAIN jobs : e < i => jobs[e] \notin Placings(l, c)
        BY <1>5, <1>10, <2>1 DEF Placings, AboutLabels
      <4>0. (c \in on'[l]) = FALSE BY <2>1, <2>2, <3>3
      <4>3. (c \in on'[l]) = PlaceSaid[jobs[i]] BY <4>0, <4>1
      <4> QED BY <2>1, <3>1, <4>1, <4>2, <4>3, ReturnSettles
    <3> QED BY <3>2, <3>3
  <2>5. DeletionsFirst' BY <1>6, <1>10, <2>1, ReturnKeepsDeletions DEF LabelInv
  <2>6. DeletedLabelFreesChats' BY <2>1, <2>2 DEF LabelInv, DeletedLabelFreesChats, TypeOK, ChatSets
  <2> QED BY <2>1, <2>3, <2>4, <2>5, <2>6 DEF LabelInv, NamesSettled, PlacesSettled
<1>13. CASE ReadTimer(i)
  <2> DEFINE t == timers[jobs[i].user]
             next == [jobs[i] EXCEPT !.stage = "delete", !.before = Before(i), !.read = t]
  <2>1. jobs[i].kind = "untimer" /\ UNCHANGED <<labels, on, truth, unsure, added>>
    BY <1>13 DEF ReadTimer, Runs, externalVars, tableVars
  <2>2. CASE Return(i) BY <2>1, <2>2, QuietReturnKeepsLabels DEF AboutLabels
  <2>3. CASE Continue(i, next)
    <3>1. next.kind = "untimer" /\ next \in Jobs BY <2>1, ReadGoesOn
    <3> HIDE DEF next
    <3>2. /\ DOMAIN jobs' = DOMAIN jobs /\ jobs'[i] = next
          /\ \A e \in DOMAIN jobs \ {i} : jobs'[e] = jobs[e]
      BY <2>3, <3>1, ContinueStays
    <3>3. \A l \in Labels : /\ jobs[i] \notin Namings(l) /\ next \notin Namings(l)
                            /\ \A c \in Chats : jobs[i] \notin Placings(l, c) /\ next \notin Placings(l, c)
      BY <2>1, <3>1 DEF Namings, Placings
    <3>4. ASSUME NEW l \in Labels \ unsure'
          PROVE  Settled(jobs', Namings(l), NameSaid, labels'[l], truth'.labels[l])
      <4>1. Settled(jobs, Namings(l), NameSaid, labels[l], truth.labels[l])
        BY <2>1 DEF LabelInv, NamesSettled
      <4> QED BY <2>1, <2>3, <3>1, <3>3, <4>1, ContinueSettles
    <3>5. ASSUME NEW l \in Labels \ unsure', NEW c \in Chats
          PROVE  Settled(jobs', Placings(l, c), PlaceSaid, c \in on'[l], c \in truth'.on[l])
      <4>1. Settled(jobs, Placings(l, c), PlaceSaid, c \in on[l], c \in truth.on[l])
        BY <2>1 DEF LabelInv, PlacesSettled
      <4> QED BY <2>1, <2>3, <3>1, <3>3, <4>1, ContinueSettles
    <3>6. \A e \in DOMAIN jobs' : jobs'[e] = jobs[e] \/ e = i BY <3>2
    <3>7. ASSUME NEW e \in DOMAIN jobs', jobs'[e].kind = "unlabel", jobs'[e].stage = 2
          PROVE  /\ on'[jobs'[e].label] = {}
                 /\ \A f \in 1 .. e - 1 : jobs'[f].kind \notin AboutLabels
      <4>1. jobs'[e] = jobs[e] /\ e \in DOMAIN jobs BY <3>1, <3>2, <3>7
      <4>2. \A f \in 1 .. e - 1 : f \in DOMAIN jobs BY <1>0, <4>1
      <4>3. \A f \in 1 .. e - 1 : jobs[f].kind \notin AboutLabels
        BY <3>7, <4>1 DEF LabelInv, DeletionsFirst
      <4>4. on[jobs[e].label] = {} BY <3>7, <4>1 DEF LabelInv, DeletionsFirst
      <4> QED BY <2>1, <3>1, <3>2, <4>1, <4>2, <4>3, <4>4 DEF AboutLabels
    <3> QED BY <2>1, <3>4, <3>5, <3>7
          DEF LabelInv, NamesSettled, PlacesSettled, DeletionsFirst, DeletedLabelFreesChats
  <2> QED BY <1>13, <2>2, <2>3 DEF ReadTimer
<1> QED
  BY <1>1, <1>2, <1>3, <1>4, <1>7, <1>8, <1>9, <1>11, <1>12, <1>13 DEF Handler

LEMMA CrashKeepsLabels ==
    ASSUME TypeOK, LabelInv, Crash
    PROVE  LabelInv'
<1>1. /\ jobs' = <<>> /\ DOMAIN jobs' = {} /\ UNCHANGED <<labels, on, truth, added>>
      /\ unsure' = unsure \cup UNION {Concerns(j) : j \in Pending}
  BY DEF Crash, tableVars, externalVars
<1>2. ASSUME NEW l \in Labels \ unsure', NEW i \in DOMAIN jobs
      PROVE  jobs[i].kind \in AboutLabels => jobs[i].label # l
  <2>1. Concerns(jobs[i]) \subseteq unsure' BY <1>1 DEF Pending
  <2>2. jobs[i].kind \in AboutLabels => jobs[i].label \in Concerns(jobs[i]) BY DEF Concerns, AboutLabels
  <2> QED BY <1>2, <2>1, <2>2
<1>3. ASSUME NEW l \in Labels \ unsure'
      PROVE  Settled(jobs', Namings(l), NameSaid, labels'[l], truth'.labels[l])
  <2>1. Settled(jobs, Namings(l), NameSaid, labels[l], truth.labels[l])
    BY <1>1 DEF LabelInv, NamesSettled
  <2>2. \A i \in DOMAIN jobs : jobs[i] \notin Namings(l) BY <1>2 DEF Namings, AboutLabels
  <2> QED BY <1>1, <2>1, <2>2 DEF Settled
<1>4. ASSUME NEW l \in Labels \ unsure', NEW c \in Chats
      PROVE  Settled(jobs', Placings(l, c), PlaceSaid, c \in on'[l], c \in truth'.on[l])
  <2>1. Settled(jobs, Placings(l, c), PlaceSaid, c \in on[l], c \in truth.on[l])
    BY <1>1 DEF LabelInv, PlacesSettled
  <2>2. \A i \in DOMAIN jobs : jobs[i] \notin Placings(l, c) BY <1>2 DEF Placings, AboutLabels
  <2>3. (c \in on[l]) = (c \in truth.on[l]) BY <2>1, <2>2 DEF Settled
  <2> QED BY <1>1, <2>3 DEF Settled
<1> QED BY <1>1, <1>3, <1>4
     DEF LabelInv, NamesSettled, PlacesSettled, DeletionsFirst, DeletedLabelFreesChats

LEMMA LabelsInvariant == Spec => []LabelInv
<1>1. TypeOK /\ LabelInv /\ [Next]_vars => LabelInv'
  <2> SUFFICES ASSUME TypeOK, LabelInv, [Next]_vars PROVE LabelInv' OBVIOUS
  <2>1. CASE WhatsApp BY <2>1, WhatsAppKeepsLabels
  <2>2. ASSUME NEW i \in DOMAIN jobs, Handler(i) PROVE LabelInv' BY <2>2, HandlerKeepsLabels
  <2>3. CASE Crash BY <2>3, CrashKeepsLabels
  <2>4. CASE UNCHANGED vars
    BY <2>4 DEF vars, tableVars, externalVars, LabelInv, NamesSettled, PlacesSettled,
                DeletionsFirst, DeletedLabelFreesChats
  <2> QED BY <2>1, <2>2, <2>3, <2>4 DEF Next
<1> QED BY <1>1, InitLabels, TypeCorrect, PTL DEF Spec

\* A label made again is not on the chats of the deleted one: between the two statements of a
\* deletion no other label event runs, and one cut short has dropped the chats first.
THEOREM ChatsAreFreed == Spec => []DeletedLabelFreesChats
<1>1. LabelInv => DeletedLabelFreesChats BY DEF LabelInv
<1> QED BY <1>1, LabelsInvariant, PTL

\* For any number of label events, once those about a label are handled its row and its chats
\* are WhatsApp's: label events run in the order in which they came.
THEOREM LabelsFollow == Spec => []LabelsSettle
<1>1. TypeOK /\ LabelInv => LabelsSettle
  <2> SUFFICES ASSUME TypeOK, LabelInv, NEW l \in Labels \ unsure, AboutLabel(l) = {}
               PROVE  labels[l] = truth.labels[l] /\ on[l] = truth.on[l]
    BY DEF LabelsSettle
  <2>1. \A i \in DOMAIN jobs : ~(jobs[i].kind \in AboutLabels /\ jobs[i].label = l)
    BY DEF AboutLabel, Pending
  <2>2. labels[l] = truth.labels[l]
    <3>1. \A i \in DOMAIN jobs : jobs[i] \notin Namings(l) BY <2>1 DEF Namings, AboutLabels
    <3> QED BY <3>1 DEF LabelInv, NamesSettled, Settled
  <2>3. \A c \in Chats : (c \in on[l]) = (c \in truth.on[l])
    <3>1. \A i \in DOMAIN jobs, c \in Chats : jobs[i] \notin Placings(l, c)
      BY <2>1 DEF Placings, AboutLabels
    <3> QED BY <3>1 DEF LabelInv, PlacesSettled, Settled
  <2>4. on[l] \subseteq Chats /\ truth.on[l] \subseteq Chats BY DEF TypeOK, ChatSets
  <2> QED BY <2>2, <2>3, <2>4
<1> QED BY <1>1, LabelsInvariant, TypeCorrect, PTL

-----------------------------------------------------------------------------
(* Tags: what is on its way to the table is not newer than the truth *)

About(j, m) ==
    \/ j.kind = "tag" /\ j.rows[m] # None
    \/ j.kind = "left" /\ m \in j.who

Behind(row, new) == row = new \/ row.at < new.at

\* A member's row, the true one, and the jobs about it.
Follows(about, m, row, true, second) ==
    /\ true # None => true.at <= second
    /\ \A j \in about : j.kind = "tag" => true # None /\ Behind(j.rows[m], true)
    /\ \A j \in about : j.kind = "left" => true = None
    /\ row # None => (\E j \in about : j.kind = "left") \/ (true # None /\ Behind(row, true))
    /\ true # None => row = true \/ \E j \in about : j.kind = "tag" /\ j.rows[m] = true

TagInv ==
    \A m \in Members \ unsure : Follows(AboutTag(m), m, tags[m], truth.tags[m], now)

LEMMA AboutIsAbout ==
    ASSUME TypeOK, NEW m \in Members
    PROVE  /\ AboutTag(m) = {j \in Pending : About(j, m)}
           /\ AboutTag(m) \subseteq Jobs
           /\ \A j \in AboutTag(m) : j.kind = "tag" \/ j.kind = "left"
           /\ \A j \in AboutTag(m) : j.kind = "tag" => j.rows[m] \in Tags
           /\ tags[m] \in Tags \cup {None} /\ truth.tags[m] \in Tags \cup {None}
<1>1. AboutTag(m) = {j \in Pending : About(j, m)} BY DEF AboutTag, About
<1>2. Pending \subseteq Jobs BY DEF Pending, TypeOK
<1>3. \A j \in AboutTag(m) : j.kind = "tag" => j.rows[m] \in Tags
  <2> SUFFICES ASSUME NEW j \in AboutTag(m), j.kind = "tag" PROVE j.rows[m] \in Tags OBVIOUS
  <2>1. j \in Jobs /\ j.rows[m] # None BY <1>1, <1>2 DEF About
  <2>2. j.rows \in TagRows BY <2>1, JobFields
  <2> QED BY <2>1, <2>2 DEF TagRows
<1>4. \A j \in AboutTag(m) : j.kind = "tag" \/ j.kind = "left" BY <1>1 DEF About
<1>5. tags[m] \in Tags \cup {None} /\ truth.tags[m] \in Tags \cup {None} BY DEF TypeOK, TagRows
<1> QED BY <1>1, <1>2, <1>3, <1>4, <1>5

LEMMA ChangeAbout ==
    ASSUME TypeOK, NEW events \in Seq(Jobs), Change(events), NEW m \in Members
    PROVE  AboutTag(m)' = AboutTag(m) \cup {events[e] : e \in {f \in 1 .. Len(events) : About(events[f], m)}}
<1> DEFINE n == Len(jobs)  k == Len(events)
<1>1. /\ n \in Nat /\ k \in Nat /\ DOMAIN jobs = 1 .. n /\ DOMAIN jobs' = 1 .. n + k
      /\ \A i \in 1 .. n : jobs'[i] = jobs[i]
      /\ \A i \in n + 1 .. n + k : jobs'[i] = events[i - n]
  BY ChangeAppends
<1> HIDE DEF n, k
<1>2. ASSUME NEW i \in 1 .. n + k
      PROVE  \/ i \in 1 .. n /\ jobs'[i] = jobs[i]
             \/ \E e \in 1 .. k : jobs'[i] = events[e]
  <2>1. CASE i \in 1 .. n BY <1>1, <2>1
  <2>2. CASE i \notin 1 .. n
    <3>1. i \in n + 1 .. n + k /\ i - n \in 1 .. k BY <1>1, <2>2
    <3> QED BY <1>1, <3>1
  <2> QED BY <2>1, <2>2
<1>3. ASSUME NEW e \in 1 .. k PROVE \E i \in 1 .. n + k : jobs'[i] = events[e]
  <2>1. n + e \in 1 .. n + k /\ n + e \in n + 1 .. n + k /\ (n + e) - n = e BY <1>1
  <2> QED BY <1>1, <2>1
<1>4. 1 .. n \subseteq 1 .. n + k BY <1>1
<1>5. Pending' = Pending \cup {events[e] : e \in 1 .. k}
  <2>1. ASSUME NEW j \in Pending' PROVE j \in Pending \cup {events[e] : e \in 1 .. k}
    BY <1>1, <1>2 DEF Pending
  <2>2. ASSUME NEW j \in Pending PROVE j \in Pending' BY <1>1, <1>4 DEF Pending
  <2>3. ASSUME NEW e \in 1 .. k PROVE events[e] \in Pending' BY <1>1, <1>3 DEF Pending
  <2> QED BY <2>1, <2>2, <2>3
<1>6. AboutTag(m)' = {j \in Pending' : About(j, m)} BY DEF AboutTag, About
<1>7. AboutTag(m) = {j \in Pending : About(j, m)} BY DEF AboutTag, About
<1> QED BY <1>5, <1>6, <1>7 DEF k

LEMMA ReturnAbout ==
    ASSUME TypeOK, NEW i \in DOMAIN jobs, Return(i), NEW m \in Members
    PROVE  /\ AboutTag(m)' \subseteq AboutTag(m)
           /\ AboutTag(m) \subseteq AboutTag(m)' \cup {jobs[i]}
           /\ ~About(jobs[i], m) => AboutTag(m)' = AboutTag(m)
<1>1. Pending' \subseteq Pending /\ Pending \subseteq Pending' \cup {jobs[i]}
  BY ReturnShifts DEF Pending
<1>2. AboutTag(m)' = {j \in Pending' : About(j, m)} BY DEF AboutTag, About
<1>3. AboutTag(m) = {j \in Pending : About(j, m)} BY DEF AboutTag, About
<1> QED BY <1>1, <1>2, <1>3

LEMMA ContinueAbout ==
    ASSUME TypeOK, NEW i \in DOMAIN jobs, NEW j \in Jobs, Continue(i, j), NEW m \in Members,
           ~About(jobs[i], m), ~About(j, m)
    PROVE  AboutTag(m)' = AboutTag(m)
<1>1. Pending' \ {j} \subseteq Pending /\ Pending \ {jobs[i]} \subseteq Pending'
  BY ContinueStays DEF Pending
<1>2. AboutTag(m)' = {k \in Pending' : About(k, m)} BY DEF AboutTag, About
<1>3. AboutTag(m) = {k \in Pending : About(k, m)} BY DEF AboutTag, About
<1> QED BY <1>1, <1>2, <1>3

LEMMA InitTags == Init => TagInv
BY DEF Init, TagInv, Follows, AboutTag, Pending

LEMMA WhatsAppKeepsTags ==
    ASSUME TypeOK, TagInv, WhatsApp
    PROVE  TagInv'
<1> USE JobsAreJobs
<1>0. /\ truth \in [tags : TagRows, labels : LabelRows, on : ChatSets] /\ truth.tags \in TagRows
      /\ now \in Nat
  BY TimesAreTimes DEF TypeOK
<1>1. ASSUME NEW events \in Seq(Jobs), Change(events),
             \A e \in 1 .. Len(events) : events[e].kind \notin {"tag", "left"},
             truth'.tags = truth.tags, unsure' = unsure
      PROVE  TagInv'
  <2> SUFFICES ASSUME NEW m \in Members \ unsure
               PROVE  Follows(AboutTag(m)', m, tags'[m], truth'.tags[m], now')
    BY <1>1 DEF TagInv
  <2>1. \A e \in 1 .. Len(events) : ~About(events[e], m) BY <1>1 DEF About
  <2>2. AboutTag(m)' = AboutTag(m) BY <1>1, <2>1, ChangeAbout
  <2>3. tags' = tags /\ now' = now BY <1>1 DEF Change, tableVars
  <2> QED BY <1>1, <2>2, <2>3 DEF TagInv
<1>2. ASSUME NEW j \in Jobs, Change(<<j>>), NEW m \in Members
      PROVE  /\ AboutTag(m)' = AboutTag(m) \cup (IF About(j, m) THEN {j} ELSE {})
             /\ tags' = tags /\ now' = now
  <2> DEFINE events == <<j>>
  <2>1. events \in Seq(Jobs) /\ 1 .. Len(events) = {1} /\ events[1] = j OBVIOUS
  <2> HIDE DEF events
  <2>2. AboutTag(m)' = AboutTag(m) \cup {events[e] : e \in {f \in 1 .. Len(events) : About(events[f], m)}}
    BY <1>2, <2>1, ChangeAbout DEF events
  <2>3. tags' = tags /\ now' = now BY <1>2 DEF Change, tableVars
  <2> QED BY <2>1, <2>2, <2>3
<1>3. ASSUME NEW m \in Members, NEW text \in Texts \cup {NoText}, TagChanges(m, text) PROVE TagInv'
  <2> DEFINE row == [text |-> text, at |-> now]  j == Tagging(One(m, row))
  <2>1. row \in Tags /\ row.at = now /\ row # None
    BY <1>0, TimesAreTimes, TablesAssumption DEF Tags
  <2>2. /\ j \in Jobs /\ j.kind = "tag" /\ \A n \in Members : j.rows[n] = IF n = m THEN row ELSE None
    <3>1. One(m, row) \in TagRows BY <2>1 DEF One, TagRows
    <3>2. j \in Jobs BY <3>1
    <3> QED BY <3>2 DEF Tagging, One
  <2>3. /\ truth' = [truth EXCEPT !.tags[m] = row] /\ Change(<<j>>)
        /\ unsure' = IF Outdated(m) THEN unsure \ {m}
                     ELSE IF \/ \E k \in AboutTag(m) : k.kind = "left"
                             \/ truth.tags[m] # None /\ truth.tags[m].at = now
                     THEN unsure \cup {m} ELSE unsure
    BY <1>3 DEF TagChanges
  <2>4. \A n \in Members : truth'.tags[n] = IF n = m THEN row ELSE truth.tags[n]
    BY <1>0, <2>3 DEF TagRows
  <2> HIDE DEF row, j
  <2> SUFFICES ASSUME NEW n \in Members \ unsure'
               PROVE  Follows(AboutTag(n)', n, tags'[n], truth'.tags[n], now')
    BY DEF TagInv
  <2>5. CASE n # m
    <3>1. ~About(j, n) BY <2>2, <2>5 DEF About
    <3>2. AboutTag(n)' = AboutTag(n) /\ tags' = tags /\ now' = now BY <1>2, <2>2, <2>3, <3>1
    <3>3. Follows(AboutTag(n), n, tags[n], truth.tags[n], now) BY <2>3, <2>5 DEF TagInv
    <3> QED BY <2>4, <2>5, <3>2, <3>3
  <2>6. CASE n = m /\ Outdated(m)
    <3>1. About(j, n) /\ j.rows[n] = row BY <2>1, <2>2, <2>6 DEF About
    <3>2. AboutTag(n)' = AboutTag(n) \cup {j} /\ tags' = tags /\ now' = now BY <1>2, <2>2, <2>3, <3>1
    <3>3. AboutTag(n)' = {j} /\ (tags[n] # None => tags[n].at < now) BY <2>6, <3>2 DEF Outdated
    <3>4. truth'.tags[n] = row BY <2>4, <2>6
    <3>5. row.at <= now' BY <1>0, <2>1, <3>2
    <3> QED BY <2>1, <2>2, <3>1, <3>2, <3>3, <3>4, <3>5 DEF Follows, Behind
  <2>7. CASE n = m /\ ~Outdated(m)
    <3>0. Follows(AboutTag(n), n, tags[n], truth.tags[n], now) BY <2>3, <2>7 DEF TagInv
    <3>1. About(j, n) /\ j.rows[n] = row BY <2>1, <2>2, <2>7 DEF About
    <3>2. AboutTag(n)' = AboutTag(n) \cup {j} /\ tags' = tags /\ now' = now BY <1>2, <2>2, <2>3, <3>1
    <3>3. /\ \A k \in AboutTag(n) : k.kind # "left"
          /\ truth.tags[n] # None => truth.tags[n].at # now
      BY <2>3, <2>7
    <3>4. truth.tags[n] # None => truth.tags[n].at < now
      <4>1. truth.tags[n] # None => truth.tags[n].at \in Nat /\ truth.tags[n].at <= now
        BY <3>0, AboutIsAbout DEF Follows, Tags, Times
      <4> QED BY <1>0, <3>3, <4>1
    <3>5. ASSUME NEW old \in Tags, truth.tags[n] # None, Behind(old, truth.tags[n])
          PROVE  Behind(old, row)
      <4>1. old.at \in Nat /\ truth.tags[n].at \in Nat BY <3>5, AboutIsAbout DEF Tags, Times
      <4>2. old.at < now BY <1>0, <3>4, <3>5, <4>1 DEF Behind
      <4> QED BY <2>1, <4>2 DEF Behind
    <3>6. truth'.tags[n] = row /\ row # None /\ row.at <= now' BY <1>0, <2>1, <2>4, <2>7, <3>2
    <3>7. \A k \in AboutTag(n)' : k.kind = "tag" => Behind(k.rows[n], row)
      BY <3>0, <3>1, <3>2, <3>5, AboutIsAbout DEF Follows, Behind
    <3>8. \A k \in AboutTag(n)' : k.kind # "left" BY <2>2, <3>2, <3>3
    <3>9. tags'[n] # None => Behind(tags'[n], row)
      BY <3>0, <3>2, <3>3, <3>5, AboutIsAbout DEF Follows
    <3>10. \E k \in AboutTag(n)' : k.kind = "tag" /\ k.rows[n] = row BY <2>2, <3>1, <3>2
    <3> QED BY <3>6, <3>7, <3>8, <3>9, <3>10 DEF Follows
  <2> QED BY <2>5, <2>6, <2>7
<1>4. ASSUME NEW m \in Members, Leaves(m) PROVE TagInv'
  <2> DEFINE who == IF m = Me THEN Members ELSE {m}  j == Leaving(who)
  <2>1. j \in Jobs /\ j.kind = "left" /\ j.who = who /\ who \subseteq Members BY DEF Leaving
  <2>2. /\ truth' = [truth EXCEPT !.tags = [n \in Members |-> IF n \in who THEN None ELSE @[n]]]
        /\ unsure' = unsure \cup {n \in who : AboutTag(n) # {}} /\ Change(<<j>>)
    BY <1>4 DEF Leaves
  <2>3. \A n \in Members : truth'.tags[n] = IF n \in who THEN None ELSE truth.tags[n]
    BY <1>0, <2>2
  <2> HIDE DEF who, j
  <2> SUFFICES ASSUME NEW n \in Members \ unsure'
               PROVE  Follows(AboutTag(n)', n, tags'[n], truth'.tags[n], now')
    BY DEF TagInv
  <2>4. Follows(AboutTag(n), n, tags[n], truth.tags[n], now) BY <2>2 DEF TagInv
  <2>5. CASE n \notin who
    <3>1. ~About(j, n) BY <2>1, <2>5 DEF About
    <3>2. AboutTag(n)' = AboutTag(n) /\ tags' = tags /\ now' = now BY <1>2, <2>1, <2>2, <3>1
    <3> QED BY <2>3, <2>4, <2>5, <3>2
  <2>6. CASE n \in who
    <3>1. About(j, n) BY <2>1, <2>6 DEF About
    <3>2. AboutTag(n) = {} BY <2>2, <2>6
    <3>3. AboutTag(n)' = {j} BY <1>2, <2>1, <2>2, <3>1, <3>2
    <3>4. truth'.tags[n] = None BY <2>3, <2>6
    <3> QED BY <2>1, <3>3, <3>4 DEF Follows
  <2> QED BY <2>5, <2>6
<1>5. CASE HistoryOfGroup
  <2> DEFINE rows == [m \in Members |-> IF truth.tags[m] # None /\ truth.tags[m].text = NoText
                                        THEN None ELSE truth.tags[m]]
             j == Tagging(rows)
  <2>1. rows \in TagRows BY <1>0 DEF TagRows
  <2>2. j \in Jobs /\ j.kind = "tag" /\ j.rows = rows
    <3>1. j \in Jobs BY <2>1
    <3> QED BY <3>1 DEF Tagging
  <2>3. /\ Change(<<j>>) /\ truth' = truth
        /\ unsure' = unsure \cup {m \in Members : rows[m] # None /\ \E k \in AboutTag(m) : k.kind = "left"}
    BY <1>5 DEF HistoryOfGroup
  <2>4. \A m \in Members : rows[m] = None \/ rows[m] = truth.tags[m] OBVIOUS
  <2> HIDE DEF rows, j
  <2> SUFFICES ASSUME NEW n \in Members \ unsure'
               PROVE  Follows(AboutTag(n)', n, tags'[n], truth'.tags[n], now')
    BY DEF TagInv
  <2>5. Follows(AboutTag(n), n, tags[n], truth.tags[n], now) BY <2>3 DEF TagInv
  <2>6. CASE ~About(j, n)
    <3>1. AboutTag(n)' = AboutTag(n) /\ tags' = tags /\ now' = now BY <1>2, <2>2, <2>3, <2>6
    <3> QED BY <2>3, <2>5, <3>1
  <2>7. CASE About(j, n)
    <3>1. rows[n] # None /\ j.rows[n] = truth.tags[n] BY <2>2, <2>4, <2>7 DEF About
    <3>2. \A k \in AboutTag(n) : k.kind # "left" BY <2>3, <3>1
    <3>3. AboutTag(n)' = AboutTag(n) \cup {j} /\ tags' = tags /\ now' = now BY <1>2, <2>2, <2>3, <2>7
    <3>4. truth.tags[n] # None BY <2>2, <3>1, <2>7 DEF About
    <3> QED BY <2>2, <2>3, <2>5, <3>1, <3>2, <3>3, <3>4 DEF Follows, Behind
  <2> QED BY <2>6, <2>7
<1>6. ASSUME NEW l \in Labels, NEW text \in Texts, LabelEdited(l, text) PROVE TagInv'
  <2> DEFINE events == <<Naming(l, text)>>
  <2>1. events \in Seq(Jobs) /\ Change(events) /\ truth' = [truth EXCEPT !.labels[l] = text] /\ unsure' = unsure
    BY <1>6 DEF LabelEdited
  <2>2. \A e \in 1 .. Len(events) : events[e].kind \notin {"tag", "left"} BY DEF Naming
  <2>3. truth'.tags = truth.tags BY <1>0, <2>1
  <2> QED BY <1>1, <2>1, <2>2, <2>3
<1>7. ASSUME NEW l \in Labels, NEW text \in Texts, NEW c \in Chats, LabelSynced(l, text, c) PROVE TagInv'
  <2> DEFINE i == Putting(l, c, TRUE)  j == Naming(l, text)  events == <<i, j>>
  <2>1. i \in Jobs /\ j \in Jobs /\ i.kind = "chat" /\ j.kind = "label"
    <3>1. TRUE \in BOOLEAN OBVIOUS
    <3>2. i \in Jobs /\ j \in Jobs BY <3>1
    <3> QED BY <3>2 DEF Putting, Naming
  <2>2. Change(events) /\ unsure' = unsure BY <1>7 DEF LabelSynced
  <2>3. truth'.tags = truth.tags BY <1>0, <1>7 DEF LabelSynced
  <2>4. events \in Seq(Jobs) BY <2>1, Pairs
  <2>5. Len(events) = 2 /\ events[1] = i /\ events[2] = j OBVIOUS
  <2> HIDE DEF i, j, events
  <2>6. \A e \in 1 .. Len(events) : events[e].kind \notin {"tag", "left"}
    <3>1. \A e \in 1 .. Len(events) : e = 1 \/ e = 2 BY <2>5
    <3> QED BY <2>1, <2>5, <3>1
  <2> QED BY <1>1, <2>2, <2>3, <2>4, <2>6
<1>8. ASSUME NEW l \in Labels, LabelRemoved(l) PROVE TagInv'
  <2> DEFINE events == <<Deleting(l, 1)>>
  <2>1. 1 \in 1 .. 2 OBVIOUS
  <2>2. events \in Seq(Jobs) /\ Change(events) /\ unsure' = unsure BY <1>8, <2>1 DEF LabelRemoved
  <2>3. \A e \in 1 .. Len(events) : events[e].kind \notin {"tag", "left"} BY DEF Deleting
  <2>4. truth'.tags = truth.tags BY <1>0, <1>8 DEF LabelRemoved
  <2> QED BY <1>1, <2>2, <2>3, <2>4
<1>9. ASSUME NEW l \in Labels, NEW c \in Chats, NEW yes \in BOOLEAN, ChatLabelled(l, c, yes) PROVE TagInv'
  <2> DEFINE events == <<Putting(l, c, yes)>>
  <2>1. events \in Seq(Jobs) /\ Change(events) /\ unsure' = unsure BY <1>9 DEF ChatLabelled
  <2>2. \A e \in 1 .. Len(events) : events[e].kind \notin {"tag", "left"} BY DEF Putting
  <2>3. truth'.tags = truth.tags BY <1>0, <1>9 DEF ChatLabelled
  <2> QED BY <1>1, <2>1, <2>2, <2>3
<1>10. ASSUME NEW u \in Users, NEW t \in Stamps, TimerTold(u, t) PROVE TagInv'
  <2> DEFINE events == <<Timing(u, t)>>
  <2>1. events \in Seq(Jobs) /\ Change(events) /\ truth' = truth /\ unsure' = unsure
    BY <1>10 DEF TimerTold
  <2>2. \A e \in 1 .. Len(events) : events[e].kind \notin {"tag", "left"} BY DEF Timing
  <2> QED BY <1>1, <2>1, <2>2
<1>11. ASSUME NEW u \in Users, NEW before \in Times \cup {None}, TimerDropped(u, before) PROVE TagInv'
  <2> DEFINE events == <<Untiming(u, before)>>
  <2>1. events \in Seq(Jobs) /\ Change(events) /\ truth' = truth /\ unsure' = unsure
    BY <1>11 DEF TimerDropped
  <2>2. \A e \in 1 .. Len(events) : events[e].kind \notin {"tag", "left"} BY DEF Untiming
  <2> QED BY <1>1, <2>1, <2>2
<1>12. CASE Tick
  <2>1. now' = now + 1 /\ UNCHANGED <<tags, jobs, truth, unsure>> BY <1>12 DEF Tick, tableVars
  <2>2. \A m \in Members : AboutTag(m)' = AboutTag(m) BY <2>1 DEF AboutTag, Pending
  <2>3. \A m \in Members : truth.tags[m] # None => truth.tags[m].at \in Nat
    BY AboutIsAbout DEF Tags, Times
  <2> QED BY <1>0, <2>1, <2>2, <2>3 DEF TagInv, Follows
<1>13. CASE LeavesUnderLid
  <2> DEFINE j == Leaving({Me})
  <2>1. j \in Jobs /\ j.kind = "left" /\ j.who = {Me} BY TablesAssumption DEF Leaving
  <2>2. /\ truth' = [truth EXCEPT !.tags = [n \in Members |-> None]] /\ Change(<<j>>)
        /\ unsure' = unsure \cup (Members \ {Me}) \cup {n \in {Me} : AboutTag(n) # {}}
    BY <1>13 DEF LeavesUnderLid
  <2>3. \A n \in Members : truth'.tags[n] = None BY <1>0, <2>2
  <2> HIDE DEF j
  <2> SUFFICES ASSUME NEW n \in Members \ unsure'
               PROVE  Follows(AboutTag(n)', n, tags'[n], truth'.tags[n], now')
    BY DEF TagInv
  <2>4. n = Me /\ AboutTag(n) = {} BY <2>2
  <2>5. About(j, n) BY <2>1, <2>4 DEF About
  <2>6. AboutTag(n)' = {j} BY <1>2, <2>1, <2>2, <2>4, <2>5
  <2> QED BY <2>1, <2>3, <2>6 DEF Follows
<1> QED
  BY <1>3, <1>4, <1>5, <1>6, <1>7, <1>8, <1>9, <1>10, <1>11, <1>12, <1>13 DEF WhatsApp

\* A job that returns without having touched the row of a member it is not about.
LEMMA QuietReturnKeepsTag ==
    ASSUME TypeOK, TagInv, NEW i \in DOMAIN jobs, Return(i), NEW m \in Members \ unsure,
           ~About(jobs[i], m), tags'[m] = tags[m], UNCHANGED <<truth, now>>
    PROVE  Follows(AboutTag(m)', m, tags'[m], truth'.tags[m], now')
BY ReturnAbout DEF TagInv

LEMMA HandlerKeepsTags ==
    ASSUME TypeOK, TagInv, NEW i \in DOMAIN jobs, Handler(i)
    PROVE  TagInv'
<1>0. jobs[i] \in Jobs BY DEF TypeOK
<1>1. ASSUME Return(i), UNCHANGED <<tags, truth, now>>, unsure \subseteq unsure',
             \A m \in Members \ unsure' : ~About(jobs[i], m)
      PROVE  TagInv'
  BY <1>1, QuietReturnKeepsTag DEF TagInv
<1>2. CASE UpsertLabel(i) \/ AddOrRemoveAssociation(i) \/ UpdateTimer(i) \/ DeleteTimer(i)
  <2>1. /\ Return(i) /\ UNCHANGED <<tags, truth, now, unsure>>
        /\ jobs[i].kind \in {"label", "chat", "timer", "untimer"}
    BY <1>2 DEF UpsertLabel, AddOrRemoveAssociation, UpdateTimer, DeleteTimer, Runs, externalVars
  <2>2. \A m \in Members : ~About(jobs[i], m) BY <2>1 DEF About
  <2> QED BY <1>1, <2>1, <2>2
<1>3. CASE StatementFails(i)
  <2>1. /\ Return(i) /\ UNCHANGED <<tags, truth, now>>
        /\ unsure' = unsure \cup Concerns(jobs[i])
    BY <1>3 DEF StatementFails, externalVars, tableVars
  <2>2. \A m \in Members : About(jobs[i], m) => m \in Concerns(jobs[i])
    BY DEF About, Concerns, AboutLabels
  <2> QED BY <1>1, <2>1, <2>2
<1>4. ASSUME NEW j \in Jobs, Continue(i, j), UNCHANGED <<tags, truth, now, unsure>>,
             jobs[i].kind \notin {"tag", "left"}, j.kind \notin {"tag", "left"}
      PROVE  TagInv'
  <2>1. \A m \in Members : ~About(jobs[i], m) /\ ~About(j, m) BY <1>4 DEF About
  <2>2. \A m \in Members : AboutTag(m)' = AboutTag(m) BY <1>4, <2>1, ContinueAbout
  <2> QED BY <1>4, <2>2 DEF TagInv
<1>5. CASE RemoveAssociationsByLabelID(i) \/ DeleteLabel(i)
  <2>1. /\ Return(i) \/ Continue(i, Deleting(jobs[i].label, 2))
        /\ UNCHANGED <<tags, truth, now, unsure>> /\ jobs[i].kind = "unlabel"
    BY <1>5 DEF RemoveAssociationsByLabelID, DeleteLabel, DeletionGoesOn, Runs, externalVars
  <2>2. CASE Return(i) BY <1>1, <2>1, <2>2 DEF About
  <2>3. CASE Continue(i, Deleting(jobs[i].label, 2))
    <3>1. jobs[i].label \in Labels /\ 2 \in 1 .. 2 BY <1>0, <2>1, JobFields DEF AboutLabels
    <3>2. Deleting(jobs[i].label, 2) \in Jobs BY <3>1, JobsAreJobs
    <3>3. Deleting(jobs[i].label, 2).kind = "unlabel" BY DEF Deleting
    <3> QED BY <1>4, <2>1, <2>3, <3>2, <3>3
  <2> QED BY <2>1, <2>2, <2>3
<1>6. CASE ReadTimer(i)
  <2> DEFINE next == [jobs[i] EXCEPT !.stage = "delete", !.before = Before(i), !.read = timers[jobs[i].user]]
  <2>1. /\ Return(i) \/ Continue(i, next)
        /\ UNCHANGED <<tags, truth, now, unsure>> /\ jobs[i].kind = "untimer"
    BY <1>6 DEF ReadTimer, Runs, externalVars, tableVars
  <2>2. CASE Return(i) BY <1>1, <2>1, <2>2 DEF About
  <2>3. CASE Continue(i, next)
    <3>1. next \in Jobs /\ next.kind = "untimer" BY <2>1, ReadGoesOn
    <3> QED BY <1>4, <2>1, <2>3, <3>1
  <2> QED BY <2>1, <2>2, <2>3
<1>7. CASE DeleteGroupMemberLabels(i)
  <2>1. /\ jobs[i].kind = "left" /\ Return(i) /\ UNCHANGED <<truth, now, unsure>>
        /\ tags' = [m \in Members |-> IF m \in jobs[i].who THEN None ELSE tags[m]]
    BY <1>7 DEF DeleteGroupMemberLabels, Runs, externalVars
  <2> SUFFICES ASSUME NEW m \in Members \ unsure
               PROVE  Follows(AboutTag(m)', m, tags'[m], truth'.tags[m], now')
    BY <2>1 DEF TagInv
  <2>2. CASE m \notin jobs[i].who
    BY <2>1, <2>2, QuietReturnKeepsTag DEF About
  <2>3. CASE m \in jobs[i].who
    <3>1. jobs[i] \in AboutTag(m) BY <2>1, <2>3 DEF AboutTag, Pending
    <3>2. Follows(AboutTag(m), m, tags[m], truth.tags[m], now) BY DEF TagInv
    <3>3. truth'.tags[m] = None BY <2>1, <3>1, <3>2 DEF Follows
    <3>4. tags'[m] = None BY <2>1, <2>3
    <3>5. AboutTag(m)' \subseteq AboutTag(m) BY <2>1, ReturnAbout
    <3>6. \A j \in AboutTag(m)' : j.kind # "tag" BY <2>1, <3>2, <3>3, <3>5 DEF Follows
    <3> QED BY <3>3, <3>4, <3>6 DEF Follows
  <2> QED BY <2>2, <2>3
<1>8. CASE UpsertGroupMemberLabels(i)
  <2>1. /\ jobs[i].kind = "tag" /\ Return(i) /\ UNCHANGED <<truth, now, unsure>>
        /\ tags' = [m \in Members |->
                      LET new == jobs[i].rows[m]
                      IN  IF new # None /\ Wins(tags[m], new) THEN new ELSE tags[m]]
    BY <1>8 DEF UpsertGroupMemberLabels, Runs, externalVars
  <2> SUFFICES ASSUME NEW m \in Members \ unsure
               PROVE  Follows(AboutTag(m)', m, tags'[m], truth'.tags[m], now')
    BY <2>1 DEF TagInv
  <2> DEFINE new == jobs[i].rows[m]  row == tags[m]  true == truth.tags[m]
  <2>2. tags'[m] = IF new # None /\ Wins(row, new) THEN new ELSE row BY <2>1
  <2>3. CASE new = None BY <2>1, <2>2, <2>3, QuietReturnKeepsTag DEF About
  <2>4. CASE new # None
    <3>1. jobs[i] \in AboutTag(m) BY <2>1, <2>4 DEF AboutTag, Pending
    <3>2. Follows(AboutTag(m), m, row, true, now) BY DEF TagInv
    <3>3. true # None /\ Behind(new, true) BY <2>1, <3>1, <3>2 DEF Follows
    <3>4. new \in Tags /\ true \in Tags /\ row \in Tags \cup {None}
      BY <2>1, <3>1, <3>3, AboutIsAbout
    <3>5. new.at \in Nat /\ true.at \in Nat /\ (row # None => row.at \in Nat)
      BY <3>4 DEF Tags, Times
    <3>6. AboutTag(m)' \subseteq AboutTag(m) /\ AboutTag(m) \subseteq AboutTag(m)' \cup {jobs[i]}
      BY <2>1, ReturnAbout
    <3>7. \A j \in AboutTag(m) : j.kind # "left" BY <3>2, <3>3 DEF Follows
    <3>8. row # None => Behind(row, true) BY <3>2, <3>7 DEF Follows
    <3>9. row = true \/ (\E j \in AboutTag(m)' : j.kind = "tag" /\ j.rows[m] = true) \/ new = true
      BY <3>2, <3>3, <3>6 DEF Follows
    <3> HIDE DEF new, row, true
    <3>10. tags'[m] # None /\ Behind(tags'[m], true)
      <4>1. CASE Wins(row, new) BY <2>2, <2>4, <3>3, <4>1
      <4>2. CASE ~Wins(row, new)
        <5>1. row # None BY <4>2 DEF Wins
        <5> QED BY <2>2, <3>8, <4>2, <5>1
      <4> QED BY <4>1, <4>2
    <3>11. tags'[m] = true \/ \E j \in AboutTag(m)' : j.kind = "tag" /\ j.rows[m] = true
      <4>1. CASE row = true
        <5>1. Wins(row, new) => new = true BY <3>3, <3>5, <4>1 DEF Wins, Behind
        <5> QED BY <2>2, <4>1, <5>1
      <4>2. CASE new = true
        <5>1. ~Wins(row, new) => row # None /\ row.at > true.at BY <3>5, <4>2 DEF Wins
        <5>2. Wins(row, new) BY <3>5, <3>8, <5>1 DEF Behind
        <5> QED BY <2>2, <2>4, <4>2, <5>2
      <4> QED BY <3>9, <4>1, <4>2
    <3>12. /\ true # None => true.at <= now'
           /\ \A j \in AboutTag(m)' : j.kind = "tag" => Behind(j.rows[m], true)
           /\ \A j \in AboutTag(m)' : j.kind # "left"
      BY <2>1, <3>2, <3>6, <3>7 DEF Follows
    <3>13. truth'.tags[m] = true BY <2>1 DEF true
    <3> QED BY <3>3, <3>10, <3>11, <3>12, <3>13 DEF Follows
  <2> QED BY <2>3, <2>4
<1> QED BY <1>2, <1>3, <1>5, <1>6, <1>7, <1>8 DEF Handler

LEMMA TagsInvariant == Spec => []TagInv
<1>1. TypeOK /\ TagInv /\ [Next]_vars => TagInv'
  <2> SUFFICES ASSUME TypeOK, TagInv, [Next]_vars PROVE TagInv' OBVIOUS
  <2>1. CASE WhatsApp BY <2>1, WhatsAppKeepsTags
  <2>2. ASSUME NEW i \in DOMAIN jobs, Handler(i) PROVE TagInv' BY <2>2, HandlerKeepsTags
  <2>3. CASE Crash
    <3>1. /\ jobs' = <<>> /\ UNCHANGED <<tags, truth, now>>
          /\ unsure' = unsure \cup UNION {Concerns(j) : j \in Pending}
      BY <2>3 DEF Crash, tableVars, externalVars
    <3>2. \A m \in Members : AboutTag(m)' = {} BY <3>1 DEF AboutTag, Pending
    <3>3. ASSUME NEW m \in Members \ unsure' PROVE AboutTag(m) = {}
      <4>1. \A j \in AboutTag(m) : m \in Concerns(j) /\ j \in Pending
        BY DEF AboutTag, Concerns, AboutLabels
      <4> QED BY <3>1, <4>1
    <3> QED BY <3>1, <3>2, <3>3 DEF TagInv
  <2>4. CASE UNCHANGED vars
    BY <2>4 DEF vars, tableVars, externalVars, TagInv, AboutTag, Pending
  <2> QED BY <2>1, <2>2, <2>3, <2>4 DEF Next
<1> QED BY <1>1, InitTags, TypeCorrect, PTL DEF Spec

\* However tags that are set live and tags that history repeats cross on their way to the
\* table, for any number of them: once they are handled, the row is the newest of them, but
\* for the members that TagsSettle leaves out: those who stay when I leave under my @lid too.
THEOREM TagsFollow == Spec => []TagsSettle
<1>1. TypeOK /\ TagInv => TagsSettle BY DEF TagInv, TagsSettle, Follows
<1> QED BY <1>1, TagsInvariant, TypeCorrect, PTL

-----------------------------------------------------------------------------
(* Timers *)

\* A deletion that has read a timer found it older than the deletion.
FoundOlder(j) ==
    j.kind = "untimer" /\ j.stage = "delete" =>
        j.read \in Stamps /\ j.before \in Times /\ j.read < j.before

TimerInv == \A i \in DOMAIN jobs : FoundOlder(jobs[i])

\* What is new from WhatsApp has read nothing yet.
LEMMA ChangeKeepsTimers ==
    ASSUME TypeOK, TimerInv, NEW events \in Seq(Jobs), Change(events),
           \A k \in DOMAIN events : events[k].kind = "untimer" => events[k].stage = "read"
    PROVE  TimerInv'
<1> SUFFICES ASSUME NEW k \in DOMAIN jobs' PROVE FoundOlder(jobs'[k])
  BY DEF TimerInv
<1> DEFINE n == Len(jobs)
<1>1. /\ n \in Nat /\ DOMAIN jobs = 1 .. n /\ k \in 1 .. n + Len(events)
      /\ \A e \in DOMAIN jobs : jobs'[e] = jobs[e]
      /\ \A e \in n + 1 .. n + Len(events) : jobs'[e] = events[e - n]
  BY ChangeAppends
<1>2. Len(events) \in Nat /\ DOMAIN events = 1 .. Len(events) OBVIOUS
<1> HIDE DEF n
<1>3. CASE k \in 1 .. n BY <1>1, <1>3 DEF TimerInv
<1>4. CASE k \notin 1 .. n
  <2>1. k \in n + 1 .. n + Len(events) /\ k - n \in 1 .. Len(events) BY <1>1, <1>2, <1>4
  <2>2. jobs'[k] = events[k - n] BY <1>1, <2>1
  <2> QED BY <1>2, <2>1, <2>2 DEF FoundOlder
<1> QED BY <1>3, <1>4

LEMMA WhatsAppKeepsTimers ==
    ASSUME TypeOK, TimerInv, WhatsApp
    PROVE  TimerInv'
<1> USE JobsAreJobs, TimesAreTimes
<1>1. ASSUME NEW j \in Jobs, Change(<<j>>), j.kind = "untimer" => j.stage = "read"
      PROVE  TimerInv'
  <2>1. <<j>> \in Seq(Jobs) /\ \A k \in DOMAIN <<j>> : <<j>>[k] = j OBVIOUS
  <2> QED BY <1>1, <2>1, ChangeKeepsTimers
<1>2. ASSUME NEW m \in Members, NEW text \in Texts \cup {NoText}, TagChanges(m, text) PROVE TimerInv'
  <2> DEFINE row == [text |-> text, at |-> now]
  <2>1. row \in Tags BY DEF Tags, TypeOK
  <2>2. One(m, row) \in TagRows BY <2>1 DEF One, TagRows
  <2>3. Change(<<Tagging(One(m, row))>>) /\ Tagging(One(m, row)).kind = "tag"
    BY <1>2 DEF TagChanges, Tagging
  <2> QED BY <1>1, <2>2, <2>3
<1>3. ASSUME NEW m \in Members, Leaves(m) PROVE TimerInv'
  <2> DEFINE who == IF m = Me THEN Members ELSE {m}
  <2>1. Change(<<Leaving(who)>>) /\ Leaving(who).kind = "left" /\ who \in SUBSET Members
    BY <1>3 DEF Leaves, Leaving
  <2> QED BY <1>1, <2>1
<1>4. CASE HistoryOfGroup
  <2> DEFINE rows == [m \in Members |-> IF truth.tags[m] # None /\ truth.tags[m].text = NoText
                                        THEN None ELSE truth.tags[m]]
  <2>1. rows \in TagRows BY DEF TypeOK, TagRows
  <2>2. Change(<<Tagging(rows)>>) /\ Tagging(rows).kind = "tag"
    BY <1>4 DEF HistoryOfGroup, Tagging
  <2> QED BY <1>1, <2>1, <2>2
<1>5. ASSUME NEW l \in Labels, NEW text \in Texts, LabelEdited(l, text) PROVE TimerInv'
  <2>1. Change(<<Naming(l, text)>>) /\ Naming(l, text).kind = "label"
    BY <1>5 DEF LabelEdited, Naming
  <2> QED BY <1>1, <2>1
<1>6. ASSUME NEW l \in Labels, NEW text \in Texts, NEW c \in Chats, LabelSynced(l, text, c) PROVE TimerInv'
  <2> DEFINE one == Putting(l, c, TRUE)  two == Naming(l, text)
  <2>1. /\ one \in Jobs /\ two \in Jobs /\ one.kind = "chat" /\ two.kind = "label"
        /\ Change(<<one, two>>)
    BY <1>6 DEF LabelSynced, Putting, Naming
  <2> HIDE DEF one, two
  <2>2. <<one, two>> \in Seq(Jobs) BY <2>1, Pairs
  <2>3. \A k \in DOMAIN <<one, two>> : <<one, two>>[k] = one \/ <<one, two>>[k] = two OBVIOUS
  <2> QED BY <2>1, <2>2, <2>3, ChangeKeepsTimers
<1>7. ASSUME NEW l \in Labels, LabelRemoved(l) PROVE TimerInv'
  <2>1. Change(<<Deleting(l, 1)>>) /\ Deleting(l, 1).kind = "unlabel"
    BY <1>7 DEF LabelRemoved, Deleting
  <2> QED BY <1>1, <2>1
<1>8. ASSUME NEW l \in Labels, NEW c \in Chats, NEW yes \in BOOLEAN, ChatLabelled(l, c, yes) PROVE TimerInv'
  <2>1. Change(<<Putting(l, c, yes)>>) /\ Putting(l, c, yes).kind = "chat"
    BY <1>8 DEF ChatLabelled, Putting
  <2> QED BY <1>1, <2>1
<1>9. ASSUME NEW u \in Users, NEW t \in Stamps, TimerTold(u, t) PROVE TimerInv'
  <2>1. Change(<<Timing(u, t)>>) /\ Timing(u, t).kind = "timer" BY <1>9 DEF TimerTold, Timing
  <2> QED BY <1>1, <2>1
<1>10. ASSUME NEW u \in Users, NEW before \in Times \cup {None}, TimerDropped(u, before) PROVE TimerInv'
  <2>1. Change(<<Untiming(u, before)>>) /\ Untiming(u, before).stage = "read"
    BY <1>10 DEF TimerDropped, Untiming
  <2> QED BY <1>1, <2>1
<1>11. CASE Tick BY <1>11 DEF Tick, TimerInv
<1>12. CASE LeavesUnderLid
  <2>1. Change(<<Leaving({Me})>>) /\ Leaving({Me}).kind = "left" /\ {Me} \in SUBSET Members
    BY <1>12, TablesAssumption DEF LeavesUnderLid, Leaving
  <2> QED BY <1>1, <2>1
<1> QED BY <1>2, <1>3, <1>4, <1>5, <1>6, <1>7, <1>8, <1>9, <1>10, <1>11, <1>12 DEF WhatsApp

\* The comparison is made when the timer is read.
LEMMA ReadFoundOlder ==
    ASSUME TypeOK, NEW i \in DOMAIN jobs, ReadTimer(i), ~Return(i)
    PROVE  \E next \in Jobs : Continue(i, next) /\ FoundOlder(next)
<1> DEFINE t == timers[jobs[i].user]
           next == [jobs[i] EXCEPT !.stage = "delete", !.before = Before(i), !.read = t]
<1>1. t # None /\ Older(t, Before(i)) /\ Continue(i, next) BY DEF ReadTimer
<1>0. jobs[i].kind = "untimer" BY DEF ReadTimer, Runs
<1>2. next \in Jobs BY <1>0, ReadGoesOn
<1>3. jobs[i] \in Jobs BY DEF TypeOK
<1>4. jobs[i] \in [kind : {"untimer"}, user : Users, before : Times \cup {None},
                   stage : {"read", "delete"}, read : Stamps \cup {None}]
  BY <1>0, <1>3, JobFields
<1>5. t \in Stamps BY <1>1, <1>4 DEF TypeOK
<1>6. Before(i) \in Times BY <1>4 DEF Before, TypeOK
<1>7. next.read = t /\ next.before = Before(i) BY <1>4
<1>8. t < Before(i) BY <1>1 DEF Older
<1> HIDE DEF t, next
<1> QED BY <1>1, <1>2, <1>5, <1>6, <1>7, <1>8 DEF FoundOlder

LEMMA HandlerKeepsTimers ==
    ASSUME TypeOK, TimerInv, NEW i \in DOMAIN jobs, Handler(i)
    PROVE  TimerInv'
<1>0. jobs[i] \in Jobs BY DEF TypeOK
<1>1. ASSUME Return(i) PROVE TimerInv'
  BY <1>1, ReturnShifts DEF TimerInv
<1>2. ASSUME NEW j \in Jobs, Continue(i, j), FoundOlder(j) PROVE TimerInv'
  <2>1. /\ DOMAIN jobs' = DOMAIN jobs /\ jobs'[i] = j
        /\ \A k \in DOMAIN jobs \ {i} : jobs'[k] = jobs[k]
    BY <1>2, ContinueStays
  <2> QED BY <1>2, <2>1 DEF TimerInv
<1>3. CASE ReadTimer(i) BY <1>1, <1>2, <1>3, ReadFoundOlder
<1>4. CASE RemoveAssociationsByLabelID(i) \/ DeleteLabel(i)
  <2>1. (Return(i) \/ Continue(i, Deleting(jobs[i].label, 2))) /\ jobs[i].kind = "unlabel"
    BY <1>4 DEF RemoveAssociationsByLabelID, DeleteLabel, DeletionGoesOn, Runs
  <2>2. Deleting(jobs[i].label, 2) \in Jobs /\ Deleting(jobs[i].label, 2).kind = "unlabel"
    <3>1. jobs[i].label \in Labels /\ 2 \in 1 .. 2 BY <1>0, <2>1, JobFields DEF AboutLabels
    <3>2. Deleting(jobs[i].label, 2) \in Jobs BY <3>1, JobsAreJobs
    <3> QED BY <3>2 DEF Deleting
  <2> QED BY <1>1, <1>2, <2>1, <2>2 DEF FoundOlder
<1>5. CASE \/ UpsertGroupMemberLabels(i) \/ DeleteGroupMemberLabels(i) \/ UpsertLabel(i)
           \/ AddOrRemoveAssociation(i) \/ UpdateTimer(i) \/ DeleteTimer(i) \/ StatementFails(i)
  BY <1>1, <1>5 DEF UpsertGroupMemberLabels, DeleteGroupMemberLabels, UpsertLabel,
                    AddOrRemoveAssociation, UpdateTimer, DeleteTimer, StatementFails
<1> QED BY <1>3, <1>4, <1>5 DEF Handler

LEMMA TimersInvariant == Spec => []TimerInv
<1>1. Init => TimerInv BY DEF Init, TimerInv
<1>2. TypeOK /\ TimerInv /\ [Next]_vars => TimerInv'
  <2> SUFFICES ASSUME TypeOK, TimerInv, [Next]_vars PROVE TimerInv' OBVIOUS
  <2>1. CASE WhatsApp BY <2>1, WhatsAppKeepsTimers
  <2>2. ASSUME NEW i \in DOMAIN jobs, Handler(i) PROVE TimerInv' BY <2>2, HandlerKeepsTimers
  <2>3. CASE Crash BY <2>3 DEF Crash, TimerInv
  <2>4. CASE UNCHANGED vars BY <2>4 DEF vars, TimerInv
  <2> QED BY <2>1, <2>2, <2>3, <2>4 DEF Next
<1> QED BY <1>1, <1>2, TypeCorrect, PTL DEF Spec

\* Whatever the timer was when the deletion began, and whoever stores one between its two
\* statements: a timer as new as the deletion goes only if it came after the reading.
THEOREM NewerTimersStay == Spec => OnlyOlderTimersGo
<1>1. TypeOK /\ TimerInv /\ [Next]_vars =>
        [\A i \in DOMAIN jobs :
           DeleteTimer(i) =>
             LET t == timers[jobs[i].user]
             IN  t # None /\ t >= jobs[i].before => t # jobs[i].read]_vars
  <2> SUFFICES ASSUME TypeOK, TimerInv, NEW i \in DOMAIN jobs, DeleteTimer(i),
                      timers[jobs[i].user] # None, timers[jobs[i].user] >= jobs[i].before
               PROVE  timers[jobs[i].user] # jobs[i].read
    OBVIOUS
  <2>1. jobs[i].read \in Stamps /\ jobs[i].before \in Times /\ jobs[i].read < jobs[i].before
    BY DEF TimerInv, FoundOlder, DeleteTimer, Runs
  <2> QED BY <2>1, TablesAssumption DEF Stamps, Times
<1> QED BY <1>1, TimersInvariant, TypeCorrect, PTL DEF Spec, OnlyOlderTimersGo
=============================================================================
