------------------------------ MODULE GroupCache ------------------------------
(***************************************************************************)
(* The stored groups of a session (gows/storage_groups_cache.go): updates    *)
(* that apply to one participant version, refreshes that replace every row,  *)
(* and the writers that take no lock; with the participants' arithmetic of    *)
(* storage/helpers and the group rows of the chat ephemeral settings.        *)
(*                                                                          *)
(* A worker is a goroutine: one of an event (processEvent) or of a gRPC call. *)
(* Its calls are the statements it has left to run, so others run between    *)
(* any two of them.  WhatsApp is external: it changes a group and sends an    *)
(* event about that; each event is handled in a goroutine of its own, so     *)
(* in any order.  Of a group's parameters only the ephemeral one is told     *)
(* apart, of a participant whether it is in the group and an admin.          *)
(***************************************************************************)
EXTENDS Naturals, Sequences, FiniteSets

CONSTANTS Workers,    \* goroutines
          Groups,
          People,
          None,
          Roster,     \* the participants of a group at each of its versions
          Attempts,   \* attempts of retry.Do (10 in the code)
          Named,      \* the groups that share and chat jobs are about (a bound)
          MaxChanges  \* changes that WhatsApp makes to a group (a bound)

Roles == {"out", "member", "admin"}
Rosters == [People -> Roles]

ASSUME CacheAssumption ==
    /\ None \notin Workers \cup Groups
    /\ IsFiniteSet(Groups)
    /\ Roster \in [Groups -> Seq(Rosters) \ {<<>>}]
    /\ Attempts \in Nat \ {0}
    /\ Named \subseteq Groups
    /\ MaxChanges \in [Groups -> Nat]

VARIABLES row,      \* gows_groups
          setting,  \* groups with a row in the chat ephemeral settings
          stamped,  \* those whose row may have a timestamp, from a message or history
          fresh,    \* lastTimeRefreshed is within refreshInterval
          lock,     \* the worker that holds GroupCacheStorage.lock
          work,     \* the workers
          server,   \* external: the groups as WhatsApp has them
          events,   \* external: events whose goroutine has not begun, oldest first
          changes,  \* external: how often WhatsApp changed a group
          unsure    \* history: groups whose row may differ from WhatsApp's for a known reason

cacheVars == <<row, setting, stamped, fresh>>
serverVars == <<server, changes>>
vars == <<cacheVars, lock, work, serverVars, events, unsure>>

Versions(g) == 1 .. Len(Roster[g])
NoRow == [ver |-> 0, roster |-> [p \in People |-> "out"], eph |-> FALSE]
Rows == [ver : Nat, roster : Rosters, eph : BOOLEAN]

\* An event about a group: that we joined or left it, that its participants changed to
\* version ver, that its ephemeral parameter did.  "left" is a leave under our phone number,
\* which is all that handleMeLeftGroup compares with; under our @lid, or while Store.ID is nil,
\* it is a change of participants like any other.  "chat" is any other event that writes its
\* ephemeral setting: a deleted chat, a protocol message, history.  "fetch" is a gRPC call that
\* refreshes the groups, "share" SetGroupMemberShareHistoryMode.
EventKinds == {"joined", "left", "people", "eph"}
Jobs == [kind : EventKinds \cup {"chat", "fetch", "share", "none"},
         g : Groups \cup {None}, ver : Nat, eph : BOOLEAN]
Job(kind, g, ver, eph) == [kind |-> kind, g |-> g, ver |-> ver, eph |-> eph]

Ops == {"lock", "unlock", "joined", "existing", "load", "peek",
        "set", "put", "unset", "del", "mark"}
Calls == [op : Ops, g : Groups \cup {None}, row : Rows]
Call(op, g, r) == [op |-> op, g |-> g, row |-> r]
Do(op) == Call(op, None, NoRow)

Idle == [job |-> Job("none", None, 0, FALSE), calls |-> <<>>, tries |-> 0,
         got |-> [g \in Groups |-> NoRow], alone |-> TRUE]

TypeOK ==
    /\ row \in [Groups -> Rows]
    /\ setting \subseteq Groups
    /\ stamped \subseteq setting
    /\ fresh \in BOOLEAN
    /\ lock \in Workers \cup {None}
    /\ work \in [Workers -> [job : Jobs, calls : Seq(Calls), tries : 0 .. Attempts - 1,
                             got : [Groups -> Rows], alone : BOOLEAN]]
    /\ server \in [Groups -> [in : BOOLEAN, ver : Nat, eph : BOOLEAN]]
    /\ \A g \in Groups : server[g].ver \in Versions(g)
    /\ events \in Seq(Jobs)
    /\ changes \in [Groups -> Nat]
    /\ \A g \in Groups : changes[g] <= MaxChanges[g]
    /\ unsure \subseteq Groups

-----------------------------------------------------------------------------
(* Participants *)

RowAt(g, ver, eph) == [ver |-> ver, roster |-> Roster[g][ver], eph |-> eph]

\* What WhatsApp reports of the change from version ver - 1 to version ver.
Changed(g, ver, P(_, _)) == {p \in People : P(Roster[g][ver - 1][p], Roster[g][ver][p])}
Joining(g, ver) == Changed(g, ver, LAMBDA old, new : old = "out" /\ new # "out")
Leaving(g, ver) == Changed(g, ver, LAMBDA old, new : old # "out" /\ new = "out")
Promoting(g, ver) == Changed(g, ver, LAMBDA old, new : old # "admin" /\ new = "admin")
Demoting(g, ver) == Changed(g, ver, LAMBDA old, new : old = "admin" /\ new = "member")

\* ParticipantsMap: Join, Leave, Promote and Demote, in this order; promoting or demoting
\* somebody who is not there does nothing.
Updated(roster, g, ver) ==
    LET joined == [p \in People |-> IF p \in Joining(g, ver) /\ roster[p] = "out"
                                      THEN "member" ELSE roster[p]]
        stayed == [p \in People |-> IF p \in Leaving(g, ver) THEN "out" ELSE joined[p]]
        raised == [p \in People |-> IF p \in Promoting(g, ver) /\ stayed[p] # "out"
                                      THEN "admin" ELSE stayed[p]]
    IN  [p \in People |-> IF p \in Demoting(g, ver) /\ raised[p] # "out"
                            THEN "member" ELSE raised[p]]

-----------------------------------------------------------------------------
(* Jobs *)

\* The calls of an event's job; those under the lock begin anew with each attempt.
Plan(job) ==
    CASE job.kind = "joined" -> LET r == RowAt(job.g, job.ver, job.eph)
                                IN  <<Call("set", job.g, r), Call("put", job.g, r)>>
      [] job.kind = "left" -> <<Call("unset", job.g, NoRow), Call("del", job.g, NoRow)>>
      [] job.kind = "chat" -> <<Call("set", job.g, [NoRow EXCEPT !.eph = job.eph])>>
      [] job.kind \in {"people", "eph"} -> <<Do("lock"), Do("load"), Do("unlock")>>

Unlocked == {"joined", "left", "chat", "share"}
Busy == {w \in Workers : work[w] # Idle}

\* History: two jobs at work at once whose writes the lock does not order, or, for the
\* ephemeral parameter, does not order as WhatsApp did.
Conflict(a, b) ==
    \/ a.kind \in Unlocked \/ b.kind \in Unlocked
    \/ a.kind = "eph" /\ b.kind = "eph" /\ a.g = b.g

\* Worker w begins a job.  "tangled": something about it is out of order.
Begin(w, job, calls, tangled) ==
    /\ work[w] = Idle
    /\ LET mixed == tangled \/ \E v \in Busy : Conflict(job, work[v].job)
       IN  /\ work' = [v \in Workers |->
                         IF v = w THEN [Idle EXCEPT !.job = job, !.calls = calls, !.alone = ~mixed]
                                  ELSE [work[v] EXCEPT !.alone = @ /\ (v \notin Busy \/ ~mixed)]]
           /\ unsure' = IF mixed THEN Groups ELSE unsure
    /\ UNCHANGED <<cacheVars, serverVars>>

\* The goroutine of one of the events begins, not necessarily the oldest one.
HandleEvent(w) ==
    \E i \in DOMAIN events :
        /\ Begin(w, events[i], Plan(events[i]), \E j \in 1 .. i - 1 : events[j].g = events[i].g)
        /\ events' = [j \in 1 .. Len(events) - 1 |-> events[IF j < i THEN j ELSE j + 1]]
        /\ UNCHANGED lock

UpdateOtherwise(w) ==
    \E g \in Named, eph \in BOOLEAN :
        LET job == Job("chat", g, 0, eph)
        IN  Begin(w, job, Plan(job), TRUE) /\ UNCHANGED <<lock, events>>

AcquireFree(w) == UNCHANGED lock   \* mutant: nobody locks
Acquire(w) == lock = None /\ lock' = w

\* FetchGroups(true), and whoever reads groups when the cache is not fresh.  Reading a fresh
\* one, and waiting for the lock to do so, changes nothing.
FetchGroups(w) ==
    /\ Acquire(w)
    /\ Begin(w, Job("fetch", None, 0, FALSE), <<Do("joined"), Do("unlock")>>, FALSE)
    /\ UNCHANGED events

SetGroupMemberShareHistoryMode(w) ==
    /\ lock = None
    /\ lock' = IF fresh THEN None ELSE w
    /\ \E g \in Named :
         Begin(w, Job("share", g, 0, FALSE),
               IF fresh THEN <<Do("peek")>> ELSE <<Do("joined"), Do("unlock"), Do("peek")>>, FALSE)
    /\ UNCHANGED events

-----------------------------------------------------------------------------
(* Calls *)

Calling(w, op) == work[w].calls # <<>> /\ Head(work[w].calls).op = op
This(w) == Head(work[w].calls)
Rest(w) == Tail(work[w].calls)

\* The job goes on with these calls; it ends with the last one.
Continue(w, calls) ==
    work' = [work EXCEPT ![w] = IF calls = <<>> THEN Idle ELSE [@ EXCEPT !.calls = calls]]

\* fetchGroupsIfNeeded of UpdateGroup: after a refresh the update is skipped.
Lock(w) ==
    /\ Calling(w, "lock")
    /\ Acquire(w)
    /\ Continue(w, IF fresh THEN Rest(w) ELSE <<Do("joined"), Do("unlock")>>)
    /\ UNCHANGED <<cacheVars, serverVars, events, unsure>>

Unlock(w) ==
    /\ Calling(w, "unlock")
    /\ lock' = None
    /\ Continue(w, Rest(w))
    /\ UNCHANGED <<cacheVars, serverVars, events, unsure>>

\* GetJoinedGroups: what WhatsApp has, or an empty list, which is not to be believed.
GetJoinedGroups(w) ==
    /\ Calling(w, "joined")
    /\ \E none \in BOOLEAN :
         /\ work' = [work EXCEPT ![w] =
              [@ EXCEPT !.calls = <<Do("existing")>> \o Rest(w),
                        !.got = [g \in Groups |->
                                   IF server[g].in /\ ~none
                                     THEN RowAt(g, server[g].ver, server[g].eph) ELSE NoRow]]]
         /\ unsure' = IF none THEN Groups ELSE unsure
    /\ UNCHANGED <<cacheVars, lock, serverVars, events>>

Reported(w) == {g \in Groups : work[w].got[g] # NoRow}
Orders(S) == {s \in [1 .. Cardinality(S) -> S] : \A g \in S : \E i \in DOMAIN s : s[i] = g}
Pairwise(s, first(_), second(_)) ==   \* first(s[1]), second(s[1]), first(s[2]), ...
    [i \in 1 .. 2 * Len(s) |-> IF i % 2 = 1 THEN first(s[(i + 1) \div 2]) ELSE second(s[i \div 2])]

Upserts(got, s) ==
    Pairwise(s, LAMBDA g : Call("set", g, got[g]), LAMBDA g : Call("put", g, got[g]))
Deletes(s) == Pairwise(s, LAMBDA g : Call("unset", g, NoRow), LAMBDA g : Call("del", g, NoRow))
Mark(w) == IF Reported(w) = {} THEN <<>> ELSE <<Do("mark")>>

\* Mutants: what is stale is deleted first, or stays.
RefreshWiping(w, s, d) == Deletes(d) \o Upserts(work[w].got, s) \o Mark(w)
RefreshKeepsStale(w, s, d) == Upserts(work[w].got, s) \o Mark(w)

Refresh(w, s, d) == Upserts(work[w].got, s) \o Deletes(d) \o Mark(w)

\* fetchGroupsUnlocked from the listing of the stored groups on: those that were not
\* reported are stale.
GetAllGroups(w) ==
    /\ Calling(w, "existing")
    /\ \E s \in Orders(Reported(w)), d \in Orders({g \in Groups : row[g] # NoRow} \ Reported(w)) :
         Continue(w, Refresh(w, s, d) \o Rest(w))
    /\ UNCHANGED <<cacheVars, lock, serverVars, events, unsure>>

AppliesAlways(job, old) == TRUE   \* mutant: the participant version is not compared
Applies(job, old) == job.kind = "eph" \/ old.ver = job.ver - 1

\* GetGroup of UpdateGroup with UpdateGroupInfo.
GetGroupToUpdate(w) ==
    /\ Calling(w, "load")
    /\ LET job == work[w].job
           old == row[job.g]
           people == [old EXCEPT !.ver = job.ver, !.roster = Updated(old.roster, job.g, job.ver)]
           eph == [old EXCEPT !.eph = job.eph]
       IN  /\ old # NoRow
           /\ Applies(job, old)
           /\ Continue(w, (IF job.kind = "people"
                              THEN <<Call("put", job.g, people)>>
                              ELSE <<Call("set", job.g, eph), Call("put", job.g, eph)>>) \o Rest(w))
    /\ UNCHANGED <<cacheVars, lock, serverVars, events, unsure>>

\* GetGroup of SetGroupMemberShareHistoryMode, which has released the lock.
GetGroupToShare(w) ==
    /\ Calling(w, "peek")
    /\ LET g == work[w].job.g
       IN  /\ row[g] # NoRow
           /\ Continue(w, <<Call("set", g, row[g]), Call("put", g, row[g])>>)
    /\ UNCHANGED <<cacheVars, lock, serverVars, events, unsure>>

\* UpdateChatEphemeralSetting.  What a group's parameter says is stored with no timestamp, what
\* a message or history says with one.
UpdateSetting(w) ==
    /\ Calling(w, "set")
    /\ setting' = IF This(w).row.eph THEN setting \cup {This(w).g} ELSE setting \ {This(w).g}
    /\ stamped' = IF This(w).row.eph /\ work[w].job.kind = "chat"
                    THEN stamped \cup {This(w).g} ELSE stamped \ {This(w).g}
    /\ Continue(w, Rest(w))
    /\ UNCHANGED <<row, fresh, lock, serverVars, events, unsure>>

PutGroup(w) ==
    /\ Calling(w, "put")
    /\ row' = [row EXCEPT ![This(w).g] = This(w).row]
    /\ Continue(w, Rest(w))
    /\ UNCHANGED <<setting, stamped, fresh, lock, serverVars, events, unsure>>

DeleteSetting(w) ==
    /\ Calling(w, "unset")
    /\ setting' = setting \ {This(w).g}
    /\ stamped' = stamped \ {This(w).g}
    /\ Continue(w, Rest(w))
    /\ UNCHANGED <<row, fresh, lock, serverVars, events, unsure>>

DeleteGroup(w) ==
    /\ Calling(w, "del")
    /\ row' = [row EXCEPT ![This(w).g] = NoRow]
    /\ Continue(w, Rest(w))
    /\ UNCHANGED <<setting, stamped, fresh, lock, serverVars, events, unsure>>

\* Groups with an event that is not handled yet, whoever else is handling one.
Due(w) == {events[i].g : i \in DOMAIN events} \cup {work[v].job.g : v \in Workers \ {w}}

MarkFresh(w) ==
    /\ Calling(w, "mark")
    /\ fresh' = TRUE
    /\ unsure' = IF work[w].alone THEN unsure \cap Due(w) ELSE unsure
    /\ Continue(w, Rest(w))
    /\ UNCHANGED <<row, setting, stamped, lock, serverVars, events>>

\* The call has no effect, and the job goes on.
Skip(w) ==
    /\ work' = [work EXCEPT ![w] =
                  IF Rest(w) = <<>> THEN Idle
                  ELSE [@ EXCEPT !.calls = Rest(w), !.alone = FALSE]]
    /\ unsure' = unsure \cup {This(w).g}
    /\ UNCHANGED <<cacheVars, lock, serverVars, events>>

\* A failure is logged.
CallSkipped(w) ==
    /\ work[w].calls # <<>>
    /\ This(w).op \in {"set", "unset", "del"}
    /\ Skip(w)

\* "Only delete if the setting is older than the delete event": one with a timestamp that is
\* not stays.
SettingKept(w) ==
    /\ Calling(w, "unset") \/ (Calling(w, "set") /\ ~This(w).row.eph)
    /\ This(w).g \in stamped
    /\ Skip(w)

Aborts(w) == /\ work[w].calls # <<>>
             /\ This(w).op \in {"joined", "existing", "load", "peek", "put"}

\* Mutant: the lock stays with who failed.
Kept(w) == lock

\* handleGroupInfo tries again, the others do not.
Again(w) == work[w].job.kind \in {"people", "eph"} /\ work[w].tries + 1 < Attempts
Released(w) == IF lock = w THEN None ELSE lock   \* the deferred Unlock
Retried(w) == IF Again(w)
                THEN [work[w] EXCEPT !.calls = Plan(work[w].job), !.tries = @ + 1]
                ELSE Idle

\* Given up, an update is missing unless a refresh has brought it; so is a row that was
\* not stored.
Missed(w) ==
    LET job == work[w].job
        g == This(w).g
    IN  (IF This(w).op = "put" /\ ~(Again(w) /\ g = job.g) THEN {g} ELSE {})
          \cup (IF \/ job.kind = "eph" /\ ~Again(w)
                   \/ job.kind = "people" /\ ~Again(w) /\ row[job.g].ver < job.ver
                  THEN {job.g} ELSE {})

\* A failure, a group that is not stored or a version that does not match: the function
\* returns it.
CallAborts(w) ==
    /\ Aborts(w)
    /\ lock' = Released(w)
    /\ work' = [work EXCEPT ![w] = Retried(w)]
    /\ unsure' = unsure \cup Missed(w)
    /\ UNCHANGED <<cacheVars, serverVars, events>>

-----------------------------------------------------------------------------
(* WhatsApp, the clock, the process *)

\* Group g changes to "now"; the event about it is sent.  A change of participants after which
\* we are not in the group is our own leave under @lid.
Change(g, kind, now) ==
    /\ changes[g] < MaxChanges[g]
    /\ changes' = [changes EXCEPT ![g] = @ + 1]
    /\ server' = [server EXCEPT ![g] = now]
    /\ events' = Append(events, Job(kind, g, now.ver, now.eph))
    /\ unsure' = IF kind = "people" /\ ~now.in THEN unsure \cup {g} ELSE unsure
    /\ UNCHANGED <<cacheVars, lock, work>>

ServerChanges ==
    \E g \in Groups :
        LET is == server[g]
        IN  \/ ~is.in /\ Change(g, "joined", [is EXCEPT !.in = TRUE])
            \/ is.in /\ Change(g, "left", [is EXCEPT !.in = FALSE])
            \/ /\ is.in /\ is.ver < Len(Roster[g])
               /\ \E in \in BOOLEAN : Change(g, "people", [is EXCEPT !.in = in, !.ver = @ + 1])
            \/ is.in /\ Change(g, "eph", [is EXCEPT !.eph = ~@])

\* refreshInterval passes.
Age == fresh /\ fresh' = FALSE /\ UNCHANGED <<row, setting, stamped, lock, work, serverVars, events, unsure>>

\* The process ends and is started again.
Restart ==
    /\ fresh' = FALSE
    /\ lock' = None
    /\ work' = [w \in Workers |-> Idle]
    /\ events' = <<>>
    /\ unsure' = Groups
    /\ UNCHANGED <<row, setting, stamped, serverVars>>

-----------------------------------------------------------------------------

\* A new session, or one that has refreshed its groups; Restart leads to those that find
\* rows of an earlier process.  A group that we are never in is none of Groups.
Init ==
    /\ server \in [Groups -> [in : BOOLEAN, ver : {1}, eph : {FALSE}]]
    /\ \A g \in Groups : server[g].in \/ MaxChanges[g] > 0
    /\ fresh \in BOOLEAN
    /\ fresh => \E g \in Groups : server[g].in
    /\ row = [g \in Groups |-> IF fresh /\ server[g].in THEN RowAt(g, 1, FALSE) ELSE NoRow]
    /\ setting = {}
    /\ stamped = {}
    /\ lock = None
    /\ work = [w \in Workers |-> Idle]
    /\ events = <<>>
    /\ changes = [g \in Groups |-> 0]
    /\ unsure = IF fresh THEN {} ELSE Groups

Statement(w) ==
    \/ Unlock(w) \/ GetJoinedGroups(w) \/ GetAllGroups(w)
    \/ GetGroupToUpdate(w) \/ GetGroupToShare(w) \/ UpdateSetting(w) \/ PutGroup(w)
    \/ DeleteSetting(w) \/ DeleteGroup(w) \/ MarkFresh(w) \/ CallSkipped(w) \/ SettingKept(w)
    \/ CallAborts(w)

Request(w) ==
    HandleEvent(w) \/ UpdateOtherwise(w) \/ FetchGroups(w) \/ SetGroupMemberShareHistoryMode(w)

Next ==
    \/ \E w \in Workers : Request(w) \/ Lock(w) \/ Statement(w)
    \/ ServerChanges \/ Age \/ Restart

Spec == Init /\ [][Next]_vars

-----------------------------------------------------------------------------
(* Properties *)

\* The participants of a stored group are those of its participant version: no order of
\* updates, refreshes, retries and failures applies a change to another version than the
\* one it was made to (ErrMismatchedParticipantVersion).
VersionTruth ==
    \A g \in Groups : row[g] # NoRow => row[g].roster = Roster[g][row[g].ver]

\* A stored group never falls back to an older version, although the update of a parameter
\* writes the whole row back: the lock keeps updates and refreshes apart.  Only the writers
\* that take no lock may do that, and those that overlapped with one.
VersionsOnlyGrow ==
    [][\A w \in Workers :
         (PutGroup(w) /\ work[w].alone /\ work[w].job.kind \notin Unlocked) =>
           LET g == This(w).g
           IN  row[g] # NoRow => row'[g].ver >= row[g].ver]_vars

\* "Upsert first, remove stale groups after": a refresh deletes a group only when it is
\* not among those reported, and all of these are stored by then, but for one that an
\* overlapping job without the lock has deleted.
UpsertFirst ==
    [][\A w \in Workers :
         (DeleteGroup(w) /\ work[w].job.kind # "left") =>
           /\ This(w).g \notin Reported(w)
           /\ work[w].alone => \A g \in Reported(w) : row[g] # NoRow]_vars

\* What the cache is for: with nothing due about it, and whatever else is under way, a group
\* is stored as WhatsApp has it, and so is its ephemeral setting, unless since the last
\* complete refresh a statement or an update was given up, a setting that a message or history
\* had stored was kept for its timestamp, WhatsApp's list was empty, we left the group under
\* our @lid, or jobs that no lock orders overlapped or came out of order.
CacheInSync ==
    \A g \in Groups \ (unsure \cup Due(None)) :
        /\ row[g] = IF server[g].in THEN RowAt(g, server[g].ver, server[g].eph) ELSE NoRow
        /\ row[g] # NoRow => (g \in setting <=> row[g].eph)

\* Between locking and unlocking there is one worker, and whatever fails there, it releases
\* the lock: nobody waits for a lock that its holder has forgotten.
InSection(w) == (\E i \in DOMAIN work[w].calls : work[w].calls[i].op = "unlock") /\ ~Calling(w, "lock")
LockIsHeld == \A w \in Workers : InSection(w) <=> lock = w
=============================================================================
