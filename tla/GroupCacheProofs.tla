--------------------------- MODULE GroupCacheProofs ---------------------------
(***************************************************************************)
(* Theorems about GroupCache, for any workers, groups, participants and      *)
(* attempts: rows are true to their version, the lock follows the calls,     *)
(* rows never fall back under the lock, a refresh stores before it deletes,  *)
(* and the rows and settings of a group with nothing due are WhatsApp's.     *)
(***************************************************************************)
EXTENDS GroupCache, FiniteSetTheorems, TLAPS

\* A row that is true to its participant version.
TrueRow(g, r) == r \in Rows /\ r.ver \in Versions(g) /\ r.roster = Roster[g][r.ver]
Stored(g, r) == r = NoRow \/ TrueRow(g, r)

\* Jobs that WhatsApp's events and the requests give rise to.
TrueJobs ==
    {j \in Jobs :
       /\ j.kind \in EventKinds \cup {"chat", "share"} => j.g \in Groups
       /\ j.kind = "joined" => j.ver \in Versions(j.g)
       /\ j.kind = "people" => j.ver \in Versions(j.g) \ {1}}

EventJobs == {j \in TrueJobs : j.kind \in EventKinds}

\* The calls that a job may have left: what it stores is true.
CallsOf(kind) ==
    {c \in Calls :
       /\ c.op \in {"set", "put", "unset", "del"} => c.g \in Groups
       /\ c.op = "put" => TrueRow(c.g, c.row)
       /\ c.op = "load" => kind \in {"people", "eph"}
       /\ c.op = "peek" => kind = "share"}

TrueWorks ==
    {x \in [job : TrueJobs, calls : Seq(Calls), tries : 0 .. Attempts - 1,
            got : [Groups -> Rows], alone : BOOLEAN] :
       /\ x.calls \in Seq(CallsOf(x.job.kind))
       /\ \A g \in Groups : Stored(g, x.got[g])}

\* Inductive: rows, calls and what WhatsApp reported are true, and events are in range.
Truth ==
    /\ row \in [Groups -> Rows]
    /\ \A g \in Groups : Stored(g, row[g])
    /\ setting \subseteq Groups
    /\ stamped \subseteq setting
    /\ fresh \in BOOLEAN
    /\ lock \in Workers \cup {None}
    /\ work \in [Workers -> TrueWorks]
    /\ server \in [Groups -> [in : BOOLEAN, ver : Nat, eph : BOOLEAN]]
    /\ \A g \in Groups : server[g].ver \in Versions(g)
    /\ events \in Seq(EventJobs)
    /\ changes \in [Groups -> Nat]
    /\ \A g \in Groups : changes[g] <= MaxChanges[g]
    /\ unsure \subseteq Groups

-----------------------------------------------------------------------------
(* Data *)

LEMMA RosterFacts ==
    ASSUME NEW g \in Groups
    PROVE  /\ Roster[g] \in Seq(Rosters)
           /\ Len(Roster[g]) \in Nat \ {0}
           /\ \A v \in Versions(g) : v \in Nat /\ Roster[g][v] \in Rosters
BY CacheAssumption DEF Versions

\* The jobs that no event leads to.
LEMMA OtherJobsAreTrue ==
    ASSUME NEW g \in Groups, NEW eph \in BOOLEAN
    PROVE  Job("chat", g, 0, eph) \in TrueJobs /\ Job("share", g, 0, eph) \in TrueJobs
BY DEF Job, Jobs, TrueJobs, EventKinds

LEMMA NoRowIsARow == NoRow \in Rows
BY DEF NoRow, Rows, Rosters, Roles

LEMMA RowChanges ==
    ASSUME NEW r \in Rows, NEW v, NEW roster, NEW eph
    PROVE  /\ [r EXCEPT !.ver = v, !.roster = roster] = [ver |-> v, roster |-> roster, eph |-> r.eph]
           /\ [r EXCEPT !.eph = eph] = [ver |-> r.ver, roster |-> r.roster, eph |-> eph]
<1>1. r = [ver |-> r.ver, roster |-> r.roster, eph |-> r.eph] BY DEF Rows
<1> DEFINE mid == [r EXCEPT !.ver = v]
<1>2. mid = [ver |-> v, roster |-> r.roster, eph |-> r.eph] BY <1>1
<1>4. [r EXCEPT !.ver = v, !.roster = roster] = [mid EXCEPT !.roster = roster] OBVIOUS
<1> HIDE DEF mid
<1>5. [mid EXCEPT !.roster = roster] = [ver |-> v, roster |-> roster, eph |-> r.eph] BY <1>2
<1>3. [r EXCEPT !.eph = eph] = [ver |-> r.ver, roster |-> r.roster, eph |-> eph]
  BY <1>1
<1> QED BY <1>3, <1>4, <1>5

LEMMA RowAtIsTrue ==
    ASSUME NEW g \in Groups, NEW v \in Versions(g), NEW eph \in BOOLEAN
    PROVE  TrueRow(g, RowAt(g, v, eph))
BY RosterFacts DEF TrueRow, RowAt, Rows

LEMMA TrueRowIsStored ==
    ASSUME NEW g \in Groups, NEW r, TrueRow(g, r)
    PROVE  r \in Rows /\ r # NoRow /\ Stored(g, r)
BY RosterFacts DEF TrueRow, Stored, NoRow, Versions

\* The arithmetic of participants: from the participants of the version before, what
\* WhatsApp reports of a change leads to those of the version itself.
LEMMA UpdateIsTrue ==
    ASSUME NEW g \in Groups, NEW v \in Versions(g) \ {1}
    PROVE  Updated(Roster[g][v - 1], g, v) = Roster[g][v]
<1> DEFINE old == Roster[g][v - 1]
           new == Roster[g][v]
<1>1. old \in Rosters /\ new \in Rosters
  <2>1. v - 1 \in Versions(g) BY RosterFacts DEF Versions
  <2> QED BY <2>1, RosterFacts
<1>2. /\ Joining(g, v) = {p \in People : old[p] = "out" /\ new[p] # "out"}
      /\ Leaving(g, v) = {p \in People : old[p] # "out" /\ new[p] = "out"}
      /\ Promoting(g, v) = {p \in People : old[p] # "admin" /\ new[p] = "admin"}
      /\ Demoting(g, v) = {p \in People : old[p] = "admin" /\ new[p] = "member"}
  BY DEF Joining, Leaving, Promoting, Demoting, Changed
<1> HIDE DEF old, new
<1> DEFINE joined == [p \in People |-> IF p \in Joining(g, v) /\ old[p] = "out"
                                         THEN "member" ELSE old[p]]
           stayed == [p \in People |-> IF p \in Leaving(g, v) THEN "out" ELSE joined[p]]
           raised == [p \in People |-> IF p \in Promoting(g, v) /\ stayed[p] # "out"
                                         THEN "admin" ELSE stayed[p]]
           final == [p \in People |-> IF p \in Demoting(g, v) /\ raised[p] # "out"
                                        THEN "member" ELSE raised[p]]
<1>3. ASSUME NEW p \in People PROVE final[p] = new[p]
  <2>1. old[p] \in Roles /\ new[p] \in Roles BY <1>1 DEF Rosters
  <2>2. joined[p] = IF old[p] = "out" /\ new[p] # "out" THEN "member" ELSE old[p] BY <1>2
  <2>3. stayed[p] = IF old[p] # "out" /\ new[p] = "out" THEN "out" ELSE joined[p] BY <1>2
  <2>4. raised[p] = IF old[p] # "admin" /\ new[p] = "admin" /\ stayed[p] # "out"
                      THEN "admin" ELSE stayed[p] BY <1>2
  <2>5. final[p] = IF old[p] = "admin" /\ new[p] = "member" /\ raised[p] # "out"
                     THEN "member" ELSE raised[p] BY <1>2
  <2> QED BY <2>1, <2>2, <2>3, <2>4, <2>5 DEF Roles
<1>4. final = new BY <1>1, <1>3 DEF Rosters
<1>5. Updated(old, g, v) = final BY DEF Updated
<1> QED BY <1>4, <1>5 DEF old, new

-----------------------------------------------------------------------------
(* Sequences of calls *)

LEMMA IdleIsTrue == Idle \in TrueWorks
<1> DEFINE job == Job("none", None, 0, FALSE)
           got == [g \in Groups |-> NoRow]
<1>1. job \in TrueJobs BY DEF Job, Jobs, TrueJobs, EventKinds
<1>2. got \in [Groups -> Rows] /\ \A g \in Groups : Stored(g, got[g])
  BY NoRowIsARow DEF Stored
<1>3. 0 \in 0 .. Attempts - 1 BY CacheAssumption
<1>4. Idle = [job |-> job, calls |-> <<>>, tries |-> 0, got |-> got, alone |-> TRUE] BY DEF Idle
<1> HIDE DEF job, got
<1>5. Idle \in [job : TrueJobs, calls : Seq(Calls), tries : 0 .. Attempts - 1,
                got : [Groups -> Rows], alone : BOOLEAN]
  BY <1>1, <1>2, <1>3, <1>4
<1>6. Idle.calls \in Seq(CallsOf(Idle.job.kind)) /\ Idle.got = got BY <1>4
<1> QED BY <1>2, <1>5, <1>6 DEF TrueWorks

LEMMA TrueCalls ==
    ASSUME NEW kind
    PROVE  /\ \A op \in {"lock", "unlock", "joined", "existing", "mark"} : Do(op) \in CallsOf(kind)
           /\ kind \in {"people", "eph"} => Do("load") \in CallsOf(kind)
           /\ kind = "share" => Do("peek") \in CallsOf(kind)
           /\ \A op \in {"set", "unset", "del"}, g \in Groups, r \in Rows : Call(op, g, r) \in CallsOf(kind)
           /\ \A g \in Groups, r \in Rows : TrueRow(g, r) => Call("put", g, r) \in CallsOf(kind)
BY NoRowIsARow DEF Do, Call, CallsOf, Calls, Ops

LEMMA CallsAreCalls == \A kind : CallsOf(kind) \subseteq Calls /\ Seq(CallsOf(kind)) \subseteq Seq(Calls)
BY DEF CallsOf

LEMMA OrderFacts ==
    ASSUME NEW S \in SUBSET Groups, NEW s \in Orders(S)
    PROVE  /\ Len(s) \in Nat
           /\ DOMAIN s = 1 .. Len(s)
           /\ \A i \in 1 .. Len(s) : s[i] \in S
<1>1. IsFiniteSet(S) BY FS_Subset, CacheAssumption
<1>2. Cardinality(S) \in Nat BY <1>1, FS_CardinalityType
<1>3. s \in [1 .. Cardinality(S) -> S] BY DEF Orders
<1>4. s \in Seq(S) BY <1>2, <1>3
<1> QED BY <1>4

LEMMA UpsertsAreTrue ==
    ASSUME NEW kind, NEW got \in [Groups -> Rows],
           NEW S \in SUBSET Groups, \A g \in S : TrueRow(g, got[g]),
           NEW s \in Orders(S)
    PROVE  Upserts(got, s) \in Seq(CallsOf(kind))
<1> DEFINE n == 2 * Len(s)
           e(i) == IF i % 2 = 1 THEN Call("set", s[(i + 1) \div 2], got[s[(i + 1) \div 2]])
                                ELSE Call("put", s[i \div 2], got[s[i \div 2]])
<1>1. Upserts(got, s) = [i \in 1 .. n |-> e(i)] BY DEF Upserts, Pairwise
<1>2. n \in Nat BY OrderFacts
<1>3. ASSUME NEW i \in 1 .. n PROVE e(i) \in CallsOf(kind)
  <2>1. CASE i % 2 = 1
    <3>1. (i + 1) \div 2 \in 1 .. Len(s) BY <2>1, <1>3, OrderFacts
    <3> DEFINE g == s[(i + 1) \div 2]
    <3>2. g \in S /\ got[g] \in Rows BY <3>1, OrderFacts
    <3> QED BY <2>1, <3>2, TrueCalls
  <2>2. CASE i % 2 # 1
    <3>1. i \div 2 \in 1 .. Len(s) BY <2>2, <1>3, OrderFacts
    <3> DEFINE g == s[i \div 2]
    <3>2. g \in S /\ got[g] \in Rows /\ TrueRow(g, got[g]) BY <3>1, OrderFacts
    <3> QED BY <2>2, <3>2, TrueCalls
  <2> QED BY <2>1, <2>2
<1> HIDE DEF n, e
<1>4. [i \in 1 .. n |-> e(i)] \in Seq(CallsOf(kind)) BY <1>2, <1>3
<1> QED BY <1>1, <1>4

LEMMA DeletesAreTrue ==
    ASSUME NEW kind, NEW S \in SUBSET Groups, NEW s \in Orders(S)
    PROVE  Deletes(s) \in Seq(CallsOf(kind))
<1> DEFINE n == 2 * Len(s)
           e(i) == IF i % 2 = 1 THEN Call("unset", s[(i + 1) \div 2], NoRow)
                                ELSE Call("del", s[i \div 2], NoRow)
<1>1. Deletes(s) = [i \in 1 .. n |-> e(i)] BY DEF Deletes, Pairwise
<1>2. n \in Nat BY OrderFacts
<1>3. ASSUME NEW i \in 1 .. n PROVE e(i) \in CallsOf(kind)
  <2>1. CASE i % 2 = 1
    <3>1. (i + 1) \div 2 \in 1 .. Len(s) BY <2>1, <1>3, OrderFacts
    <3>2. s[(i + 1) \div 2] \in Groups BY <3>1, OrderFacts
    <3> QED BY <2>1, <3>2, TrueCalls, NoRowIsARow
  <2>2. CASE i % 2 # 1
    <3>1. i \div 2 \in 1 .. Len(s) BY <2>2, <1>3, OrderFacts
    <3>2. s[i \div 2] \in Groups BY <3>1, OrderFacts
    <3> QED BY <2>2, <3>2, TrueCalls, NoRowIsARow
  <2> QED BY <2>1, <2>2
<1> HIDE DEF n, e
<1>4. [i \in 1 .. n |-> e(i)] \in Seq(CallsOf(kind)) BY <1>2, <1>3
<1> QED BY <1>1, <1>4

LEMMA PlanIsTrue ==
    ASSUME NEW job \in TrueJobs, job.kind \in EventKinds \cup {"chat"}
    PROVE  Plan(job) \in Seq(CallsOf(job.kind))
<1>0. /\ job.g \in Groups /\ job.eph \in BOOLEAN
      /\ job.kind \in {"joined", "left", "people", "eph", "chat"}
  BY DEF TrueJobs, Jobs, EventKinds
<1>1. CASE job.kind = "joined"
  <2> DEFINE r == RowAt(job.g, job.ver, job.eph)
  <2>1. TrueRow(job.g, r) /\ r \in Rows
    BY <1>0, <1>1, RowAtIsTrue, TrueRowIsStored DEF TrueJobs
  <2>2. Call("set", job.g, r) \in CallsOf(job.kind) /\ Call("put", job.g, r) \in CallsOf(job.kind)
    BY <1>0, <2>1, TrueCalls
  <2>3. Plan(job) = <<Call("set", job.g, r), Call("put", job.g, r)>> BY <1>1 DEF Plan
  <2> HIDE DEF r
  <2> QED BY <2>2, <2>3
<1>2. CASE job.kind = "left"
  <2>1. /\ Call("unset", job.g, NoRow) \in CallsOf(job.kind)
        /\ Call("del", job.g, NoRow) \in CallsOf(job.kind)
    BY <1>0, TrueCalls, NoRowIsARow
  <2> QED BY <1>2, <2>1 DEF Plan
<1>3. CASE job.kind = "chat"
  <2>1. [NoRow EXCEPT !.eph = job.eph] \in Rows BY <1>0, NoRowIsARow DEF Rows
  <2>2. Call("set", job.g, [NoRow EXCEPT !.eph = job.eph]) \in CallsOf(job.kind)
    BY <1>0, <2>1, TrueCalls
  <2> QED BY <1>3, <2>2 DEF Plan
<1>4. CASE job.kind \in {"people", "eph"}
  <2>1. Do("lock") \in CallsOf(job.kind) /\ Do("load") \in CallsOf(job.kind) /\ Do("unlock") \in CallsOf(job.kind)
    BY <1>4, TrueCalls
  <2>2. Plan(job) = <<Do("lock"), Do("load"), Do("unlock")>> BY <1>4 DEF Plan
  <2> QED BY <2>1, <2>2
<1> QED BY <1>0, <1>1, <1>2, <1>3, <1>4

-----------------------------------------------------------------------------
(* What a worker has left *)

LEMMA WorkFacts ==
    ASSUME Truth, NEW w \in Workers
    PROVE  /\ work[w] \in TrueWorks
           /\ work[w].job \in TrueJobs
           /\ work[w].calls \in Seq(CallsOf(work[w].job.kind))
           /\ work[w].calls \in Seq(Calls)
           /\ work[w].tries \in 0 .. Attempts - 1
           /\ work[w].got \in [Groups -> Rows]
           /\ \A g \in Groups : Stored(g, work[w].got[g])
           /\ work[w].alone \in BOOLEAN
BY DEF Truth, TrueWorks

LEMMA HeadFacts ==
    ASSUME Truth, NEW w \in Workers, work[w].calls # <<>>
    PROVE  /\ This(w) \in CallsOf(work[w].job.kind)
           /\ Rest(w) \in Seq(CallsOf(work[w].job.kind))
<1> DEFINE S == CallsOf(work[w].job.kind)
<1>1. work[w].calls \in Seq(S) BY WorkFacts
<1> HIDE DEF S
<1>2. Head(work[w].calls) \in S /\ Tail(work[w].calls) \in Seq(S) BY <1>1
<1> QED BY <1>2 DEF This, Rest, S

\* A job that goes on.
LEMMA TrueWork ==
    ASSUME NEW x \in TrueWorks, NEW calls \in Seq(CallsOf(x.job.kind)), NEW alone \in BOOLEAN
    PROVE  /\ [x EXCEPT !.calls = calls] \in TrueWorks
           /\ [x EXCEPT !.calls = calls, !.alone = alone] \in TrueWorks
           /\ [x EXCEPT !.alone = alone] \in TrueWorks
<1> DEFINE Shape == [job : TrueJobs, calls : Seq(Calls), tries : 0 .. Attempts - 1,
                     got : [Groups -> Rows], alone : BOOLEAN]
<1>1. calls \in Seq(Calls) BY CallsAreCalls
<1>2. ASSUME NEW y \in Shape, y.job = x.job, y.got = x.got, y.calls \in {calls, x.calls}
      PROVE  y \in TrueWorks
  BY <1>2 DEF TrueWorks
<1>3. x \in Shape BY DEF TrueWorks
<1>4. [x EXCEPT !.calls = calls] \in TrueWorks BY <1>1, <1>2, <1>3
<1>5. [x EXCEPT !.calls = calls, !.alone = alone] \in TrueWorks BY <1>1, <1>2, <1>3
<1>6. [x EXCEPT !.alone = alone] \in TrueWorks BY <1>2, <1>3
<1> QED BY <1>4, <1>5, <1>6

LEMMA ContinueKeeps ==
    ASSUME Truth, NEW w \in Workers, NEW calls \in Seq(CallsOf(work[w].job.kind)), Continue(w, calls)
    PROVE  work' \in [Workers -> TrueWorks]
<1>1. [work[w] EXCEPT !.calls = calls] \in TrueWorks BY WorkFacts, TrueWork
<1>2. work \in [Workers -> TrueWorks] BY DEF Truth
<1> QED BY <1>1, <1>2, IdleIsTrue DEF Continue

LEMMA BeginKeeps ==
    ASSUME Truth, NEW w \in Workers, NEW job \in TrueJobs, NEW calls \in Seq(CallsOf(job.kind)),
           NEW tangled, Begin(w, job, calls, tangled)
    PROVE  work' \in [Workers -> TrueWorks] /\ unsure' \subseteq Groups
<1> DEFINE mixed == tangled \/ \E v \in Busy : Conflict(job, work[v].job)
           mine == [Idle EXCEPT !.job = job, !.calls = calls, !.alone = ~mixed]
           other(v) == [work[v] EXCEPT !.alone = work[v].alone /\ (v \notin Busy \/ ~mixed)]
<1>1. /\ work' = [v \in Workers |-> IF v = w THEN mine ELSE other(v)]
      /\ unsure' = IF mixed THEN Groups ELSE unsure
  BY DEF Begin
<1>2. mine \in TrueWorks
  <2>1. calls \in Seq(Calls) BY CallsAreCalls
  <2>2. (~mixed) \in BOOLEAN OBVIOUS
  <2> HIDE DEF mixed
  <2>3. mine \in [job : TrueJobs, calls : Seq(Calls), tries : 0 .. Attempts - 1,
                  got : [Groups -> Rows], alone : BOOLEAN]
    BY <2>1, <2>2, IdleIsTrue DEF TrueWorks
  <2>4. mine.job = job /\ mine.calls = calls /\ mine.got = Idle.got
    BY IdleIsTrue DEF TrueWorks
  <2> QED BY <2>3, <2>4, IdleIsTrue DEF TrueWorks
<1>3. ASSUME NEW v \in Workers PROVE other(v) \in TrueWorks
  <2>1. (work[v].alone /\ (v \notin Busy \/ ~mixed)) \in BOOLEAN OBVIOUS
  <2>2. work[v].calls \in Seq(CallsOf(work[v].job.kind)) BY WorkFacts
  <2> QED BY <2>1, <2>2, WorkFacts, TrueWork
<1>4. unsure' \subseteq Groups BY <1>1 DEF Truth
<1> HIDE DEF mine, other
<1> QED BY <1>1, <1>2, <1>3, <1>4

-----------------------------------------------------------------------------
(* Requests *)

LEMMA RequestKeeps ==
    ASSUME Truth, NEW w \in Workers, Request(w)
    PROVE  Truth'
<1>1. CASE HandleEvent(w)
  <2>1. PICK i \in DOMAIN events :
          /\ Begin(w, events[i], Plan(events[i]), \E j \in 1 .. i - 1 : events[j].g = events[i].g)
          /\ events' = [j \in 1 .. Len(events) - 1 |-> events[IF j < i THEN j ELSE j + 1]]
          /\ UNCHANGED lock
    BY <1>1 DEF HandleEvent
  <2>2. events \in Seq(EventJobs) BY DEF Truth
  <2>3. events[i] \in TrueJobs BY <2>1, <2>2 DEF EventJobs
  <2>4. events' \in Seq(EventJobs)
    <3> DEFINE n == Len(events) - 1
               e(j) == events[IF j < i THEN j ELSE j + 1]
    <3>1. n \in Nat BY <2>1, <2>2
    <3>2. \A j \in 1 .. n : e(j) \in EventJobs BY <2>1, <2>2
    <3> HIDE DEF n, e
    <3>3. [j \in 1 .. n |-> e(j)] \in Seq(EventJobs) BY <3>1, <3>2
    <3> QED BY <2>1, <3>3 DEF n, e
  <2>5. events[i].kind \in EventKinds BY <2>1, <2>2 DEF EventJobs
  <2>6. Plan(events[i]) \in Seq(CallsOf(events[i].kind)) BY <2>3, <2>5, PlanIsTrue
  <2>7. work' \in [Workers -> TrueWorks] /\ unsure' \subseteq Groups
    BY <2>1, <2>3, <2>6, BeginKeeps
  <2> QED BY <2>1, <2>4, <2>7 DEF Truth, Begin, cacheVars, serverVars
<1>2. CASE UpdateOtherwise(w)
  <2>1. PICK g \in Named, eph \in BOOLEAN :
          /\ Begin(w, Job("chat", g, 0, eph), Plan(Job("chat", g, 0, eph)), TRUE)
          /\ UNCHANGED <<lock, events>>
    BY <1>2 DEF UpdateOtherwise
  <2> DEFINE job == Job("chat", g, 0, eph)
  <2>2. job \in TrueJobs /\ job.kind = "chat"
    BY CacheAssumption, OtherJobsAreTrue DEF Job
  <2>3. Plan(job) \in Seq(CallsOf(job.kind)) BY <2>2, PlanIsTrue
  <2> HIDE DEF job
  <2>4. work' \in [Workers -> TrueWorks] /\ unsure' \subseteq Groups
    BY <2>1, <2>2, <2>3, BeginKeeps DEF job
  <2> QED BY <2>1, <2>4 DEF Truth, Begin, cacheVars, serverVars
<1>3. CASE FetchGroups(w)
  <2> DEFINE job == Job("fetch", None, 0, FALSE)
             calls == <<Do("joined"), Do("unlock")>>
  <2>1. job \in TrueJobs BY DEF Job, Jobs, TrueJobs, EventKinds
  <2>2. calls \in Seq(CallsOf(job.kind))
    <3> DEFINE S == CallsOf(job.kind)
    <3>1. Do("joined") \in S /\ Do("unlock") \in S BY TrueCalls
    <3> HIDE DEF S
    <3>2. calls \in Seq(S) BY <3>1
    <3> QED BY <3>2 DEF S
  <2>3. Begin(w, job, calls, FALSE) /\ lock' = w /\ events' = events BY <1>3 DEF FetchGroups, Acquire
  <2> HIDE DEF job, calls
  <2>4. work' \in [Workers -> TrueWorks] /\ unsure' \subseteq Groups
    BY <2>1, <2>2, <2>3, BeginKeeps
  <2> QED BY <2>3, <2>4 DEF Truth, Begin, cacheVars, serverVars
<1>4. CASE SetGroupMemberShareHistoryMode(w)
  <2> DEFINE calls == IF fresh THEN <<Do("peek")>>
                               ELSE <<Do("joined"), Do("unlock"), Do("peek")>>
  <2>1. PICK g \in Named : Begin(w, Job("share", g, 0, FALSE), calls, FALSE)
    BY <1>4 DEF SetGroupMemberShareHistoryMode
  <2> DEFINE job == Job("share", g, 0, FALSE)
  <2>2. job \in TrueJobs /\ job.kind = "share"
    BY CacheAssumption, OtherJobsAreTrue DEF Job
  <2>3. calls \in Seq(CallsOf("share"))
    <3>1. /\ Do("joined") \in CallsOf("share") /\ Do("unlock") \in CallsOf("share")
          /\ Do("peek") \in CallsOf("share")
      BY TrueCalls
    <3> QED BY <3>1
  <2>4. lock' \in Workers \cup {None} /\ events' = events
    BY <1>4 DEF SetGroupMemberShareHistoryMode
  <2> HIDE DEF job, calls
  <2>5. work' \in [Workers -> TrueWorks] /\ unsure' \subseteq Groups
    BY <2>1, <2>2, <2>3, BeginKeeps DEF job
  <2> QED BY <2>1, <2>4, <2>5 DEF Truth, Begin, cacheVars, serverVars
<1> QED BY <1>1, <1>2, <1>3, <1>4 DEF Request

-----------------------------------------------------------------------------
(* Statements *)

\* Two calls before the ones that are left.
LEMMA CallsBefore ==
    ASSUME NEW S, NEW rest \in Seq(S), NEW c \in S, NEW d \in S
    PROVE  <<c>> \o rest \in Seq(S) /\ <<c, d>> \o rest \in Seq(S) /\ <<c, d>> \in Seq(S)
<1>1. <<c>> \in Seq(S) /\ <<c, d>> \in Seq(S) OBVIOUS
<1> QED BY <1>1

LEMMA LockKeeps ==
    ASSUME Truth, NEW w \in Workers, Lock(w)
    PROVE  Truth'
<1> DEFINE calls == IF fresh THEN Rest(w) ELSE <<Do("joined"), Do("unlock")>>
           S == CallsOf(work[w].job.kind)
<1>1. Rest(w) \in Seq(S) BY HeadFacts DEF Lock, Calling
<1>2. Do("joined") \in S /\ Do("unlock") \in S BY TrueCalls
<1> HIDE DEF S
<1>3. calls \in Seq(S) BY <1>1, <1>2
<1>4. Continue(w, calls) BY DEF Lock
<1> HIDE DEF calls
<1>5. work' \in [Workers -> TrueWorks] BY <1>3, <1>4, ContinueKeeps DEF S
<1> QED BY <1>5 DEF Truth, Lock, Acquire, cacheVars, serverVars

LEMMA GetJoinedGroupsKeeps ==
    ASSUME Truth, NEW w \in Workers, GetJoinedGroups(w)
    PROVE  Truth'
<1>1. PICK none \in BOOLEAN :
        /\ work' = [work EXCEPT ![w] =
             [@ EXCEPT !.calls = <<Do("existing")>> \o Rest(w),
                       !.got = [g \in Groups |->
                                  IF server[g].in /\ ~none
                                    THEN RowAt(g, server[g].ver, server[g].eph) ELSE NoRow]]]
        /\ unsure' = IF none THEN Groups ELSE unsure
  BY DEF GetJoinedGroups
<1> DEFINE got == [g \in Groups |-> IF server[g].in /\ ~none
                                      THEN RowAt(g, server[g].ver, server[g].eph) ELSE NoRow]
           calls == <<Do("existing")>> \o Rest(w)
           S == CallsOf(work[w].job.kind)
           new == [work[w] EXCEPT !.calls = calls, !.got = got]
<1>2. \A g \in Groups : got[g] \in Rows /\ Stored(g, got[g])
  <2> TAKE g \in Groups
  <2>1. server[g].ver \in Versions(g) /\ server[g].eph \in BOOLEAN BY DEF Truth
  <2>2. TrueRow(g, RowAt(g, server[g].ver, server[g].eph)) BY <2>1, RowAtIsTrue
  <2> QED BY <2>2, TrueRowIsStored, NoRowIsARow DEF Stored
<1>3. calls \in Seq(S) /\ calls \in Seq(Calls)
  <2>1. Rest(w) \in Seq(S) BY HeadFacts DEF GetJoinedGroups, Calling
  <2>2. Do("existing") \in S BY TrueCalls
  <2>3. calls \in Seq(S) BY <2>1, <2>2, CallsBefore
  <2> QED BY <2>3, CallsAreCalls
<1>4. got \in [Groups -> Rows] BY <1>2
<1> HIDE DEF got, calls
<1>5. new \in TrueWorks
  <2>1. new \in [job : TrueJobs, calls : Seq(Calls), tries : 0 .. Attempts - 1,
                 got : [Groups -> Rows], alone : BOOLEAN]
    BY <1>3, <1>4, WorkFacts DEF TrueWorks
  <2>2. new.job = work[w].job /\ new.calls = calls /\ new.got = got BY WorkFacts DEF TrueWorks
  <2> QED BY <2>1, <2>2, <1>2, <1>3 DEF TrueWorks
<1>6. work' = [work EXCEPT ![w] = new] BY <1>1 DEF calls, got
<1> HIDE DEF new
<1>7. work' \in [Workers -> TrueWorks] BY <1>5, <1>6 DEF Truth
<1> QED BY <1>1, <1>7 DEF Truth, GetJoinedGroups, cacheVars, serverVars

LEMMA GetAllGroupsKeeps ==
    ASSUME Truth, NEW w \in Workers, GetAllGroups(w)
    PROVE  Truth'
<1>1. PICK s \in Orders(Reported(w)), d \in Orders({g \in Groups : row[g] # NoRow} \ Reported(w)) :
        Continue(w, Refresh(w, s, d) \o Rest(w))
  BY DEF GetAllGroups
<1> DEFINE S == CallsOf(work[w].job.kind)
           stale == {g \in Groups : row[g] # NoRow} \ Reported(w)
<1>2. Upserts(work[w].got, s) \in Seq(S)
  <2>1. Reported(w) \in SUBSET Groups BY DEF Reported
  <2>2. \A g \in Reported(w) : TrueRow(g, work[w].got[g]) BY WorkFacts DEF Reported, Stored
  <2> QED BY <2>1, <2>2, WorkFacts, UpsertsAreTrue
<1>3. Deletes(d) \in Seq(S) BY stale \in SUBSET Groups, DeletesAreTrue
<1>4. Mark(w) \in Seq(S)
  <2>1. Do("mark") \in S BY TrueCalls
  <2> HIDE DEF S
  <2> QED BY <2>1 DEF Mark
<1>5. Rest(w) \in Seq(S) BY HeadFacts DEF GetAllGroups, Calling
<1> HIDE DEF S
<1>6. Refresh(w, s, d) \o Rest(w) \in Seq(S)
  <2> DEFINE u == Upserts(work[w].got, s)
             e == Deletes(d)
             m == Mark(w)
             r == Rest(w)
  <2> HIDE DEF u, e, m, r
  <2>1. u \o e \in Seq(S) BY <1>2, <1>3 DEF u, e
  <2>2. (u \o e) \o m \in Seq(S) BY <2>1, <1>4 DEF m
  <2>3. ((u \o e) \o m) \o r \in Seq(S) BY <2>2, <1>5 DEF r
  <2> QED BY <2>3 DEF Refresh, u, e, m, r
<1>7. work' \in [Workers -> TrueWorks] BY <1>1, <1>6, ContinueKeeps DEF S
<1> QED BY <1>7 DEF Truth, GetAllGroups, cacheVars, serverVars

\* An update finds the version before its own, so what it stores is true again.
LEMMA GetGroupToUpdateKeeps ==
    ASSUME Truth, NEW w \in Workers, GetGroupToUpdate(w)
    PROVE  Truth'
<1> DEFINE job == work[w].job
           g == job.g
           old == row[g]
           people == [old EXCEPT !.ver = job.ver, !.roster = Updated(old.roster, g, job.ver)]
           eph == [old EXCEPT !.eph = job.eph]
           S == CallsOf(job.kind)
           first == IF job.kind = "people" THEN <<Call("put", g, people)>>
                                           ELSE <<Call("set", g, eph), Call("put", g, eph)>>
<1>1. old # NoRow /\ Applies(job, old) /\ Continue(w, first \o Rest(w))
  BY DEF GetGroupToUpdate
<1>2. job \in TrueJobs /\ job.kind \in {"people", "eph"} /\ g \in Groups
  <2>1. This(w) \in CallsOf(job.kind) /\ This(w).op = "load"
    BY HeadFacts DEF GetGroupToUpdate, Calling, This
  <2>2. job \in TrueJobs BY WorkFacts
  <2> QED BY <2>1, <2>2 DEF CallsOf, TrueJobs, EventKinds
<1>3. TrueRow(g, old) /\ old \in Rows BY <1>1, <1>2 DEF Truth, Stored
<1>4. Rest(w) \in Seq(S) BY HeadFacts DEF GetGroupToUpdate, Calling
<1>5. CASE job.kind = "people"
  <2>1. old.ver = job.ver - 1 BY <1>1, <1>5 DEF Applies
  <2>2. job.ver \in Versions(g) \ {1} BY <1>2, <1>5 DEF TrueJobs
  <2>3. Updated(old.roster, g, job.ver) = Roster[g][job.ver]
    BY <1>2, <1>3, <2>1, <2>2, UpdateIsTrue DEF TrueRow
  <2>4. people = [ver |-> job.ver, roster |-> Roster[g][job.ver], eph |-> old.eph]
    <3>1. people = [old EXCEPT !.ver = job.ver, !.roster = Roster[g][job.ver]] BY <2>3
    <3> DEFINE o == old
               v == job.ver
               new == Roster[g][job.ver]
    <3>2. o \in Rows BY <1>3
    <3> HIDE DEF o, v, new
    <3>3. [o EXCEPT !.ver = v, !.roster = new] = [ver |-> v, roster |-> new, eph |-> o.eph]
      BY <3>2, RowChanges
    <3> QED BY <3>1, <3>3 DEF o, v, new
  <2>5. TrueRow(g, people) /\ people \in Rows
    <3>1. people = RowAt(g, job.ver, old.eph) BY <2>4 DEF RowAt
    <3>2. old.eph \in BOOLEAN BY <1>3 DEF Rows
    <3> QED BY <1>2, <2>2, <3>1, <3>2, RowAtIsTrue, TrueRowIsStored
  <2>6. Call("put", g, people) \in S BY <1>2, <2>5, TrueCalls
  <2> HIDE DEF S, people
  <2>7. first \o Rest(w) \in Seq(S) BY <1>4, <1>5, <2>6, CallsBefore
  <2> HIDE DEF first
  <2> QED BY <1>1, <2>7, ContinueKeeps DEF S, Truth, GetGroupToUpdate, cacheVars, serverVars
<1>6. CASE job.kind = "eph"
  <2>1. job.eph \in BOOLEAN BY <1>2 DEF TrueJobs, Jobs
  <2>2. eph = RowAt(g, old.ver, job.eph) BY <1>3, RowChanges DEF RowAt, TrueRow
  <2>3. old.ver \in Versions(g) BY <1>3 DEF TrueRow
  <2>4. TrueRow(g, eph) BY <1>2, <2>1, <2>2, <2>3, RowAtIsTrue
  <2>5. eph \in Rows BY <2>4 DEF TrueRow
  <2>6. Call("set", g, eph) \in S /\ Call("put", g, eph) \in S BY <1>2, <2>4, <2>5, TrueCalls
  <2> HIDE DEF S, eph
  <2>7. first \o Rest(w) \in Seq(S) BY <1>4, <1>6, <2>6, CallsBefore
  <2> HIDE DEF first
  <2> QED BY <1>1, <2>7, ContinueKeeps DEF S, Truth, GetGroupToUpdate, cacheVars, serverVars
<1> QED BY <1>2, <1>5, <1>6

LEMMA GetGroupToShareKeeps ==
    ASSUME Truth, NEW w \in Workers, GetGroupToShare(w)
    PROVE  Truth'
<1> DEFINE g == work[w].job.g
           S == CallsOf(work[w].job.kind)
           calls == <<Call("set", g, row[g]), Call("put", g, row[g])>>
<1>1. row[g] # NoRow /\ Continue(w, calls) BY DEF GetGroupToShare
<1>2. g \in Groups
  <2>1. This(w) \in CallsOf(work[w].job.kind) /\ This(w).op = "peek"
    BY HeadFacts DEF GetGroupToShare, Calling, This
  <2> QED BY <2>1, WorkFacts DEF CallsOf, TrueJobs
<1>3. TrueRow(g, row[g]) /\ row[g] \in Rows BY <1>1, <1>2 DEF Truth, Stored
<1>4. Call("set", g, row[g]) \in S /\ Call("put", g, row[g]) \in S BY <1>2, <1>3, TrueCalls
<1> HIDE DEF S
<1>5. calls \in Seq(S) BY <1>4, CallsBefore
<1> HIDE DEF calls
<1> QED BY <1>1, <1>5, ContinueKeeps DEF S, Truth, GetGroupToShare, cacheVars, serverVars

\* The head of a job that is about a group.
LEMMA HeadOfGroup ==
    ASSUME Truth, NEW w \in Workers, work[w].calls # <<>>,
           This(w).op \in {"set", "put", "unset", "del"}
    PROVE  /\ This(w).g \in Groups
           /\ This(w).op = "put" => TrueRow(This(w).g, This(w).row) /\ This(w).row \in Rows
BY HeadFacts DEF CallsOf, TrueRow

\* A setting kept for its timestamp is a call without effect, like one that fails.
LEMMA StatementCases ==
    ASSUME NEW w, Statement(w)
    PROVE  \/ Unlock(w) \/ GetJoinedGroups(w) \/ GetAllGroups(w)
           \/ GetGroupToUpdate(w) \/ GetGroupToShare(w) \/ UpdateSetting(w) \/ PutGroup(w)
           \/ DeleteSetting(w) \/ DeleteGroup(w) \/ MarkFresh(w) \/ CallSkipped(w) \/ CallAborts(w)
<1>1. SettingKept(w) => CallSkipped(w) BY DEF SettingKept, CallSkipped, Calling, This
<1> QED BY <1>1 DEF Statement

LEMMA WritesKeep ==
    ASSUME Truth, NEW w \in Workers,
           Unlock(w) \/ UpdateSetting(w) \/ PutGroup(w) \/ DeleteSetting(w) \/ DeleteGroup(w) \/ MarkFresh(w)
    PROVE  Truth'
<1>1. work[w].calls # <<>> /\ Continue(w, Rest(w))
  BY DEF Unlock, UpdateSetting, PutGroup, DeleteSetting, DeleteGroup, MarkFresh, Calling
<1>2. work' \in [Workers -> TrueWorks] BY <1>1, HeadFacts, ContinueKeeps
<1>3. CASE Unlock(w) BY <1>2, <1>3 DEF Truth, Unlock, cacheVars, serverVars
<1>4. CASE UpdateSetting(w)
  <2>1. This(w).g \in Groups BY <1>1, <1>4, HeadOfGroup DEF UpdateSetting, Calling, This
  <2>2. setting' \subseteq Groups /\ stamped' \subseteq setting'
    BY <1>4, <2>1 DEF UpdateSetting, Truth
  <2> QED BY <1>2, <1>4, <2>2 DEF Truth, UpdateSetting, serverVars
<1>5. CASE PutGroup(w)
  <2> DEFINE g == This(w).g
             r == This(w).row
  <2>1. g \in Groups /\ r \in Rows /\ TrueRow(g, r)
    BY <1>1, <1>5, HeadOfGroup DEF PutGroup, Calling, This
  <2>2. row' = [row EXCEPT ![g] = r] BY <1>5 DEF PutGroup
  <2> HIDE DEF g, r
  <2>3. row' \in [Groups -> Rows] BY <2>1, <2>2 DEF Truth
  <2>4. \A h \in Groups : Stored(h, row'[h]) BY <2>1, <2>2 DEF Truth, Stored
  <2> QED BY <1>2, <1>5, <2>3, <2>4 DEF Truth, PutGroup, serverVars
<1>6. CASE DeleteSetting(w)
  <2>1. setting' \subseteq Groups /\ stamped' \subseteq setting' BY <1>6 DEF DeleteSetting, Truth
  <2> QED BY <1>2, <1>6, <2>1 DEF Truth, DeleteSetting, serverVars
<1>7. CASE DeleteGroup(w)
  <2>1. row' = [row EXCEPT ![This(w).g] = NoRow] BY <1>7 DEF DeleteGroup
  <2>2. row' \in [Groups -> Rows] BY <2>1, NoRowIsARow DEF Truth
  <2>3. \A h \in Groups : Stored(h, row'[h]) BY <2>1 DEF Truth, Stored
  <2> QED BY <1>2, <1>7, <2>2, <2>3 DEF Truth, DeleteGroup, serverVars
<1>8. CASE MarkFresh(w)
  <2>1. unsure' \subseteq Groups BY <1>8 DEF MarkFresh, Truth
  <2> QED BY <1>2, <1>8, <2>1 DEF Truth, MarkFresh, serverVars
<1> QED BY <1>3, <1>4, <1>5, <1>6, <1>7, <1>8

LEMMA CallSkippedKeeps ==
    ASSUME Truth, NEW w \in Workers, CallSkipped(w)
    PROVE  Truth'
<1> DEFINE new == [work[w] EXCEPT !.calls = Rest(w), !.alone = FALSE]
<1>1. new \in TrueWorks BY HeadFacts, WorkFacts, TrueWork DEF CallSkipped, Skip
<1>2. work' = [work EXCEPT ![w] = IF Rest(w) = <<>> THEN Idle ELSE new] BY DEF CallSkipped, Skip
<1> HIDE DEF new
<1>3. work' \in [Workers -> TrueWorks] BY <1>1, <1>2, IdleIsTrue DEF Truth
<1>4. This(w).g \in Groups BY HeadOfGroup DEF CallSkipped, Skip
<1> QED BY <1>3, <1>4 DEF Truth, CallSkipped, Skip, cacheVars, serverVars

LEMMA CallAbortsKeeps ==
    ASSUME Truth, NEW w \in Workers, CallAborts(w)
    PROVE  Truth'
<1> DEFINE job == work[w].job
<1>1. job \in TrueJobs BY WorkFacts
<1>2. Retried(w) \in TrueWorks
  <2>1. CASE ~Again(w) BY <2>1, IdleIsTrue DEF Retried
  <2>2. CASE Again(w)
    <3> DEFINE calls == Plan(job)
               n == work[w].tries + 1
               new == [work[w] EXCEPT !.calls = calls, !.tries = n]
    <3>1. calls \in Seq(CallsOf(job.kind)) /\ calls \in Seq(Calls)
      BY <1>1, <2>2, PlanIsTrue, CallsAreCalls DEF Again, EventKinds
    <3>2. n \in 0 .. Attempts - 1 BY <2>2, WorkFacts, CacheAssumption DEF Again
    <3> HIDE DEF calls, n
    <3>3. new \in [job : TrueJobs, calls : Seq(Calls), tries : 0 .. Attempts - 1,
                   got : [Groups -> Rows], alone : BOOLEAN]
      BY <3>1, <3>2, WorkFacts DEF TrueWorks
    <3>4. new.job = job /\ new.calls = calls /\ new.got = work[w].got BY WorkFacts DEF TrueWorks
    <3>5. new \in TrueWorks BY <3>1, <3>3, <3>4, WorkFacts DEF TrueWorks
    <3>6. Retried(w) = new BY <2>2 DEF Retried, calls, n
    <3> QED BY <3>5, <3>6
  <2> QED BY <2>1, <2>2
<1>3. work' \in [Workers -> TrueWorks] BY <1>2 DEF CallAborts, Truth
<1>4. Missed(w) \subseteq Groups
  <2>1. This(w).op = "put" => This(w).g \in Groups BY HeadOfGroup DEF CallAborts, Aborts
  <2>2. job.kind \in {"eph", "people"} => job.g \in Groups BY <1>1 DEF TrueJobs, EventKinds
  <2> QED BY <2>1, <2>2 DEF Missed
<1> QED BY <1>3, <1>4 DEF Truth, CallAborts, Released, cacheVars, serverVars

-----------------------------------------------------------------------------
(* WhatsApp, the clock, the process *)

LEMMA ServerChangesKeep ==
    ASSUME Truth, ServerChanges
    PROVE  Truth'
<1>1. PICK g \in Groups :
        LET is == server[g]
        IN  \/ ~is.in /\ Change(g, "joined", [is EXCEPT !.in = TRUE])
            \/ is.in /\ Change(g, "left", [is EXCEPT !.in = FALSE])
            \/ /\ is.in /\ is.ver < Len(Roster[g])
               /\ \E in \in BOOLEAN : Change(g, "people", [is EXCEPT !.in = in, !.ver = @ + 1])
            \/ is.in /\ Change(g, "eph", [is EXCEPT !.eph = ~@])
  BY DEF ServerChanges
<1> DEFINE is == server[g]
<1>2. is \in [in : BOOLEAN, ver : Nat, eph : BOOLEAN] /\ is.ver \in Versions(g) BY DEF Truth
<1>3. ASSUME NEW kind \in EventKinds, NEW now \in [in : BOOLEAN, ver : Nat, eph : BOOLEAN],
             now.ver \in Versions(g), kind = "people" => now.ver # 1, Change(g, kind, now)
      PROVE  Truth'
  <2>1. Job(kind, g, now.ver, now.eph) \in EventJobs
    BY <1>3 DEF Job, Jobs, TrueJobs, EventJobs, EventKinds
  <2>2. events' \in Seq(EventJobs) BY <1>3, <2>1 DEF Change, Truth
  <2>3. /\ server' \in [Groups -> [in : BOOLEAN, ver : Nat, eph : BOOLEAN]]
        /\ \A h \in Groups : server'[h].ver \in Versions(h)
    BY <1>3 DEF Change, Truth
  <2>4. changes' \in [Groups -> Nat] /\ \A h \in Groups : changes'[h] <= MaxChanges[h]
    <3>1. changes[g] < MaxChanges[g] /\ changes' = [changes EXCEPT ![g] = changes[g] + 1]
      BY <1>3 DEF Change
    <3>2. changes \in [Groups -> Nat] /\ \A h \in Groups : changes[h] <= MaxChanges[h] BY DEF Truth
    <3>3. MaxChanges[g] \in Nat BY CacheAssumption
    <3> QED BY <3>1, <3>2, <3>3
  <2>5. unsure' \subseteq Groups BY <1>3 DEF Change, Truth
  <2> QED BY <1>3, <2>2, <2>3, <2>4, <2>5 DEF Change, Truth, cacheVars
<1>4. CASE Change(g, "joined", [is EXCEPT !.in = TRUE])
  BY <1>2, <1>3, <1>4 DEF EventKinds
<1>5. CASE Change(g, "left", [is EXCEPT !.in = FALSE])
  BY <1>2, <1>3, <1>5 DEF EventKinds
<1>6. ASSUME NEW in \in BOOLEAN, is.ver < Len(Roster[g]),
             Change(g, "people", [is EXCEPT !.in = in, !.ver = is.ver + 1])
      PROVE  Truth'
  <2> DEFINE now == [is EXCEPT !.in = in, !.ver = is.ver + 1]
  <2>1. is.ver + 1 \in Versions(g) \ {1} BY <1>2, <1>6, RosterFacts DEF Versions
  <2>2. now \in [in : BOOLEAN, ver : Nat, eph : BOOLEAN]
    <3>1. \A r \in [in : BOOLEAN, ver : Nat, eph : BOOLEAN], b \in BOOLEAN, n \in Nat :
            [r EXCEPT !.in = b, !.ver = n] \in [in : BOOLEAN, ver : Nat, eph : BOOLEAN]
      OBVIOUS
    <3>2. is \in [in : BOOLEAN, ver : Nat, eph : BOOLEAN] /\ is.ver + 1 \in Nat BY <1>2
    <3>3. in \in BOOLEAN BY <1>6
    <3> HIDE DEF is
    <3> QED BY <3>1, <3>2, <3>3
  <2>3. now.ver = is.ver + 1 BY <1>2
  <2>4. Change(g, "people", now) BY <1>6
  <2> HIDE DEF now
  <2> QED BY <1>3, <2>1, <2>2, <2>3, <2>4 DEF EventKinds
<1>7. CASE Change(g, "eph", [is EXCEPT !.eph = ~is.eph])
  <2>1. [is EXCEPT !.eph = ~is.eph] \in [in : BOOLEAN, ver : Nat, eph : BOOLEAN] BY <1>2
  <2>2. [is EXCEPT !.eph = ~is.eph].ver = is.ver BY <1>2
  <2> QED BY <1>2, <1>3, <1>7, <2>1, <2>2 DEF EventKinds
<1> QED BY <1>1, <1>4, <1>5, <1>6, <1>7

LEMMA RestKeeps ==
    ASSUME Truth, Age \/ Restart \/ UNCHANGED vars
    PROVE  Truth'
<1>1. CASE Age BY <1>1 DEF Age, Truth, serverVars
<1>2. CASE Restart
  <2>1. work' \in [Workers -> TrueWorks] BY <1>2, IdleIsTrue DEF Restart
  <2>2. /\ fresh' = FALSE /\ lock' = None /\ events' = <<>> /\ unsure' = Groups
        /\ row' = row /\ setting' = setting /\ stamped' = stamped
        /\ server' = server /\ changes' = changes
    BY <1>2 DEF Restart, serverVars
  <2>3. events' \in Seq(EventJobs) BY <2>2
  <2> QED BY <2>1, <2>2, <2>3 DEF Truth
<1>3. CASE UNCHANGED vars BY <1>3 DEF vars, Truth, cacheVars, serverVars
<1> QED BY <1>1, <1>2, <1>3

-----------------------------------------------------------------------------

LEMMA InitIsTrue == Init => Truth
<1> SUFFICES ASSUME Init PROVE Truth OBVIOUS
<1>1. server \in [Groups -> [in : BOOLEAN, ver : {1}, eph : {FALSE}]] BY DEF Init
<1>2. ASSUME NEW x \in [in : BOOLEAN, ver : {1}, eph : {FALSE}]
      PROVE  x \in [in : BOOLEAN, ver : Nat, eph : BOOLEAN] /\ x.ver = 1
  <2>1. ASSUME NEW A, NEW V1, NEW V2, NEW B1, NEW B2, V1 \subseteq V2, B1 \subseteq B2
        PROVE  [in : A, ver : V1, eph : B1] \subseteq [in : A, ver : V2, eph : B2]
    BY <2>1
  <2>2. {1} \subseteq Nat /\ {FALSE} \subseteq BOOLEAN OBVIOUS
  <2>3. x.ver = 1 OBVIOUS
  <2> QED BY <2>1, <2>2, <2>3
<1>3. \A g \in Groups : 1 \in Versions(g) BY RosterFacts DEF Versions
<1>10. /\ server \in [Groups -> [in : BOOLEAN, ver : Nat, eph : BOOLEAN]]
       /\ \A g \in Groups : server[g].ver \in Versions(g)
  <2> DEFINE S == [in : BOOLEAN, ver : {1}, eph : {FALSE}]
             T == [in : BOOLEAN, ver : Nat, eph : BOOLEAN]
  <2>1. server \in [Groups -> S] BY <1>1
  <2>2. \A x \in S : x \in T /\ x.ver = 1 BY <1>2
  <2> HIDE DEF S, T
  <2>3. server \in [Groups -> T] /\ \A g \in Groups : server[g].ver = 1 BY <2>1, <2>2
  <2> QED BY <2>3, <1>3 DEF T
<1>4. \A g \in Groups : TrueRow(g, RowAt(g, 1, FALSE)) BY <1>3, RowAtIsTrue
<1>5. row = [g \in Groups |-> IF fresh /\ server[g].in THEN RowAt(g, 1, FALSE) ELSE NoRow]
  BY DEF Init
<1>6. row \in [Groups -> Rows] /\ \A g \in Groups : Stored(g, row[g])
  BY <1>4, <1>5, NoRowIsARow, TrueRowIsStored DEF Stored
<1>7. work \in [Workers -> TrueWorks]
  <2>1. work = [w \in Workers |-> Idle] BY DEF Init
  <2> QED BY <2>1, IdleIsTrue
<1>8. /\ changes \in [Groups -> Nat] /\ \A g \in Groups : changes[g] <= MaxChanges[g]
  <2>1. changes = [g \in Groups |-> 0] BY DEF Init
  <2>2. \A g \in Groups : MaxChanges[g] \in Nat BY CacheAssumption
  <2> QED BY <2>1, <2>2
<1>9. /\ setting \subseteq Groups /\ stamped \subseteq setting /\ fresh \in BOOLEAN /\ lock \in Workers \cup {None}
      /\ events \in Seq(EventJobs) /\ unsure \subseteq Groups
  <2>1. events = <<>> /\ lock = None /\ setting = {} /\ stamped = {} /\ fresh \in BOOLEAN BY DEF Init
  <2>2. unsure = IF fresh THEN {} ELSE Groups BY DEF Init
  <2> QED BY <2>1, <2>2
<1> QED BY <1>10, <1>6, <1>7, <1>8, <1>9 DEF Truth

LEMMA StepKeepsTruth == Truth /\ [Next]_vars => Truth'
<1> SUFFICES ASSUME Truth, [Next]_vars PROVE Truth' OBVIOUS
<1>1. ASSUME NEW w \in Workers, Request(w) PROVE Truth' BY <1>1, RequestKeeps
<1>2. ASSUME NEW w \in Workers, Lock(w) PROVE Truth' BY <1>2, LockKeeps
<1>3. ASSUME NEW w \in Workers, Statement(w) PROVE Truth'
  BY StatementCases, <1>3, WritesKeep, GetJoinedGroupsKeeps, GetAllGroupsKeeps, GetGroupToUpdateKeeps,
     GetGroupToShareKeeps, CallSkippedKeeps, CallAbortsKeeps
<1>4. CASE ServerChanges BY <1>4, ServerChangesKeep
<1>5. CASE Age \/ Restart \/ UNCHANGED vars BY <1>5, RestKeeps
<1> QED BY <1>1, <1>2, <1>3, <1>4, <1>5 DEF Next

LEMMA TruthIsInvariant == Spec => []Truth
<1>1. Init => Truth BY InitIsTrue
<1>2. Truth /\ [Next]_vars => Truth' BY StepKeepsTruth
<1> QED BY <1>1, <1>2, PTL DEF Spec

\* Rows, settings, workers, events and what WhatsApp has are always of their type.
THEOREM TypeCorrect == Spec => []TypeOK
<1>1. Truth => TypeOK
  <2> SUFFICES ASSUME Truth PROVE TypeOK OBVIOUS
  <2>1. TrueWorks \subseteq [job : Jobs, calls : Seq(Calls), tries : 0 .. Attempts - 1,
                             got : [Groups -> Rows], alone : BOOLEAN]
    BY DEF TrueWorks, TrueJobs
  <2>2. work \in [Workers -> [job : Jobs, calls : Seq(Calls), tries : 0 .. Attempts - 1,
                              got : [Groups -> Rows], alone : BOOLEAN]]
    BY <2>1 DEF Truth
  <2>3. events \in Seq(Jobs)
    <3>1. EventJobs \subseteq Jobs BY DEF EventJobs, TrueJobs
    <3> QED BY <3>1 DEF Truth
  <2> QED BY <2>2, <2>3 DEF Truth, TypeOK
<1> QED BY <1>1, TruthIsInvariant, PTL

\* Whatever the groups, their changes and the order in which updates, refreshes and the
\* writers without a lock run, fail and are tried again, a stored group has the
\* participants of its participant version.
THEOREM RowsAreTrue == Spec => []VersionTruth
<1>1. Truth => VersionTruth BY DEF Truth, VersionTruth, Stored, TrueRow
<1> QED BY <1>1, TruthIsInvariant, PTL

-----------------------------------------------------------------------------
(* The lock *)

Outer(c) == c.op \notin {"lock", "unlock"}
Inner(c) == c.op \notin {"lock", "unlock", "peek"}
AllInner(s) == \A i \in 1 .. Len(s) : Inner(s[i])

\* The calls of a worker that does not need the lock any more, that is about to take it, and
\* that holds it: it unlocks exactly once, and reads without the lock only after that.
Outside(s) == \A i \in 1 .. Len(s) : Outer(s[i])
Waiting == <<Do("lock"), Do("load"), Do("unlock")>>
Inside(s) ==
    \E i \in 1 .. Len(s) :
        /\ s[i].op = "unlock"
        /\ \A j \in 1 .. i - 1 : Inner(s[j])
        /\ \A j \in i + 1 .. Len(s) : Outer(s[j])

InOrder(s, held) == IF held THEN Inside(s) ELSE Outside(s) \/ s = Waiting

\* Inductive, given Truth: whoever has an unlock ahead of it holds the lock.
Sections == \A w \in Workers : InOrder(work[w].calls, lock = w)

LEMMA DoFacts == \A op : Do(op).op = op
BY DEF Do, Call

LEMMA HeadTail ==
    ASSUME NEW S, NEW s \in Seq(S), s # <<>>
    PROVE  /\ Len(s) \in Nat \ {0} /\ Head(s) = s[1]
           /\ Tail(s) \in Seq(S) /\ Len(Tail(s)) = Len(s) - 1
           /\ \A i \in 1 .. Len(Tail(s)) : Tail(s)[i] = s[i + 1]
OBVIOUS

\* What is left after the first call.
LEMMA TailFacts ==
    ASSUME NEW s \in Seq(Calls), s # <<>>
    PROVE  /\ Outside(s) => Outside(Tail(s)) /\ Outer(Head(s))
           /\ Inside(s) /\ Inner(Head(s)) => Inside(Tail(s))
           /\ Inside(s) /\ Head(s).op = "unlock" => Outside(Tail(s))
           /\ Inside(s) => Head(s).op \notin {"lock", "peek"}
<1> DEFINE t == Tail(s)
<1>1. /\ Len(s) \in Nat \ {0} /\ Head(s) = s[1] /\ Len(t) = Len(s) - 1
      /\ \A i \in 1 .. Len(t) : t[i] = s[i + 1]
  BY HeadTail
<1> HIDE DEF t
<1>2. Outside(s) => Outside(t) /\ Outer(Head(s)) BY <1>1 DEF Outside
<1>3. ASSUME Inside(s) PROVE /\ Inner(Head(s)) => Inside(t)
                             /\ Head(s).op = "unlock" => Outside(t)
                             /\ Head(s).op \notin {"lock", "peek"}
  <2>1. PICK i \in 1 .. Len(s) :
          /\ s[i].op = "unlock"
          /\ \A j \in 1 .. i - 1 : Inner(s[j])
          /\ \A j \in i + 1 .. Len(s) : Outer(s[j])
    BY <1>3 DEF Inside
  <2>2. CASE i = 1
    <3>1. Head(s).op = "unlock" BY <1>1, <2>1, <2>2
    <3>2. \A j \in 1 .. Len(t) : Outer(t[j]) BY <1>1, <2>1, <2>2
    <3> QED BY <3>1, <3>2 DEF Outside, Inner
  <2>3. CASE i # 1
    <3>1. Inner(Head(s)) BY <1>1, <2>1, <2>3
    <3>2. i - 1 \in 1 .. Len(t) /\ t[i - 1].op = "unlock" BY <1>1, <2>1, <2>3
    <3>3. \A j \in 1 .. (i - 1) - 1 : Inner(t[j]) BY <1>1, <2>1, <2>3
    <3>4. \A j \in (i - 1) + 1 .. Len(t) : Outer(t[j]) BY <1>1, <2>1, <2>3
    <3>5. Inside(t) BY <3>2, <3>3, <3>4 DEF Inside
    <3> QED BY <3>1, <3>5 DEF Inner
  <2> QED BY <2>2, <2>3
<1> QED BY <1>2, <1>3 DEF t

\* Calls that do not lock, before the ones that are left.
LEMMA ConcatFacts ==
    ASSUME NEW S, NEW a \in Seq(S), NEW b \in Seq(S), AllInner(a)
    PROVE  /\ Outside(b) => Outside(a \o b)
           /\ Inside(b) => Inside(a \o b)
<1> DEFINE c == a \o b
<1>1. /\ Len(a) \in Nat /\ Len(b) \in Nat /\ Len(c) = Len(a) + Len(b)
      /\ \A i \in 1 .. Len(c) : c[i] = IF i <= Len(a) THEN a[i] ELSE b[i - Len(a)]
  OBVIOUS
<1> HIDE DEF c
<1>2. ASSUME Outside(b) PROVE Outside(c)
  <2>1. ASSUME NEW i \in 1 .. Len(c) PROVE Outer(c[i])
    <3>1. CASE i <= Len(a) BY <1>1, <3>1 DEF AllInner, Inner, Outer
    <3>2. CASE ~(i <= Len(a))
      <4>1. i - Len(a) \in 1 .. Len(b) /\ c[i] = b[i - Len(a)] BY <1>1, <3>2
      <4> QED BY <4>1, <1>2 DEF Outside
    <3> QED BY <3>1, <3>2
  <2> QED BY <2>1 DEF Outside
<1>3. ASSUME Inside(b) PROVE Inside(c)
  <2>1. PICK i \in 1 .. Len(b) :
          /\ b[i].op = "unlock"
          /\ \A j \in 1 .. i - 1 : Inner(b[j])
          /\ \A j \in i + 1 .. Len(b) : Outer(b[j])
    BY <1>3 DEF Inside
  <2> DEFINE k == Len(a) + i
  <2>2. k \in 1 .. Len(c) /\ c[k].op = "unlock" BY SMTT(30), <1>1, <2>1
  <2>3. ASSUME NEW j \in 1 .. k - 1 PROVE Inner(c[j])
    <3>1. CASE j <= Len(a) BY SMTT(30), <1>1, <3>1 DEF AllInner
    <3>2. CASE ~(j <= Len(a))
      <4>1. j - Len(a) \in 1 .. i - 1 /\ c[j] = b[j - Len(a)] BY <1>1, <3>2
      <4> QED BY <4>1, <2>1
    <3> QED BY <3>1, <3>2
  <2>4. ASSUME NEW j \in k + 1 .. Len(c) PROVE Outer(c[j])
    <3>1. j - Len(a) \in i + 1 .. Len(b) /\ c[j] = b[j - Len(a)] BY <1>1
    <3> QED BY <3>1, <2>1
  <2> HIDE DEF k
  <2> QED BY <2>2, <2>3, <2>4 DEF Inside
<1> QED BY <1>2, <1>3 DEF c

\* The sequences that begin a job or a section.
LEMMA SectionFacts ==
    /\ Outside(<<>>) /\ ~Inside(<<>>)
    /\ Outside(<<Do("peek")>>)
    /\ Inside(<<Do("joined"), Do("unlock")>>)
    /\ Inside(<<Do("joined"), Do("unlock"), Do("peek")>>)
    /\ Tail(Waiting) = <<Do("load"), Do("unlock")>> /\ Inside(Tail(Waiting))
    /\ Waiting # <<>> /\ Head(Waiting) = Do("lock")
<1>1. Outside(<<>>) /\ ~Inside(<<>>) BY DEF Outside, Inside
<1>2. Outside(<<Do("peek")>>) BY DoFacts DEF Outside, Outer
<1>3. Inside(<<Do("joined"), Do("unlock")>>)
  <2> DEFINE s == <<Do("joined"), Do("unlock")>>
  <2>1. Len(s) = 2 /\ s[1].op = "joined" /\ s[2].op = "unlock" BY DoFacts
  <2> HIDE DEF s
  <2>2. Inside(s) BY <2>1 DEF Inside, Inner
  <2> QED BY <2>2 DEF s
<1>4. Inside(<<Do("joined"), Do("unlock"), Do("peek")>>)
  <2> DEFINE s == <<Do("joined"), Do("unlock"), Do("peek")>>
  <2>1. Len(s) = 3 /\ s[1].op = "joined" /\ s[2].op = "unlock" /\ s[3].op = "peek" BY DoFacts
  <2> HIDE DEF s
  <2>2. Inside(s) BY <2>1 DEF Inside, Inner, Outer
  <2> QED BY <2>2 DEF s
<1>5. Tail(Waiting) = <<Do("load"), Do("unlock")>> BY DEF Waiting
<1>6. Inside(<<Do("load"), Do("unlock")>>)
  <2> DEFINE s == <<Do("load"), Do("unlock")>>
  <2>1. Len(s) = 2 /\ s[1].op = "load" /\ s[2].op = "unlock" BY DoFacts
  <2> HIDE DEF s
  <2>2. Inside(s) BY <2>1 DEF Inside, Inner
  <2> QED BY <2>2 DEF s
<1>7. Waiting # <<>> /\ Head(Waiting) = Do("lock") BY DEF Waiting
<1> QED BY <1>1, <1>2, <1>3, <1>4, <1>5, <1>6, <1>7

LEMMA InnerConcat ==
    ASSUME NEW a \in Seq(Calls), NEW b \in Seq(Calls), AllInner(a), AllInner(b)
    PROVE  a \o b \in Seq(Calls) /\ AllInner(a \o b)
<1> DEFINE c == a \o b
<1>1. /\ c \in Seq(Calls) /\ Len(a) \in Nat /\ Len(b) \in Nat /\ Len(c) = Len(a) + Len(b)
      /\ \A i \in 1 .. Len(c) : c[i] = IF i <= Len(a) THEN a[i] ELSE b[i - Len(a)]
  OBVIOUS
<1> HIDE DEF c
<1>2. ASSUME NEW i \in 1 .. Len(c) PROVE Inner(c[i])
  <2>1. CASE i <= Len(a) BY <1>1, <2>1 DEF AllInner
  <2>2. CASE ~(i <= Len(a))
    <3>1. i - Len(a) \in 1 .. Len(b) /\ c[i] = b[i - Len(a)] BY <1>1, <2>2
    <3> QED BY <3>1 DEF AllInner
  <2> QED BY <2>1, <2>2
<1> QED BY <1>1, <1>2 DEF AllInner, c

\* A refresh does not touch the lock.
LEMMA RefreshIsInner ==
    ASSUME Truth, NEW w \in Workers, NEW s \in Orders(Reported(w)),
           NEW d \in Orders({g \in Groups : row[g] # NoRow} \ Reported(w))
    PROVE  Refresh(w, s, d) \in Seq(Calls) /\ AllInner(Refresh(w, s, d))
<1> DEFINE u == Upserts(work[w].got, s)
           e == Deletes(d)
           m == Mark(w)
           stale == {g \in Groups : row[g] # NoRow} \ Reported(w)
<1>1. u \in Seq(Calls)
  <2>1. Reported(w) \in SUBSET Groups BY DEF Reported
  <2>2. \A g \in Reported(w) : TrueRow(g, work[w].got[g]) BY WorkFacts DEF Reported, Stored
  <2>3. u \in Seq(CallsOf("fetch")) BY <2>1, <2>2, WorkFacts, UpsertsAreTrue
  <2> QED BY <2>3, CallsAreCalls
<1>2. e \in Seq(Calls)
  <2>1. e \in Seq(CallsOf("fetch")) BY stale \in SUBSET Groups, DeletesAreTrue
  <2> QED BY <2>1, CallsAreCalls
<1>3. m \in Seq(Calls) /\ AllInner(m)
  <2>1. Do("mark") \in Calls /\ Inner(Do("mark")) BY DoFacts, TrueCalls DEF Inner, CallsOf
  <2> QED BY <2>1 DEF Mark, AllInner
<1>4. AllInner(u)
  <2> DEFINE f(i) == IF i % 2 = 1 THEN Call("set", s[(i + 1) \div 2], work[w].got[s[(i + 1) \div 2]])
                                  ELSE Call("put", s[i \div 2], work[w].got[s[i \div 2]])
             n == 2 * Len(s)
  <2>1. u = [i \in 1 .. n |-> f(i)] BY DEF Upserts, Pairwise
  <2>2. \A i \in 1 .. n : Inner(f(i)) BY DEF Inner, Call
  <2>3. n \in Nat BY OrderFacts, Reported(w) \in SUBSET Groups DEF Reported
  <2> HIDE DEF f, n, u
  <2>4. DOMAIN u = 1 .. n /\ \A i \in 1 .. n : Inner(u[i]) BY <2>1, <2>2
  <2>5. Len(u) = n BY <1>1, <2>3, <2>4
  <2> QED BY <2>4, <2>5 DEF AllInner
<1>5. AllInner(e)
  <2> DEFINE f(i) == IF i % 2 = 1 THEN Call("unset", d[(i + 1) \div 2], NoRow)
                                  ELSE Call("del", d[i \div 2], NoRow)
             n == 2 * Len(d)
  <2>1. e = [i \in 1 .. n |-> f(i)] BY DEF Deletes, Pairwise
  <2>2. \A i \in 1 .. n : Inner(f(i)) BY DEF Inner, Call
  <2>3. n \in Nat BY OrderFacts, stale \in SUBSET Groups
  <2> HIDE DEF f, n, e
  <2>4. DOMAIN e = 1 .. n /\ \A i \in 1 .. n : Inner(e[i]) BY <2>1, <2>2
  <2>5. Len(e) = n BY <1>2, <2>3, <2>4
  <2> QED BY <2>4, <2>5 DEF AllInner
<1> HIDE DEF u, e, m, stale
<1>6. u \o e \in Seq(Calls) /\ AllInner(u \o e) BY <1>1, <1>2, <1>4, <1>5, InnerConcat
<1>7. (u \o e) \o m \in Seq(Calls) /\ AllInner((u \o e) \o m) BY <1>3, <1>6, InnerConcat
<1> QED BY <1>7 DEF Refresh, u, e, m

\* A step of worker w, by what becomes of its calls and of the lock.
LEMMA SectionsKept ==
    ASSUME Truth, Sections, NEW w \in Workers,
           \A v \in Workers \ {w} : work'[v].calls = work[v].calls,
           \/ lock' = lock
           \/ lock = None /\ lock' = w
           \/ lock = w /\ lock' = None,
           InOrder(work'[w].calls, lock' = w)
    PROVE  Sections'
<1>1. None \notin Workers BY CacheAssumption
<1>2. ASSUME NEW v \in Workers PROVE InOrder(work'[v].calls, lock' = v)
  <2>1. CASE v = w BY <2>1
  <2>2. CASE v # w
    <3>1. work'[v].calls = work[v].calls BY <2>2
    <3>2. (lock' = v) <=> (lock = v) BY <1>1, <2>2
    <3>3. InOrder(work[v].calls, lock = v) BY DEF Sections
    <3> QED BY <3>1, <3>2, <3>3 DEF InOrder
  <2> QED BY <2>1, <2>2
<1> QED BY <1>2 DEF Sections

LEMMA ContinueCalls ==
    ASSUME Truth, NEW w \in Workers, NEW calls, Continue(w, calls)
    PROVE  /\ work'[w].calls = calls
           /\ \A v \in Workers \ {w} : work'[v].calls = work[v].calls
<1>1. work \in [Workers -> TrueWorks] BY DEF Truth
<1>2. [work[w] EXCEPT !.calls = calls].calls = calls BY WorkFacts DEF TrueWorks
<1>3. Idle.calls = <<>> BY DEF Idle
<1> QED BY <1>1, <1>2, <1>3 DEF Continue

LEMMA BeginCalls ==
    ASSUME Truth, NEW w \in Workers, NEW job, NEW calls, NEW tangled, Begin(w, job, calls, tangled)
    PROVE  /\ work[w].calls = <<>>
           /\ work'[w].calls = calls
           /\ \A v \in Workers \ {w} : work'[v].calls = work[v].calls
<1> DEFINE mixed == tangled \/ \E v \in Busy : Conflict(job, work[v].job)
           mine == [Idle EXCEPT !.job = job, !.calls = calls, !.alone = ~mixed]
           other(v) == [work[v] EXCEPT !.alone = work[v].alone /\ (v \notin Busy \/ ~mixed)]
<1>1. work' = [v \in Workers |-> IF v = w THEN mine ELSE other(v)] BY DEF Begin
<1>2. work[w].calls = <<>>
  <2>1. work[w] = Idle BY DEF Begin
  <2>2. Idle.calls = <<>> BY DEF Idle
  <2> QED BY <2>1, <2>2
<1>3. mine.calls = calls
  <2> HIDE DEF mixed
  <2> QED BY IdleIsTrue DEF TrueWorks
<1>4. \A v \in Workers : other(v).calls = work[v].calls BY WorkFacts DEF TrueWorks
<1> HIDE DEF mine, other
<1> QED BY <1>1, <1>2, <1>3, <1>4

LEMMA RequestInOrder ==
    ASSUME Truth, Sections, NEW w \in Workers, Request(w)
    PROVE  Sections'
<1>1. CASE HandleEvent(w) \/ UpdateOtherwise(w)
  <2>1. PICK job, tangled :
          /\ Begin(w, job, Plan(job), tangled)
          /\ job.kind \in EventKinds \cup {"chat"}
          /\ lock' = lock
    <3>1. CASE HandleEvent(w)
      <4>1. PICK i \in DOMAIN events :
              /\ Begin(w, events[i], Plan(events[i]), \E j \in 1 .. i - 1 : events[j].g = events[i].g)
              /\ lock' = lock
        BY <3>1 DEF HandleEvent
      <4>2. events[i].kind \in EventKinds
        <5>1. events \in Seq(EventJobs) BY DEF Truth
        <5> QED BY <4>1, <5>1 DEF EventJobs
      <4> QED BY <4>1, <4>2
    <3>2. CASE UpdateOtherwise(w)
      <4>1. PICK g \in Named, eph \in BOOLEAN :
              Begin(w, Job("chat", g, 0, eph), Plan(Job("chat", g, 0, eph)), TRUE) /\ lock' = lock
        BY <3>2 DEF UpdateOtherwise
      <4>2. Job("chat", g, 0, eph).kind = "chat" BY DEF Job
      <4> QED BY <4>1, <4>2
    <3> QED BY <1>1, <3>1, <3>2
  <2>2. Outside(Plan(job)) \/ Plan(job) = Waiting
    <3>1. CASE job.kind \in {"people", "eph"} BY <3>1 DEF Plan, Waiting
    <3>2. CASE job.kind = "joined"
      <4> DEFINE r == RowAt(job.g, job.ver, job.eph)
      <4>1. Plan(job) = <<Call("set", job.g, r), Call("put", job.g, r)>> BY <3>2 DEF Plan
      <4>2. Call("set", job.g, r).op = "set" /\ Call("put", job.g, r).op = "put" BY DEF Call
      <4> HIDE DEF r
      <4> QED BY <4>1, <4>2 DEF Outside, Outer
    <3>3. CASE job.kind = "left"
      <4>1. Plan(job) = <<Call("unset", job.g, NoRow), Call("del", job.g, NoRow)>> BY <3>3 DEF Plan
      <4>2. Call("unset", job.g, NoRow).op = "unset" /\ Call("del", job.g, NoRow).op = "del"
        BY DEF Call
      <4> QED BY <4>1, <4>2 DEF Outside, Outer
    <3>4. CASE job.kind = "chat"
      <4> DEFINE r == [NoRow EXCEPT !.eph = job.eph]
      <4>1. Plan(job) = <<Call("set", job.g, r)>> BY <3>4 DEF Plan
      <4>2. Call("set", job.g, r).op = "set" BY DEF Call
      <4> HIDE DEF r
      <4> QED BY <4>1, <4>2 DEF Outside, Outer
    <3> QED BY <2>1, <3>1, <3>2, <3>3, <3>4 DEF EventKinds
  <2>3. lock # w
    <3>1. work[w].calls = <<>> BY <2>1, BeginCalls
    <3> QED BY <3>1, SectionFacts DEF Sections, InOrder
  <2>4. /\ work'[w].calls = Plan(job)
        /\ \A v \in Workers \ {w} : work'[v].calls = work[v].calls
    BY <2>1, BeginCalls
  <2> QED BY <2>1, <2>2, <2>3, <2>4, SectionsKept DEF InOrder
<1>2. CASE FetchGroups(w)
  <2>1. /\ Begin(w, Job("fetch", None, 0, FALSE), <<Do("joined"), Do("unlock")>>, FALSE)
        /\ lock = None /\ lock' = w
    BY <1>2 DEF FetchGroups, Acquire
  <2>2. /\ work'[w].calls = <<Do("joined"), Do("unlock")>>
        /\ \A v \in Workers \ {w} : work'[v].calls = work[v].calls
    BY <2>1, BeginCalls
  <2> QED BY <2>1, <2>2, SectionFacts, SectionsKept DEF InOrder
<1>3. CASE SetGroupMemberShareHistoryMode(w)
  <2> DEFINE calls == IF fresh THEN <<Do("peek")>>
                               ELSE <<Do("joined"), Do("unlock"), Do("peek")>>
  <2>1. PICK g \in Named : Begin(w, Job("share", g, 0, FALSE), calls, FALSE)
    BY <1>3 DEF SetGroupMemberShareHistoryMode
  <2>2. lock = None /\ lock' = IF fresh THEN None ELSE w
    BY <1>3 DEF SetGroupMemberShareHistoryMode
  <2>3. InOrder(calls, lock' = w)
    <3>1. w # None BY CacheAssumption
    <3> QED BY <2>2, <3>1, SectionFacts DEF InOrder
  <2> HIDE DEF calls
  <2>4. /\ work'[w].calls = calls
        /\ \A v \in Workers \ {w} : work'[v].calls = work[v].calls
    BY <2>1, BeginCalls
  <2> QED BY <2>2, <2>3, <2>4, SectionsKept
<1> QED BY <1>1, <1>2, <1>3 DEF Request

\* The first call of worker w is not one of the lock's: it is before an unlock only if w
\* holds the lock, and so are the calls after it.
LEMMA HeadInOrder ==
    ASSUME Truth, Sections, NEW w \in Workers, work[w].calls # <<>>, This(w).op \notin {"lock", "unlock"}
    PROVE  /\ This(w).op = "peek" => lock # w
           /\ Rest(w) \in Seq(Calls)
           /\ IF lock = w THEN Inside(Rest(w)) ELSE Outside(Rest(w))
<1> DEFINE s == work[w].calls
<1>1. s \in Seq(Calls) /\ s # <<>> /\ This(w) = Head(s) /\ Rest(w) = Tail(s)
  BY WorkFacts DEF This, Rest
<1>2. InOrder(s, lock = w) BY DEF Sections
<1>3. s # Waiting BY <1>1, SectionFacts, DoFacts
<1> HIDE DEF s
<1>4. Tail(s) \in Seq(Calls) BY <1>1
<1>5. CASE lock = w
  <2>1. Inside(s) BY <1>2, <1>5 DEF InOrder
  <2>2. Inner(Head(s)) BY <1>1, <2>1, TailFacts DEF Inner
  <2> QED BY <1>1, <1>4, <1>5, <2>1, <2>2, TailFacts DEF Inner
<1>6. CASE lock # w
  <2>1. Outside(s) BY <1>2, <1>3, <1>6 DEF InOrder
  <2> QED BY <1>1, <1>4, <1>6, <2>1, TailFacts
<1> QED BY <1>5, <1>6

\* Calls that do not lock are put before those that are left.
LEMMA PrefixInOrder ==
    ASSUME Truth, Sections, NEW w \in Workers, work[w].calls # <<>>, This(w).op \notin {"lock", "unlock"},
           NEW S, Calls \subseteq S, NEW a \in Seq(S), AllInner(a)
    PROVE  InOrder(a \o Rest(w), lock = w)
<1>1. Rest(w) \in Seq(S) BY HeadInOrder
<1> QED BY <1>1, HeadInOrder, ConcatFacts DEF InOrder

LEMMA LockInOrder ==
    ASSUME Truth, Sections, NEW w \in Workers, Lock(w)
    PROVE  Sections'
<1> DEFINE s == work[w].calls
           calls == IF fresh THEN Rest(w) ELSE <<Do("joined"), Do("unlock")>>
<1>1. s \in Seq(Calls) /\ s # <<>> /\ Head(s).op = "lock" /\ Rest(w) = Tail(s)
  BY WorkFacts DEF Lock, Calling, Rest
<1>2. lock = None /\ lock' = w /\ Continue(w, calls) BY DEF Lock, Acquire
<1>3. s = Waiting
  <2>1. InOrder(s, lock = w) BY DEF Sections
  <2>2. ~Inside(s) /\ ~Outside(s) BY <1>1, TailFacts DEF Outer
  <2> QED BY <2>1, <2>2 DEF InOrder
<1>4. Inside(calls) BY <1>1, <1>3, SectionFacts
<1> HIDE DEF calls, s
<1> QED BY <1>2, <1>4, ContinueCalls, SectionsKept DEF InOrder

LEMMA UnlockInOrder ==
    ASSUME Truth, Sections, NEW w \in Workers, Unlock(w)
    PROVE  Sections'
<1> DEFINE s == work[w].calls
<1>1. s \in Seq(Calls) /\ s # <<>> /\ Head(s).op = "unlock" /\ Rest(w) = Tail(s)
  BY WorkFacts DEF Unlock, Calling, Rest
<1>2. lock' = None /\ Continue(w, Rest(w)) BY DEF Unlock
<1>3. Inside(s) /\ lock = w
  <2>1. InOrder(s, lock = w) BY DEF Sections
  <2>2. ~Outside(s) BY <1>1, TailFacts DEF Outer
  <2>3. s # Waiting BY <1>1, SectionFacts, DoFacts
  <2> QED BY <2>1, <2>2, <2>3 DEF InOrder
<1>4. Outside(Rest(w)) BY <1>1, <1>3, TailFacts
<1>5. lock' # w BY <1>2, CacheAssumption
<1> HIDE DEF s
<1> QED BY <1>2, <1>3, <1>4, <1>5, ContinueCalls, SectionsKept DEF InOrder

LEMMA OtherStatementInOrder ==
    ASSUME Truth, Sections, NEW w \in Workers, Statement(w), ~Unlock(w)
    PROVE  Sections'
<1>1. CASE UpdateSetting(w) \/ PutGroup(w) \/ DeleteSetting(w) \/ DeleteGroup(w) \/ MarkFresh(w)
  <2>1. /\ work[w].calls # <<>> /\ This(w).op \in {"set", "put", "unset", "del", "mark"}
        /\ Continue(w, Rest(w)) /\ lock' = lock
    BY <1>1 DEF UpdateSetting, PutGroup, DeleteSetting, DeleteGroup, MarkFresh, Calling, This
  <2>2. InOrder(Rest(w), lock = w) BY <2>1, HeadInOrder DEF InOrder
  <2> QED BY <2>1, <2>2, ContinueCalls, SectionsKept DEF InOrder
<1>2. CASE GetJoinedGroups(w)
  <2> DEFINE a == <<Do("existing")>>
  <2>1. work[w].calls # <<>> /\ This(w).op = "joined" /\ lock' = lock
    BY <1>2 DEF GetJoinedGroups, Calling, This
  <2>2. a \in Seq(Calls) /\ AllInner(a)
    <3>1. Do("existing") \in Calls /\ Inner(Do("existing")) BY DoFacts, TrueCalls DEF Inner, CallsOf
    <3> QED BY <3>1 DEF AllInner
  <2> HIDE DEF a
  <2>3. InOrder(a \o Rest(w), lock = w) BY <2>1, <2>2, PrefixInOrder
  <2>4. /\ work'[w].calls = a \o Rest(w)
        /\ \A v \in Workers \ {w} : work'[v].calls = work[v].calls
    <3>1. PICK got : work' = [work EXCEPT ![w] = [work[w] EXCEPT !.calls = a \o Rest(w), !.got = got]]
      BY <1>2 DEF GetJoinedGroups, a
    <3>2. [work[w] EXCEPT !.calls = a \o Rest(w), !.got = got].calls = a \o Rest(w)
      BY WorkFacts DEF TrueWorks
    <3> QED BY <3>1, <3>2 DEF Truth
  <2> QED BY <2>1, <2>3, <2>4, SectionsKept DEF InOrder
<1>3. CASE GetAllGroups(w)
  <2>1. PICK s \in Orders(Reported(w)), d \in Orders({g \in Groups : row[g] # NoRow} \ Reported(w)) :
          Continue(w, Refresh(w, s, d) \o Rest(w))
    BY <1>3 DEF GetAllGroups
  <2>2. work[w].calls # <<>> /\ This(w).op = "existing" /\ lock' = lock
    BY <1>3 DEF GetAllGroups, Calling, This
  <2> DEFINE a == Refresh(w, s, d)
  <2>3. a \in Seq(Calls) /\ AllInner(a) BY RefreshIsInner
  <2> HIDE DEF a
  <2>4. InOrder(a \o Rest(w), lock = w) BY <2>2, <2>3, PrefixInOrder
  <2> QED BY <2>1, <2>2, <2>4, ContinueCalls, SectionsKept DEF InOrder, a
<1>4. CASE GetGroupToUpdate(w)
  <2>1. work[w].calls # <<>> /\ This(w).op = "load" /\ lock' = lock
    BY <1>4 DEF GetGroupToUpdate, Calling, This
  <2>2. PICK g, one, two, a :
          /\ a = <<Call("put", g, one)>> \/ a = <<Call("set", g, two), Call("put", g, two)>>
          /\ Continue(w, a \o Rest(w))
    BY <1>4 DEF GetGroupToUpdate
  <2> DEFINE S == Calls \cup {Call("put", g, one), Call("set", g, two), Call("put", g, two)}
  <2>3. a \in Seq(S) BY <2>2
  <2>4. AllInner(a)
    <3>1. /\ Inner(Call("put", g, one)) /\ Inner(Call("set", g, two)) /\ Inner(Call("put", g, two))
      BY DEF Inner, Call
    <3> QED BY <2>2, <3>1 DEF AllInner
  <2>5. InOrder(a \o Rest(w), lock = w) BY <2>1, <2>3, <2>4, PrefixInOrder
  <2> QED BY <2>1, <2>2, <2>5, ContinueCalls, SectionsKept DEF InOrder
<1>5. CASE GetGroupToShare(w)
  <2>1. work[w].calls # <<>> /\ This(w).op = "peek" /\ lock' = lock
    BY <1>5 DEF GetGroupToShare, Calling, This
  <2>2. PICK g : Continue(w, <<Call("set", g, row[g]), Call("put", g, row[g])>>)
    BY <1>5 DEF GetGroupToShare
  <2>3. lock # w BY <2>1, HeadInOrder
  <2>4. Outside(<<Call("set", g, row[g]), Call("put", g, row[g])>>)
    <3>1. Outer(Call("set", g, row[g])) /\ Outer(Call("put", g, row[g])) BY DEF Outer, Call
    <3> QED BY <3>1 DEF Outside
  <2> QED BY <2>1, <2>2, <2>3, <2>4, ContinueCalls, SectionsKept DEF InOrder
<1>6. CASE CallSkipped(w)
  <2>1. work[w].calls # <<>> /\ This(w).op \in {"set", "unset", "del"} /\ lock' = lock
    BY <1>6 DEF CallSkipped, Skip
  <2>2. InOrder(Rest(w), lock = w) BY <2>1, HeadInOrder DEF InOrder
  <2>3. /\ work'[w].calls = Rest(w)
        /\ \A v \in Workers \ {w} : work'[v].calls = work[v].calls
    <3> DEFINE new == [work[w] EXCEPT !.calls = Rest(w), !.alone = FALSE]
    <3>1. work' = [work EXCEPT ![w] = IF Rest(w) = <<>> THEN Idle ELSE new] BY <1>6 DEF CallSkipped, Skip
    <3>2. new.calls = Rest(w) BY WorkFacts DEF TrueWorks
    <3>3. Idle.calls = <<>> BY DEF Idle
    <3> HIDE DEF new
    <3> QED BY <3>1, <3>2, <3>3 DEF Truth
  <2> QED BY <2>1, <2>2, <2>3, SectionsKept DEF InOrder
<1>7. CASE CallAborts(w)
  <2>1. work' = [work EXCEPT ![w] = Retried(w)] /\ lock' = IF lock = w THEN None ELSE lock
    BY <1>7 DEF CallAborts, Released
  <2>2. lock' # w BY <2>1, CacheAssumption
  <2>3. Outside(Retried(w).calls) \/ Retried(w).calls = Waiting
    <3>1. CASE Again(w)
      <4>1. Plan(work[w].job) = Waiting BY <3>1 DEF Again, Plan, Waiting
      <4>2. Retried(w) = [work[w] EXCEPT !.calls = Waiting, !.tries = @ + 1]
        BY <3>1, <4>1 DEF Retried
      <4>3. [work[w] EXCEPT !.calls = Waiting, !.tries = @ + 1].calls = Waiting
        BY WorkFacts DEF TrueWorks
      <4> QED BY <4>2, <4>3
    <3>2. CASE ~Again(w)
      <4>1. Retried(w) = Idle BY <3>2 DEF Retried
      <4>2. Idle.calls = <<>> BY DEF Idle
      <4> QED BY <4>1, <4>2, SectionFacts
    <3> QED BY <3>1, <3>2
  <2>4. /\ work'[w].calls = Retried(w).calls
        /\ \A v \in Workers \ {w} : work'[v].calls = work[v].calls
    BY <2>1 DEF Truth
  <2> QED BY <2>1, <2>2, <2>3, <2>4, SectionsKept DEF InOrder
<1> QED BY StatementCases, <1>1, <1>2, <1>3, <1>4, <1>5, <1>6, <1>7

LEMMA StepKeepsSections == Truth /\ Sections /\ [Next]_vars => Sections'
<1> SUFFICES ASSUME Truth, Sections, [Next]_vars PROVE Sections' OBVIOUS
<1>1. ASSUME NEW w \in Workers, Request(w) PROVE Sections' BY <1>1, RequestInOrder
<1>2. ASSUME NEW w \in Workers, Lock(w) PROVE Sections' BY <1>2, LockInOrder
<1>3. ASSUME NEW w \in Workers, Statement(w) PROVE Sections'
  BY <1>3, UnlockInOrder, OtherStatementInOrder
<1>4. CASE ServerChanges \/ Age \/ UNCHANGED vars
  <2>1. work' = work /\ lock' = lock BY <1>4 DEF ServerChanges, Change, Age, vars
  <2> QED BY <2>1 DEF Sections, InOrder
<1>5. CASE Restart
  <2>1. work' = [w \in Workers |-> Idle] /\ lock' = None BY <1>5 DEF Restart
  <2>2. Idle.calls = <<>> BY DEF Idle
  <2>3. \A w \in Workers : lock' # w BY <2>1, CacheAssumption
  <2> QED BY <2>1, <2>2, <2>3, SectionFacts DEF Sections, InOrder
<1> QED BY <1>1, <1>2, <1>3, <1>4, <1>5 DEF Next

\* Whatever fails between locking and unlocking, and however often it is tried again: a
\* worker holds the lock exactly from its taking it until it unlocks or gives up.
THEOREM LockFollowsCalls == Spec => []LockIsHeld
<1>1. Init => Sections
  <2> SUFFICES ASSUME Init PROVE Sections OBVIOUS
  <2>1. work = [w \in Workers |-> Idle] /\ lock = None BY DEF Init
  <2>2. Idle.calls = <<>> BY DEF Idle
  <2>3. \A w \in Workers : lock # w BY <2>1, CacheAssumption
  <2> QED BY <2>1, <2>2, <2>3, SectionFacts DEF Sections, InOrder
<1>2. Truth /\ Sections => LockIsHeld
  <2> SUFFICES ASSUME Truth, Sections, NEW w \in Workers PROVE InSection(w) <=> lock = w
    BY DEF LockIsHeld
  <2> DEFINE s == work[w].calls
  <2>1. s \in Seq(Calls) BY WorkFacts
  <2>2. InOrder(s, lock = w) BY DEF Sections
  <2>3. InSection(w) <=> /\ \E i \in 1 .. Len(s) : s[i].op = "unlock"
                         /\ ~(s # <<>> /\ Head(s).op = "lock")
    BY <2>1 DEF InSection, Calling
  <2> HIDE DEF s
  <2>4. CASE lock = w
    <3>1. Inside(s) BY <2>2, <2>4 DEF InOrder
    <3>2. \E i \in 1 .. Len(s) : s[i].op = "unlock" BY <3>1 DEF Inside
    <3>3. s # <<>> => Head(s).op # "lock" BY <2>1, <3>1, TailFacts
    <3> QED BY <2>3, <2>4, <3>2, <3>3
  <2>5. CASE lock # w
    <3>1. Outside(s) \/ s = Waiting BY <2>2, <2>5 DEF InOrder
    <3>2. CASE Outside(s) BY <2>3, <2>5, <3>2 DEF Outside, Outer
    <3>3. CASE s = Waiting BY <2>3, <2>5, <3>3, SectionFacts, DoFacts
    <3> QED BY <3>1, <3>2, <3>3
  <2> QED BY <2>4, <2>5
<1>3. Truth /\ Truth' /\ Sections /\ [Next]_vars => Sections' BY StepKeepsSections
<1> QED BY <1>1, <1>2, <1>3, TruthIsInvariant, PTL DEF Spec

-----------------------------------------------------------------------------
(* The form of what a worker has left *)

Left(s) == {s[i] : i \in 1 .. Len(s)}

\* A row is put after its setting is, and a setting and its row are deleted together.
Paired(s) ==
    \A i \in 1 .. Len(s) :
        /\ s[i].op = "put" /\ i > 1 => s[i - 1] = Call("set", s[i].g, s[i].row)
        /\ s[i].op = "set" => i < Len(s) /\ s[i + 1] = Call("put", s[i].g, s[i].row)
        /\ s[i].op = "unset" => i < Len(s) /\ s[i + 1] = Call("del", s[i].g, NoRow)
Leading(s) == s # <<>> => s[1].op # "put"

\* What comes before what.
Before(c, d) ==
    /\ c.op = "lock" => d.op \in {"load", "unlock"}
    /\ c.op \in {"joined", "existing", "load"} => d.op \in {"unlock", "peek"}
    /\ c.op = "del" => d.op # "put"
    /\ c.op = "mark" => d.op \in {"unlock", "peek"}
    /\ c.op = "unlock" => d.op = "peek"
    /\ d.op # "existing"
    /\ c.op = "put" /\ d.op = "put" /\ c.g = d.g => c.row = d.row
Ordered(s) == \A i, j \in 1 .. Len(s) : i < j => Before(s[i], s[j])

Marking(s) == \E c \in Left(s) : c.op \in {"mark", "del"}

Form(job, calls, got) ==
    /\ job.kind # "chat" => Paired(calls)
    /\ Ordered(calls)
    /\ job.kind \in {"joined", "left"} => calls \in {Plan(job), Tail(Plan(job))}
    /\ job.kind = "chat" => calls = Plan(job)
    /\ (\E c \in Left(calls) : c.op = "mark") => \E g \in Groups : got[g] # NoRow
    /\ job.kind # "left" /\ Marking(calls) =>
         \A c \in Left(calls) : /\ c.op = "put" => c.row = got[c.g]
                                /\ c.op = "del" => got[c.g] = NoRow

\* Inductive, given Truth and Sections: a worker has calls left exactly while it is busy.
Forms ==
    \A w \in Workers :
        IF work[w].calls = <<>>
          THEN work[w] = Idle
          ELSE /\ work[w].job.kind # "none"
               /\ Form(work[w].job, work[w].calls, work[w].got)

\* Who does not go without the lock works only while holding it.
Held ==
    \A w \in Workers : work[w].job.kind \notin Unlocked =>
        \/ work[w].calls = <<>>
        \/ work[w].calls = Waiting /\ work[w].job.kind \in {"people", "eph"}
        \/ lock = w

LEMMA LeftTail ==
    ASSUME NEW s \in Seq(Calls), s # <<>>
    PROVE  Left(s) = {Head(s)} \cup Left(Tail(s))
<1> DEFINE t == Tail(s)
<1>1. /\ Len(s) \in Nat \ {0} /\ Head(s) = s[1] /\ Len(t) = Len(s) - 1
      /\ \A i \in 1 .. Len(t) : t[i] = s[i + 1]
  BY HeadTail
<1> HIDE DEF t
<1>2. ASSUME NEW c \in Left(s) PROVE c \in {Head(s)} \cup Left(t)
  <2>1. PICK i \in 1 .. Len(s) : c = s[i] BY <1>2 DEF Left
  <2>2. CASE i = 1 BY <1>1, <2>1, <2>2
  <2>3. CASE i # 1
    <3>1. i - 1 \in 1 .. Len(t) /\ t[i - 1] = c BY <1>1, <2>1, <2>3
    <3> QED BY <3>1 DEF Left
  <2> QED BY <2>2, <2>3
<1>3. ASSUME NEW c \in {Head(s)} \cup Left(t) PROVE c \in Left(s)
  <2>1. CASE c = Head(s) BY <1>1, <2>1 DEF Left
  <2>2. CASE c \in Left(t)
    <3>1. PICK i \in 1 .. Len(t) : c = t[i] BY <2>2 DEF Left
    <3>2. i + 1 \in 1 .. Len(s) /\ s[i + 1] = c BY <1>1, <3>1
    <3> QED BY <3>2 DEF Left
  <2> QED BY <1>3, <2>1, <2>2
<1> QED BY <1>2, <1>3 DEF t

LEMMA LeftConcat ==
    ASSUME NEW a \in Seq(Calls), NEW b \in Seq(Calls)
    PROVE  Left(a \o b) = Left(a) \cup Left(b)
<1> DEFINE c == a \o b
<1>1. /\ Len(a) \in Nat /\ Len(b) \in Nat /\ Len(c) = Len(a) + Len(b)
      /\ \A i \in 1 .. Len(c) : c[i] = IF i <= Len(a) THEN a[i] ELSE b[i - Len(a)]
  OBVIOUS
<1> HIDE DEF c
<1>2. ASSUME NEW x \in Left(c) PROVE x \in Left(a) \cup Left(b)
  <2>1. PICK i \in 1 .. Len(c) : x = c[i] BY <1>2 DEF Left
  <2>2. CASE i <= Len(a) BY <1>1, <2>1, <2>2 DEF Left
  <2>3. CASE ~(i <= Len(a))
    <3>1. i - Len(a) \in 1 .. Len(b) /\ x = b[i - Len(a)] BY <1>1, <2>1, <2>3
    <3> QED BY <3>1 DEF Left
  <2> QED BY <2>2, <2>3
<1>3. ASSUME NEW x \in Left(a) PROVE x \in Left(c)
  <2>1. PICK i \in 1 .. Len(a) : x = a[i] BY <1>3 DEF Left
  <2>2. i \in 1 .. Len(c) /\ c[i] = x BY <1>1, <2>1
  <2> QED BY <2>2 DEF Left
<1>4. ASSUME NEW x \in Left(b) PROVE x \in Left(c)
  <2>1. PICK i \in 1 .. Len(b) : x = b[i] BY <1>4 DEF Left
  <2>2. Len(a) + i \in 1 .. Len(c) /\ c[Len(a) + i] = x BY <1>1, <2>1
  <2> QED BY <2>2 DEF Left
<1> QED BY <1>2, <1>3, <1>4 DEF c

LEMMA OrderedTail ==
    ASSUME NEW s \in Seq(Calls), s # <<>>, Ordered(s)
    PROVE  /\ Ordered(Tail(s))
           /\ \A c \in Left(Tail(s)) : Before(Head(s), c)
<1> DEFINE t == Tail(s)
<1>1. /\ Len(s) \in Nat \ {0} /\ Head(s) = s[1] /\ Len(t) = Len(s) - 1
      /\ \A i \in 1 .. Len(t) : t[i] = s[i + 1]
  BY HeadTail
<1> HIDE DEF t
<1>2. ASSUME NEW i \in 1 .. Len(t), NEW j \in 1 .. Len(t), i < j PROVE Before(t[i], t[j])
  <2>1. i + 1 \in 1 .. Len(s) /\ j + 1 \in 1 .. Len(s) /\ i + 1 < j + 1 BY <1>1, <1>2
  <2> QED BY <1>1, <2>1 DEF Ordered
<1>3. ASSUME NEW c \in Left(t) PROVE Before(Head(s), c)
  <2>1. PICK i \in 1 .. Len(t) : c = t[i] BY <1>3 DEF Left
  <2>2. 1 \in 1 .. Len(s) /\ i + 1 \in 1 .. Len(s) /\ 1 < i + 1 /\ s[i + 1] = c BY <1>1, <2>1
  <2> QED BY <1>1, <2>2 DEF Ordered
<1> QED BY <1>2, <1>3 DEF Ordered, t

LEMMA OrderedConcat ==
    ASSUME NEW a \in Seq(Calls), NEW b \in Seq(Calls), Ordered(a), Ordered(b),
           \A c \in Left(a), d \in Left(b) : Before(c, d)
    PROVE  Ordered(a \o b)
<1> DEFINE c == a \o b
<1>1. /\ Len(a) \in Nat /\ Len(b) \in Nat /\ Len(c) = Len(a) + Len(b)
      /\ \A i \in 1 .. Len(c) : c[i] = IF i <= Len(a) THEN a[i] ELSE b[i - Len(a)]
  OBVIOUS
<1> HIDE DEF c
<1>2. ASSUME NEW i \in 1 .. Len(c), NEW j \in 1 .. Len(c), i < j PROVE Before(c[i], c[j])
  <2>1. CASE j <= Len(a)
    <3>1. i \in 1 .. Len(a) /\ j \in 1 .. Len(a) /\ c[i] = a[i] /\ c[j] = a[j] BY <1>1, <1>2, <2>1
    <3> QED BY <3>1, <1>2 DEF Ordered
  <2>2. CASE i <= Len(a) /\ ~(j <= Len(a))
    <3>1. i \in 1 .. Len(a) /\ j - Len(a) \in 1 .. Len(b) /\ c[i] = a[i] /\ c[j] = b[j - Len(a)]
      BY <1>1, <1>2, <2>2
    <3> QED BY <3>1 DEF Left
  <2>3. CASE ~(i <= Len(a)) /\ ~(j <= Len(a))
    <3>1. /\ i - Len(a) \in 1 .. Len(b) /\ j - Len(a) \in 1 .. Len(b) /\ i - Len(a) < j - Len(a)
          /\ c[i] = b[i - Len(a)] /\ c[j] = b[j - Len(a)]
      BY <1>1, <1>2, <2>3
    <3> QED BY <3>1 DEF Ordered
  <2> QED BY <1>1, <1>2, <2>1, <2>2, <2>3
<1> QED BY <1>2 DEF Ordered, c

LEMMA PairedTail ==
    ASSUME NEW s \in Seq(Calls), s # <<>>, Paired(s)
    PROVE  Paired(Tail(s))
<1> DEFINE t == Tail(s)
<1>1. /\ Len(s) \in Nat \ {0} /\ Len(t) = Len(s) - 1
      /\ \A i \in 1 .. Len(t) : t[i] = s[i + 1]
  BY HeadTail
<1> HIDE DEF t
<1>2. ASSUME NEW i \in 1 .. Len(t)
      PROVE  /\ t[i].op = "put" /\ i > 1 => t[i - 1] = Call("set", t[i].g, t[i].row)
             /\ t[i].op = "set" => i < Len(t) /\ t[i + 1] = Call("put", t[i].g, t[i].row)
             /\ t[i].op = "unset" => i < Len(t) /\ t[i + 1] = Call("del", t[i].g, NoRow)
  <2>1. i + 1 \in 1 .. Len(s) /\ t[i] = s[i + 1] BY <1>1
  <2>2. /\ s[i + 1].op = "put" => s[i] = Call("set", s[i + 1].g, s[i + 1].row)
        /\ s[i + 1].op = "set" => i + 1 < Len(s) /\ s[i + 2] = Call("put", s[i + 1].g, s[i + 1].row)
        /\ s[i + 1].op = "unset" => i + 1 < Len(s) /\ s[i + 2] = Call("del", s[i + 1].g, NoRow)
    BY <2>1 DEF Paired
  <2>3. i > 1 => i - 1 \in 1 .. Len(t) /\ t[i - 1] = s[i] BY <1>1
  <2>4. i + 1 < Len(s) => i < Len(t) /\ t[i + 1] = s[i + 2] BY <1>1
  <2> QED BY <2>1, <2>2, <2>3, <2>4
<1> QED BY <1>2 DEF Paired, t

LEMMA PairedConcat ==
    ASSUME NEW a \in Seq(Calls), NEW b \in Seq(Calls), Paired(a), Paired(b), Leading(b)
    PROVE  Paired(a \o b) /\ (Leading(a) => Leading(a \o b))
<1> DEFINE c == a \o b
<1>1. /\ Len(a) \in Nat /\ Len(b) \in Nat /\ Len(c) = Len(a) + Len(b)
      /\ \A i \in 1 .. Len(c) : c[i] = IF i <= Len(a) THEN a[i] ELSE b[i - Len(a)]
      /\ a = <<>> <=> Len(a) = 0
      /\ b = <<>> <=> Len(b) = 0
      /\ c = <<>> <=> Len(c) = 0
  OBVIOUS
<1> HIDE DEF c
<1>2. ASSUME NEW i \in 1 .. Len(c)
      PROVE  /\ c[i].op = "put" /\ i > 1 => c[i - 1] = Call("set", c[i].g, c[i].row)
             /\ c[i].op = "set" => i < Len(c) /\ c[i + 1] = Call("put", c[i].g, c[i].row)
             /\ c[i].op = "unset" => i < Len(c) /\ c[i + 1] = Call("del", c[i].g, NoRow)
  <2>1. CASE i <= Len(a)
    <3>1. i \in 1 .. Len(a) /\ c[i] = a[i] BY <1>1, <2>1
    <3>2. i > 1 => c[i - 1] = a[i - 1] BY <1>1, <2>1
    <3>3. i < Len(a) => i < Len(c) /\ c[i + 1] = a[i + 1] BY <1>1
    <3> QED BY <3>1, <3>2, <3>3 DEF Paired
  <2>2. CASE ~(i <= Len(a))
    <3> DEFINE k == i - Len(a)
    <3>1. k \in 1 .. Len(b) /\ c[i] = b[k] BY <1>1, <2>2
    <3>2. k > 1 => c[i - 1] = b[k - 1] BY <1>1, <3>1
    <3>3. k < Len(b) => i < Len(c) /\ c[i + 1] = b[k + 1] BY <1>1, <3>1
    <3>4. k = 1 => b[k].op # "put" BY <1>1, <3>1 DEF Leading
    <3> HIDE DEF k
    <3> QED BY <3>1, <3>2, <3>3, <3>4 DEF Paired
  <2> QED BY <2>1, <2>2
<1>3. Leading(a) => Leading(c)
  <2> SUFFICES ASSUME Leading(a), c # <<>> PROVE c[1].op # "put" BY DEF Leading
  <2>1. CASE a = <<>> BY <1>1, <2>1 DEF Leading
  <2>2. CASE a # <<>> BY <1>1, <2>2 DEF Leading
  <2> QED BY <2>1, <2>2
<1> QED BY <1>2, <1>3 DEF Paired, c

LEMMA CallFields ==
    ASSUME NEW op, NEW g, NEW r
    PROVE  Call(op, g, r).op = op /\ Call(op, g, r).g = g /\ Call(op, g, r).row = r
BY DEF Call

LEMMA ShortSequences ==
    ASSUME NEW c, NEW d
    PROVE  /\ Left(<<>>) = {} /\ Left(<<c>>) = {c} /\ Left(<<c, d>>) = {c, d}
           /\ Ordered(<<>>) /\ Ordered(<<c>>)
           /\ Before(c, d) => Ordered(<<c, d>>)
<1>1. Left(<<>>) = {} BY DEF Left
<1>2. Left(<<c>>) = {c}
  <2> DEFINE s == <<c>>
  <2>1. Len(s) = 1 /\ s[1] = c OBVIOUS
  <2> HIDE DEF s
  <2>2. Left(s) = {c} BY <2>1 DEF Left
  <2> QED BY <2>2 DEF s
<1>3. Left(<<c, d>>) = {c, d} /\ (Before(c, d) => Ordered(<<c, d>>))
  <2> DEFINE s == <<c, d>>
  <2>1. Len(s) = 2 /\ s[1] = c /\ s[2] = d OBVIOUS
  <2> HIDE DEF s
  <2>2. 1 .. 2 = {1, 2} OBVIOUS
  <2>3. Left(s) = {c, d} BY <2>1, <2>2 DEF Left
  <2>4. Before(c, d) => Ordered(s) BY <2>1 DEF Ordered
  <2> QED BY <2>3, <2>4 DEF s
<1>5. Ordered(<<>>) /\ Ordered(<<c>>)
  <2> DEFINE s == <<c>>
  <2>1. Len(s) = 1 OBVIOUS
  <2> HIDE DEF s
  <2>2. Ordered(s) BY <2>1 DEF Ordered
  <2> QED BY <2>2 DEF Ordered, s
<1> QED BY <1>1, <1>2, <1>3, <1>5

LEMMA ThreeCalls ==
    ASSUME NEW c, NEW d, NEW e, Before(c, d), Before(c, e), Before(d, e)
    PROVE  Left(<<c, d, e>>) = {c, d, e} /\ Ordered(<<c, d, e>>)
<1> DEFINE s == <<c, d, e>>
<1>1. Len(s) = 3 /\ s[1] = c /\ s[2] = d /\ s[3] = e OBVIOUS
<1> HIDE DEF s
<1>2. 1 .. 3 = {1, 2, 3} OBVIOUS
<1>3. Left(s) = {c, d, e} BY <1>1, <1>2 DEF Left
<1>4. ASSUME NEW i \in 1 .. Len(s), NEW j \in 1 .. Len(s), i < j PROVE Before(s[i], s[j])
  <2>1. (i = 1 /\ j = 2) \/ (i = 1 /\ j = 3) \/ (i = 2 /\ j = 3) BY <1>1, <1>4
  <2> QED BY <1>1, <2>1
<1> QED BY <1>3, <1>4 DEF s, Ordered

\* Pairs of calls.
LEMMA Pairs ==
    ASSUME NEW g, NEW r
    PROVE  /\ Paired(<<Call("set", g, r), Call("put", g, r)>>) /\ Leading(<<Call("set", g, r), Call("put", g, r)>>)
           /\ Paired(<<Call("unset", g, NoRow), Call("del", g, NoRow)>>)
           /\ Paired(<<Call("put", g, r)>>) /\ Paired(<<Call("del", g, r)>>)
<1>1. /\ Paired(<<Call("set", g, r), Call("put", g, r)>>) /\ Leading(<<Call("set", g, r), Call("put", g, r)>>)
  <2> DEFINE c == Call("set", g, r)
             d == Call("put", g, r)
             s == <<c, d>>
  <2>1. Len(s) = 2 /\ s[1] = c /\ s[2] = d OBVIOUS
  <2>2. c.op = "set" /\ c.g = g /\ c.row = r /\ d.op = "put" /\ d.g = g /\ d.row = r BY CallFields
  <2>3. 1 .. 2 = {1, 2} OBVIOUS
  <2> HIDE DEF s
  <2>4. Paired(s) /\ Leading(s)
    <3> HIDE DEF c, d
    <3>1. ASSUME NEW i \in 1 .. Len(s)
          PROVE  /\ s[i].op = "put" /\ i > 1 => s[i - 1] = Call("set", s[i].g, s[i].row)
                 /\ s[i].op = "set" => i < Len(s) /\ s[i + 1] = Call("put", s[i].g, s[i].row)
                 /\ s[i].op = "unset" => i < Len(s) /\ s[i + 1] = Call("del", s[i].g, NoRow)
      <4>1. CASE i = 1 BY <2>1, <2>2, <4>1 DEF d
      <4>2. CASE i = 2 BY <2>1, <2>2, <4>2 DEF c
      <4> QED BY <2>1, <2>3, <4>1, <4>2
    <3> QED BY <2>1, <2>2, <3>1 DEF Paired, Leading
  <2> QED BY <2>4 DEF s
<1>2. Paired(<<Call("unset", g, NoRow), Call("del", g, NoRow)>>)
  <2> DEFINE c == Call("unset", g, NoRow)
             d == Call("del", g, NoRow)
             s == <<c, d>>
  <2>1. Len(s) = 2 /\ s[1] = c /\ s[2] = d OBVIOUS
  <2>2. c.op = "unset" /\ c.g = g /\ d.op = "del" BY CallFields
  <2>3. 1 .. 2 = {1, 2} OBVIOUS
  <2> HIDE DEF s
  <2>4. Paired(s)
    <3> HIDE DEF c, d
    <3>1. ASSUME NEW i \in 1 .. Len(s)
          PROVE  /\ s[i].op = "put" /\ i > 1 => s[i - 1] = Call("set", s[i].g, s[i].row)
                 /\ s[i].op = "set" => i < Len(s) /\ s[i + 1] = Call("put", s[i].g, s[i].row)
                 /\ s[i].op = "unset" => i < Len(s) /\ s[i + 1] = Call("del", s[i].g, NoRow)
      <4>1. CASE i = 1 BY <2>1, <2>2, <4>1 DEF d
      <4>2. CASE i = 2 BY <2>1, <2>2, <4>2
      <4> QED BY <2>1, <2>3, <4>1, <4>2
    <3> QED BY <3>1 DEF Paired
  <2> QED BY <2>4 DEF s
<1>3. ASSUME NEW op \in {"put", "del"} PROVE Paired(<<Call(op, g, r)>>)
  <2> DEFINE s == <<Call(op, g, r)>>
  <2>1. Len(s) = 1 /\ s[1].op = op BY CallFields
  <2> HIDE DEF s
  <2>2. Paired(s) BY <2>1 DEF Paired
  <2> QED BY <2>2 DEF s
<1> QED BY <1>1, <1>2, <1>3

\* Calls that are not about a row have no pair.
LEMMA Unpaired ==
    ASSUME NEW s \in Seq(Calls), \A c \in Left(s) : c.op \notin {"set", "put", "unset"}
    PROVE  Paired(s) /\ Leading(s)
<1>1. \A i \in 1 .. Len(s) : s[i].op \notin {"set", "put", "unset"} BY DEF Left
<1>2. s # <<>> => 1 \in 1 .. Len(s) OBVIOUS
<1> QED BY <1>1, <1>2 DEF Paired, Leading

\* What is left of a form after its first call.
LEMMA FormTail ==
    ASSUME NEW job, NEW got, NEW s \in Seq(Calls), s # <<>>, Tail(s) # <<>>, Form(job, s, got)
    PROVE  Form(job, Tail(s), got)
<1>1. Left(Tail(s)) \subseteq Left(s) BY LeftTail
<1>2. Ordered(Tail(s)) BY OrderedTail DEF Form
<1>3. job.kind # "chat" => Paired(Tail(s)) BY PairedTail DEF Form
<1>4. job.kind \in {"joined", "left"} => Tail(s) = Tail(Plan(job))
  <2>1. CASE s = Plan(job) BY <2>1
  <2>2. CASE job.kind = "joined" /\ s = Tail(Plan(job))
    <3> DEFINE c == Call("set", job.g, RowAt(job.g, job.ver, job.eph))
               d == Call("put", job.g, RowAt(job.g, job.ver, job.eph))
    <3>1. Plan(job) = <<c, d>> BY <2>2 DEF Plan
    <3> HIDE DEF c, d
    <3> QED BY <2>2, <3>1
  <2>3. CASE job.kind = "left" /\ s = Tail(Plan(job))
    <3> DEFINE c == Call("unset", job.g, NoRow)
               d == Call("del", job.g, NoRow)
    <3>1. Plan(job) = <<c, d>> BY <2>3 DEF Plan
    <3> HIDE DEF c, d
    <3> QED BY <2>3, <3>1
  <2> QED BY <2>1, <2>2, <2>3 DEF Form
<1>5. job.kind # "chat"
  <2> SUFFICES ASSUME job.kind = "chat" PROVE FALSE OBVIOUS
  <2>1. s = Plan(job) BY DEF Form
  <2>2. Plan(job) = <<Call("set", job.g, [NoRow EXCEPT !.eph = job.eph])>> BY DEF Plan
  <2> QED BY <2>1, <2>2
<1> QED BY <1>1, <1>2, <1>3, <1>4, <1>5 DEF Form, Marking

\* The calls a job begins with.
LEMMA PlanForm ==
    ASSUME NEW job \in TrueJobs, job.kind \in EventKinds \cup {"chat"}, NEW got
    PROVE  Plan(job) # <<>> /\ Form(job, Plan(job), got)
<1>1. CASE job.kind = "joined"
  <2> DEFINE r == RowAt(job.g, job.ver, job.eph)
             c == Call("set", job.g, r)
             d == Call("put", job.g, r)
  <2>1. Plan(job) = <<c, d>> BY <1>1 DEF Plan
  <2>2. c.op = "set" /\ d.op = "put" BY CallFields
  <2>3. Paired(<<c, d>>) BY Pairs
  <2> HIDE DEF c, d
  <2>4. Before(c, d) BY <2>2 DEF Before
  <2>5. Left(<<c, d>>) = {c, d} /\ Ordered(<<c, d>>) BY <2>4, ShortSequences
  <2>6. ~Marking(<<c, d>>) /\ ~(\E x \in Left(<<c, d>>) : x.op = "mark") BY <2>2, <2>5 DEF Marking
  <2> QED BY <1>1, <2>1, <2>3, <2>5, <2>6 DEF Form
<1>2. CASE job.kind = "left"
  <2> DEFINE c == Call("unset", job.g, NoRow)
             d == Call("del", job.g, NoRow)
  <2>1. Plan(job) = <<c, d>> BY <1>2 DEF Plan
  <2>2. c.op = "unset" /\ d.op = "del" BY CallFields
  <2>3. Paired(<<c, d>>) BY Pairs
  <2> HIDE DEF c, d
  <2>4. Before(c, d) BY <2>2 DEF Before
  <2>5. Left(<<c, d>>) = {c, d} /\ Ordered(<<c, d>>) BY <2>4, ShortSequences
  <2>6. ~(\E x \in Left(<<c, d>>) : x.op = "mark") BY <2>2, <2>5
  <2> QED BY <1>2, <2>1, <2>3, <2>5, <2>6 DEF Form
<1>3. CASE job.kind = "chat"
  <2> DEFINE c == Call("set", job.g, [NoRow EXCEPT !.eph = job.eph])
  <2>1. Plan(job) = <<c>> BY <1>3 DEF Plan
  <2>2. c.op = "set" BY CallFields
  <2> HIDE DEF c
  <2>3. Left(<<c>>) = {c} /\ Ordered(<<c>>) BY ShortSequences
  <2> QED BY <1>3, <2>1, <2>2, <2>3 DEF Form, Marking
<1>4. CASE job.kind \in {"people", "eph"}
  <2> DEFINE c == Do("lock")
             d == Do("load")
             e == Do("unlock")
  <2>1. Plan(job) = <<c, d, e>> BY <1>4 DEF Plan
  <2>2. c.op = "lock" /\ d.op = "load" /\ e.op = "unlock" BY DoFacts
  <2>3. Plan(job) \in Seq(Calls) BY PlanIsTrue, CallsAreCalls
  <2> HIDE DEF c, d, e
  <2>4. Before(c, d) /\ Before(c, e) /\ Before(d, e) BY <2>2 DEF Before
  <2>5. Left(<<c, d, e>>) = {c, d, e} /\ Ordered(<<c, d, e>>) BY <2>4, ThreeCalls
  <2>6. Paired(<<c, d, e>>) BY <2>1, <2>2, <2>3, <2>5, Unpaired
  <2>7. ~Marking(<<c, d, e>>) /\ ~(\E x \in Left(<<c, d, e>>) : x.op = "mark") BY <2>2, <2>5 DEF Marking
  <2> QED BY <1>4, <2>1, <2>5, <2>6, <2>7 DEF Form
<1> QED BY <1>1, <1>2, <1>3, <1>4 DEF EventKinds

\* The calls of sections that are under way.
LEMMA SectionForm ==
    ASSUME NEW job, job.kind \notin {"joined", "left", "chat"}, NEW got, NEW s \in Seq(Calls),
           Ordered(s), \A c \in Left(s) : c.op \notin {"set", "put", "unset", "del", "mark"}
    PROVE  Form(job, s, got)
<1>1. Paired(s) BY Unpaired
<1> QED BY <1>1 DEF Form, Marking

\* An order of a set of groups names all of them.
LEMMA OrdersName ==
    ASSUME NEW S \in SUBSET Groups, NEW s \in Orders(S)
    PROVE  S = {s[i] : i \in 1 .. Len(s)}
<1>1. /\ Len(s) \in Nat /\ DOMAIN s = 1 .. Len(s) /\ \A i \in 1 .. Len(s) : s[i] \in S
  BY OrderFacts
<1>2. \A g \in S : \E i \in DOMAIN s : s[i] = g BY DEF Orders
<1> QED BY <1>1, <1>2

LEMMA HalvesOf ==
    ASSUME NEW n \in Nat, NEW i \in 1 .. 2 * n
    PROVE  /\ i % 2 = 1 => (i + 1) \div 2 \in 1 .. n /\ i + 1 <= 2 * n /\ (i + 1) % 2 # 1
           /\ i % 2 # 1 => i \div 2 \in 1 .. n /\ i - 1 >= 1 /\ (i - 1) % 2 = 1 /\ ((i - 1) + 1) \div 2 = i \div 2
           /\ i % 2 \in {0, 1}
OBVIOUS

LEMMA HalvesReach ==
    ASSUME NEW n \in Nat, NEW k \in 1 .. n
    PROVE  /\ 2 * k \in 1 .. 2 * n /\ (2 * k) % 2 # 1 /\ (2 * k) \div 2 = k
           /\ 2 * k - 1 \in 1 .. 2 * n /\ (2 * k - 1) % 2 = 1 /\ ((2 * k - 1) + 1) \div 2 = k
OBVIOUS

\* The calls that store what was reported.
LEMMA UpsertsForm ==
    ASSUME NEW got \in [Groups -> Rows], NEW S \in SUBSET Groups, \A g \in S : TrueRow(g, got[g]),
           NEW s \in Orders(S)
    PROVE  LET u == Upserts(got, s)
           IN  /\ u \in Seq(Calls) /\ Paired(u) /\ Leading(u) /\ Ordered(u)
               /\ Left(u) = {Call("set", g, got[g]) : g \in S} \cup {Call("put", g, got[g]) : g \in S}
<1> DEFINE u == Upserts(got, s)
           m == Len(s)
           n == 2 * m
           one(g) == Call("set", g, got[g])
           two(g) == Call("put", g, got[g])
<1>1. u \in Seq(Calls)
  <2>1. u \in Seq(CallsOf("fetch")) BY UpsertsAreTrue
  <2> QED BY <2>1, CallsAreCalls
<1>2. m \in Nat /\ (\A i \in 1 .. m : s[i] \in S) /\ S = {s[i] : i \in 1 .. m}
  BY OrderFacts, OrdersName
<1>3. u = [i \in 1 .. n |-> IF i % 2 = 1 THEN one(s[(i + 1) \div 2]) ELSE two(s[i \div 2])]
  BY DEF Upserts, Pairwise
<1>4. \A g \in S : /\ one(g).op = "set" /\ one(g).g = g /\ one(g).row = got[g]
                   /\ two(g).op = "put" /\ two(g).g = g /\ two(g).row = got[g]
  BY CallFields
<1>5. /\ \A g, r : one(g) = Call("set", g, got[g]) /\ two(g) = Call("put", g, got[g]) OBVIOUS
<1> HIDE DEF u, m, one, two
<1>6. n \in Nat BY <1>2
<1>7. DOMAIN u = 1 .. n /\ Len(u) = n
  <2>1. DOMAIN u = 1 .. n BY <1>3
  <2>2. DOMAIN u = 1 .. Len(u) /\ Len(u) \in Nat BY <1>1
  <2> QED BY <2>1, <2>2, <1>6
<1>8. \A i \in 1 .. n : u[i] = IF i % 2 = 1 THEN one(s[(i + 1) \div 2]) ELSE two(s[i \div 2])
  BY <1>3
<1> HIDE DEF n
<1>9. ASSUME NEW i \in 1 .. n
      PROVE  \/ i % 2 = 1 /\ i < n /\ \E g \in S : u[i] = one(g) /\ u[i + 1] = two(g)
             \/ i % 2 # 1 /\ i > 1 /\ \E g \in S : u[i] = two(g) /\ u[i - 1] = one(g)
  <2>0. i \in 1 .. 2 * m BY DEF n
  <2>1. CASE i % 2 = 1
    <3>1. (i + 1) \div 2 \in 1 .. m /\ i + 1 <= n /\ (i + 1) % 2 # 1 BY <2>0, <2>1, <1>2, HalvesOf DEF n
    <3>2. i + 1 \in 1 .. n BY <3>1, <1>6
    <3>3. u[i + 1] = two(s[(i + 1) \div 2]) BY <3>1, <3>2, <1>8
    <3>4. u[i] = one(s[(i + 1) \div 2]) BY <2>1, <1>8
    <3> QED BY <3>1, <3>2, <3>3, <3>4, <2>1, <1>2, <1>6
  <2>2. CASE i % 2 # 1
    <3>1. i \div 2 \in 1 .. m /\ i - 1 >= 1 /\ (i - 1) % 2 = 1 /\ ((i - 1) + 1) \div 2 = i \div 2
      BY <2>0, <2>2, <1>2, HalvesOf
    <3>2. i - 1 \in 1 .. n BY <3>1, <1>6
    <3>3. u[i - 1] = one(s[i \div 2]) BY <3>1, <3>2, <1>8
    <3>4. u[i] = two(s[i \div 2]) BY <2>2, <1>8
    <3> QED BY <3>1, <3>2, <3>3, <3>4, <2>2, <1>2, <1>6
  <2> QED BY <2>1, <2>2
<1>10. Paired(u)
  <2> SUFFICES ASSUME NEW i \in 1 .. n
               PROVE  /\ u[i].op = "put" /\ i > 1 => u[i - 1] = Call("set", u[i].g, u[i].row)
                      /\ u[i].op = "set" => i < n /\ u[i + 1] = Call("put", u[i].g, u[i].row)
                      /\ u[i].op = "unset" => i < n /\ u[i + 1] = Call("del", u[i].g, NoRow)
    BY <1>7 DEF Paired
  <2>1. CASE i % 2 = 1
    <3>1. PICK g \in S : u[i] = one(g) /\ u[i + 1] = two(g) /\ i < n BY <1>9, <2>1
    <3> QED BY <3>1, <1>4, <1>5
  <2>2. CASE i % 2 # 1
    <3>1. PICK g \in S : u[i] = two(g) /\ u[i - 1] = one(g) BY <1>9, <2>2
    <3> QED BY <3>1, <1>4, <1>5
  <2> QED BY <2>1, <2>2
<1>11. Leading(u)
  <2> SUFFICES ASSUME u # <<>> PROVE u[1].op # "put" BY DEF Leading
  <2>1. 1 \in 1 .. n BY <1>1, <1>6, <1>7
  <2> QED BY <2>1, <1>4, <1>9
<1>12. Ordered(u)
  <2>1. ASSUME NEW i \in 1 .. n PROVE \E g \in S : u[i] = one(g) \/ u[i] = two(g) BY <1>9
  <2>2. ASSUME NEW i \in 1 .. n, NEW j \in 1 .. n PROVE Before(u[i], u[j])
    <3>1. PICK g \in S : u[i] = one(g) \/ u[i] = two(g) BY <2>1
    <3>2. PICK h \in S : u[j] = one(h) \/ u[j] = two(h) BY <2>1
    <3> QED BY <3>1, <3>2, <1>4 DEF Before
  <2> QED BY <2>2, <1>7 DEF Ordered
<1>13. Left(u) = {one(g) : g \in S} \cup {two(g) : g \in S}
  <2>1. ASSUME NEW c \in Left(u) PROVE c \in {one(g) : g \in S} \cup {two(g) : g \in S}
    <3>1. PICK i \in 1 .. n : c = u[i] BY <2>1, <1>7 DEF Left
    <3> QED BY <3>1, <1>9
  <2>2. ASSUME NEW g \in S PROVE one(g) \in Left(u) /\ two(g) \in Left(u)
    <3>1. PICK k \in 1 .. m : s[k] = g BY <1>2
    <3>2. /\ 2 * k \in 1 .. n /\ (2 * k) % 2 # 1 /\ (2 * k) \div 2 = k
          /\ 2 * k - 1 \in 1 .. n /\ (2 * k - 1) % 2 = 1 /\ ((2 * k - 1) + 1) \div 2 = k
      BY <1>2, HalvesReach DEF n
    <3>3. u[2 * k] = two(g) /\ u[2 * k - 1] = one(g) BY <3>1, <3>2, <1>8
    <3> QED BY <3>2, <3>3, <1>7 DEF Left
  <2> QED BY <2>1, <2>2
<1> QED BY <1>1, <1>10, <1>11, <1>12, <1>13 DEF u, one, two

\* The calls that delete what is stale.
LEMMA DeletesForm ==
    ASSUME NEW S \in SUBSET Groups, NEW s \in Orders(S)
    PROVE  LET u == Deletes(s)
           IN  /\ u \in Seq(Calls) /\ Paired(u) /\ Leading(u) /\ Ordered(u)
               /\ Left(u) = {Call("unset", g, NoRow) : g \in S} \cup {Call("del", g, NoRow) : g \in S}
<1> DEFINE u == Deletes(s)
           m == Len(s)
           n == 2 * m
           one(g) == Call("unset", g, NoRow)
           two(g) == Call("del", g, NoRow)
<1>1. u \in Seq(Calls)
  <2>1. u \in Seq(CallsOf("fetch")) BY DeletesAreTrue
  <2> QED BY <2>1, CallsAreCalls
<1>2. m \in Nat /\ (\A i \in 1 .. m : s[i] \in S) /\ S = {s[i] : i \in 1 .. m}
  BY OrderFacts, OrdersName
<1>3. u = [i \in 1 .. n |-> IF i % 2 = 1 THEN one(s[(i + 1) \div 2]) ELSE two(s[i \div 2])]
  BY DEF Deletes, Pairwise
<1>4. \A g \in S : /\ one(g).op = "unset" /\ one(g).g = g
                   /\ two(g).op = "del" /\ two(g).g = g
  BY CallFields
<1>5. /\ \A g, r : two(g) = Call("del", g, NoRow) OBVIOUS
<1> HIDE DEF u, m, one, two
<1>6. n \in Nat BY <1>2
<1>7. DOMAIN u = 1 .. n /\ Len(u) = n
  <2>1. DOMAIN u = 1 .. n BY <1>3
  <2>2. DOMAIN u = 1 .. Len(u) /\ Len(u) \in Nat BY <1>1
  <2> QED BY <2>1, <2>2, <1>6
<1>8. \A i \in 1 .. n : u[i] = IF i % 2 = 1 THEN one(s[(i + 1) \div 2]) ELSE two(s[i \div 2])
  BY <1>3
<1> HIDE DEF n
<1>9. ASSUME NEW i \in 1 .. n
      PROVE  \/ i % 2 = 1 /\ i < n /\ \E g \in S : u[i] = one(g) /\ u[i + 1] = two(g)
             \/ i % 2 # 1 /\ i > 1 /\ \E g \in S : u[i] = two(g) /\ u[i - 1] = one(g)
  <2>0. i \in 1 .. 2 * m BY DEF n
  <2>1. CASE i % 2 = 1
    <3>1. (i + 1) \div 2 \in 1 .. m /\ i + 1 <= n /\ (i + 1) % 2 # 1 BY <2>0, <2>1, <1>2, HalvesOf DEF n
    <3>2. i + 1 \in 1 .. n BY <3>1, <1>6
    <3>3. u[i + 1] = two(s[(i + 1) \div 2]) BY <3>1, <3>2, <1>8
    <3>4. u[i] = one(s[(i + 1) \div 2]) BY <2>1, <1>8
    <3> QED BY <3>1, <3>2, <3>3, <3>4, <2>1, <1>2, <1>6
  <2>2. CASE i % 2 # 1
    <3>1. i \div 2 \in 1 .. m /\ i - 1 >= 1 /\ (i - 1) % 2 = 1 /\ ((i - 1) + 1) \div 2 = i \div 2
      BY <2>0, <2>2, <1>2, HalvesOf
    <3>2. i - 1 \in 1 .. n BY <3>1, <1>6
    <3>3. u[i - 1] = one(s[i \div 2]) BY <3>1, <3>2, <1>8
    <3>4. u[i] = two(s[i \div 2]) BY <2>2, <1>8
    <3> QED BY <3>1, <3>2, <3>3, <3>4, <2>2, <1>2, <1>6
  <2> QED BY <2>1, <2>2
<1>10. Paired(u)
  <2> SUFFICES ASSUME NEW i \in 1 .. n
               PROVE  /\ u[i].op = "put" /\ i > 1 => u[i - 1] = Call("set", u[i].g, u[i].row)
                      /\ u[i].op = "set" => i < n /\ u[i + 1] = Call("put", u[i].g, u[i].row)
                      /\ u[i].op = "unset" => i < n /\ u[i + 1] = Call("del", u[i].g, NoRow)
    BY <1>7 DEF Paired
  <2>1. CASE i % 2 = 1
    <3>1. PICK g \in S : u[i] = one(g) /\ u[i + 1] = two(g) /\ i < n BY <1>9, <2>1
    <3> QED BY <3>1, <1>4, <1>5
  <2>2. CASE i % 2 # 1
    <3>1. PICK g \in S : u[i] = two(g) /\ u[i - 1] = one(g) BY <1>9, <2>2
    <3> QED BY <3>1, <1>4, <1>5
  <2> QED BY <2>1, <2>2
<1>11. Leading(u)
  <2> SUFFICES ASSUME u # <<>> PROVE u[1].op # "put" BY DEF Leading
  <2>1. 1 \in 1 .. n BY <1>1, <1>6, <1>7
  <2> QED BY <2>1, <1>4, <1>9
<1>12. Ordered(u)
  <2>1. ASSUME NEW i \in 1 .. n PROVE u[i].op \in {"unset", "del"} BY <1>4, <1>9
  <2> QED BY <2>1, <1>7 DEF Ordered, Before
<1>13. Left(u) = {one(g) : g \in S} \cup {two(g) : g \in S}
  <2>1. ASSUME NEW c \in Left(u) PROVE c \in {one(g) : g \in S} \cup {two(g) : g \in S}
    <3>1. PICK i \in 1 .. n : c = u[i] BY <2>1, <1>7 DEF Left
    <3> QED BY <3>1, <1>9
  <2>2. ASSUME NEW g \in S PROVE one(g) \in Left(u) /\ two(g) \in Left(u)
    <3>1. PICK k \in 1 .. m : s[k] = g BY <1>2
    <3>2. /\ 2 * k \in 1 .. n /\ (2 * k) % 2 # 1 /\ (2 * k) \div 2 = k
          /\ 2 * k - 1 \in 1 .. n /\ (2 * k - 1) % 2 = 1 /\ ((2 * k - 1) + 1) \div 2 = k
      BY <1>2, HalvesReach DEF n
    <3>3. u[2 * k] = two(g) /\ u[2 * k - 1] = one(g) BY <3>1, <3>2, <1>8
    <3> QED BY <3>2, <3>3, <1>7 DEF Left
  <2> QED BY <2>1, <2>2
<1> QED BY <1>1, <1>10, <1>11, <1>12, <1>13 DEF u, one, two

\* A refresh before the calls that end the section.
LEMMA RefreshForm ==
    ASSUME Truth, NEW w \in Workers, NEW s \in Orders(Reported(w)),
           NEW d \in Orders({g \in Groups : row[g] # NoRow} \ Reported(w)),
           NEW job, job.kind \notin {"joined", "left", "chat"},
           NEW rest \in Seq(Calls), Ordered(rest), \A c \in Left(rest) : c.op \in {"unlock", "peek"}
    PROVE  LET got == work[w].got
               calls == Refresh(w, s, d) \o rest
               stale == {g \in Groups : row[g] # NoRow} \ Reported(w)
           IN  /\ calls \in Seq(Calls)
               /\ Form(job, calls, got) /\ Leading(calls)
               /\ Left(calls) = {Call("set", g, got[g]) : g \in Reported(w)}
                                  \cup {Call("put", g, got[g]) : g \in Reported(w)}
                                  \cup {Call("unset", g, NoRow) : g \in stale}
                                  \cup {Call("del", g, NoRow) : g \in stale}
                                  \cup (IF Reported(w) = {} THEN {} ELSE {Do("mark")})
                                  \cup Left(rest)
<1> DEFINE got == work[w].got
           stale == {g \in Groups : row[g] # NoRow} \ Reported(w)
           R == Reported(w)
           u == Upserts(got, s)
           e == Deletes(d)
           m == Mark(w)
           U == {Call("set", g, got[g]) : g \in R} \cup {Call("put", g, got[g]) : g \in R}
           E == {Call("unset", g, NoRow) : g \in stale} \cup {Call("del", g, NoRow) : g \in stale}
           M == IF R = {} THEN {} ELSE {Do("mark")}
<1>0. R \in SUBSET Groups /\ stale \in SUBSET Groups BY DEF Reported
<1>1. /\ u \in Seq(Calls) /\ Paired(u) /\ Leading(u) /\ Ordered(u)
      /\ Left(u) = U
  <2>1. \A g \in R : TrueRow(g, got[g]) BY WorkFacts DEF Reported, Stored
  <2>2. got \in [Groups -> Rows] BY WorkFacts
  <2> QED BY <1>0, <2>1, <2>2, UpsertsForm
<1>2. /\ e \in Seq(Calls) /\ Paired(e) /\ Leading(e) /\ Ordered(e)
      /\ Left(e) = E
  BY <1>0, DeletesForm
<1>3. m \in Seq(Calls) /\ Left(m) = M /\ Ordered(m)
  <2>1. Do("mark") \in Calls BY TrueCalls DEF CallsOf
  <2> DEFINE x == Do("mark")
  <2>2. x \in Calls BY <2>1
  <2> HIDE DEF x
  <2>7. <<x>> \in Seq(Calls) /\ <<>> \in Seq(Calls) BY <2>2
  <2>3. Left(<<x>>) = {x} /\ Ordered(<<x>>) BY ShortSequences
  <2>4. Left(<<>>) = {} /\ Ordered(<<>>) BY ShortSequences
  <2>5. CASE R = {}
    <3>1. m = <<>> /\ M = {} BY <2>5 DEF Mark
    <3> QED BY <2>4, <2>7, <3>1
  <2>6. CASE R # {}
    <3>1. m = <<x>> /\ M = {x} BY <2>6 DEF Mark, x
    <3> QED BY <2>3, <2>7, <3>1
  <2> QED BY <2>5, <2>6
<1>4. Paired(m) /\ Leading(m)
  <2>1. \A c \in M : c.op \notin {"set", "put", "unset"} BY DoFacts
  <2> HIDE DEF m, M
  <2> QED BY <1>3, <2>1, Unpaired
<1>5. Paired(rest) /\ Leading(rest) BY Unpaired
<1>6. /\ \A c \in U : c.op \in {"set", "put"}
      /\ \A c \in E : c.op \in {"unset", "del"}
      /\ \A c \in M : c.op = "mark"
  BY CallFields, DoFacts
<1>7. Refresh(w, s, d) = (u \o e) \o m BY DEF Refresh
<1> HIDE DEF u, e, m, U, E, M, R, stale, got
<1>8. /\ u \o e \in Seq(Calls) /\ Left(u \o e) = U \cup E /\ Ordered(u \o e)
      /\ Paired(u \o e) /\ Leading(u \o e)
  <2>1. \A c \in Left(u), x \in Left(e) : Before(c, x) BY <1>1, <1>2, <1>6 DEF Before
  <2> QED BY <1>1, <1>2, <2>1, LeftConcat, OrderedConcat, PairedConcat
<1>9. /\ (u \o e) \o m \in Seq(Calls) /\ Left((u \o e) \o m) = U \cup E \cup M
      /\ Ordered((u \o e) \o m)
      /\ Paired((u \o e) \o m) /\ Leading((u \o e) \o m)
  <2> DEFINE a == u \o e
  <2> HIDE DEF a
  <2>1. \A c \in Left(a), x \in Left(m) : Before(c, x) BY <1>3, <1>8, <1>6 DEF Before, a
  <2>2. a \in Seq(Calls) /\ Ordered(a) /\ Paired(a) /\ Leading(a) /\ Left(a) = U \cup E BY <1>8 DEF a
  <2>3. Left(a \o m) = U \cup E \cup M BY <1>3, <2>2, LeftConcat
  <2>4. Ordered(a \o m) BY <1>3, <2>1, <2>2, OrderedConcat
  <2>5. Paired(a \o m) /\ Leading(a \o m) BY <1>3, <1>4, <2>2, PairedConcat
  <2> QED BY <1>3, <2>2, <2>3, <2>4, <2>5 DEF a
<1> DEFINE a == (u \o e) \o m
           calls == a \o rest
<1>10. a \in Seq(Calls) /\ Left(a) = U \cup E \cup M /\ Ordered(a) /\ Paired(a) /\ Leading(a) BY <1>9
<1> HIDE DEF a
<1>11. calls \in Seq(Calls) BY <1>10
<1>12. Left(calls) = U \cup E \cup M \cup Left(rest) BY <1>10, LeftConcat
<1>13. Ordered(calls)
  <2>1. \A c \in Left(a), x \in Left(rest) : Before(c, x) BY <1>6, <1>10 DEF Before
  <2> QED BY <1>10, <2>1, OrderedConcat
<1>14. Paired(calls) /\ Leading(calls) BY <1>5, <1>10, PairedConcat
<1> HIDE DEF calls
<1>15. (\E c \in Left(calls) : c.op = "mark") => \E g \in Groups : got[g] # NoRow
  <2>1. M # {} => \E g \in Groups : got[g] # NoRow BY DEF M, R, Reported, got
  <2>2. ASSUME NEW c \in Left(calls), c.op = "mark" PROVE c \in M BY <2>2, <1>6, <1>12
  <2> QED BY <2>1, <2>2
<1>16. \A c \in Left(calls) : /\ c.op = "put" => c.row = got[c.g]
                              /\ c.op = "del" => got[c.g] = NoRow
  <2> SUFFICES ASSUME NEW c \in Left(calls), c.op \in {"put", "del"}
               PROVE  /\ c.op = "put" => c.row = got[c.g]
                      /\ c.op = "del" => got[c.g] = NoRow
    OBVIOUS
  <2>1. c \in U \cup E BY <1>6, <1>12
  <2>2. CASE c.op = "put"
    <3>1. c \in U BY <1>6, <2>1, <2>2
    <3>2. PICK g \in R : c = Call("set", g, got[g]) \/ c = Call("put", g, got[g]) BY <3>1 DEF U
    <3> QED BY <2>2, <3>2, CallFields
  <2>3. CASE c.op = "del"
    <3>1. c \in E BY <1>6, <2>1, <2>3
    <3>2. PICK g \in stale : c = Call("unset", g, NoRow) \/ c = Call("del", g, NoRow) BY <3>1 DEF E
    <3>3. c.g = g BY <3>2, CallFields
    <3>4. got[g] = NoRow BY <3>2 DEF stale, Reported, got
    <3> QED BY <2>3, <3>3, <3>4
  <2> QED BY <2>2, <2>3
<1>17. Form(job, calls, got) BY <1>13, <1>14, <1>15, <1>16 DEF Form
<1>18. calls = Refresh(w, s, d) \o rest BY <1>7 DEF calls, a
<1> QED BY <1>11, <1>12, <1>14, <1>17, <1>18 DEF U, E, M, R, stale, got

-----------------------------------------------------------------------------
(* How a step changes the workers *)

LEMMA ContinueWork ==
    ASSUME Truth, NEW w \in Workers, NEW calls, Continue(w, calls)
    PROVE  /\ \A v \in Workers \ {w} : work'[v] = work[v]
           /\ calls = <<>> => work'[w] = Idle
           /\ calls # <<>> => /\ work'[w].calls = calls /\ work'[w].job = work[w].job
                              /\ work'[w].got = work[w].got /\ work'[w].alone = work[w].alone
<1>1. work \in [Workers -> TrueWorks] BY DEF Truth
<1> DEFINE y == [work[w] EXCEPT !.calls = calls]
<1>2. y.calls = calls /\ y.job = work[w].job /\ y.got = work[w].got /\ y.alone = work[w].alone
  BY WorkFacts DEF TrueWorks
<1>3. work' = [work EXCEPT ![w] = IF calls = <<>> THEN Idle ELSE y] BY DEF Continue
<1> HIDE DEF y
<1> QED BY <1>1, <1>2, <1>3

LEMMA BeginWork ==
    ASSUME Truth, NEW w \in Workers, NEW job, NEW calls, NEW tangled, Begin(w, job, calls, tangled)
    PROVE  LET mixed == tangled \/ \E v \in Busy : Conflict(job, work[v].job)
           IN  /\ work[w] = Idle
               /\ work'[w].job = job /\ work'[w].calls = calls /\ work'[w].got = Idle.got
               /\ work'[w].alone = ~mixed
               /\ \A v \in Workers \ {w} :
                    /\ work'[v].job = work[v].job /\ work'[v].calls = work[v].calls
                    /\ work'[v].got = work[v].got
                    /\ work'[v].alone = (work[v].alone /\ (v \notin Busy \/ ~mixed))
                    /\ v \notin Busy => work'[v] = Idle
               /\ unsure' = IF mixed THEN Groups ELSE unsure
               /\ row' = row /\ setting' = setting /\ fresh' = fresh
               /\ server' = server /\ changes' = changes
<1> DEFINE mixed == tangled \/ \E v \in Busy : Conflict(job, work[v].job)
           mine == [Idle EXCEPT !.job = job, !.calls = calls, !.alone = ~mixed]
           other(v) == [work[v] EXCEPT !.alone = work[v].alone /\ (v \notin Busy \/ ~mixed)]
<1>1. /\ work' = [v \in Workers |-> IF v = w THEN mine ELSE other(v)]
      /\ unsure' = IF mixed THEN Groups ELSE unsure
      /\ row' = row /\ setting' = setting /\ fresh' = fresh
      /\ server' = server /\ changes' = changes
      /\ work[w] = Idle
  BY DEF Begin, cacheVars, serverVars
<1>2. mine.job = job /\ mine.calls = calls /\ mine.got = Idle.got /\ mine.alone = ~mixed
  <2> HIDE DEF mixed
  <2> QED BY IdleIsTrue DEF TrueWorks
<1>3. ASSUME NEW v \in Workers
      PROVE  /\ other(v).job = work[v].job /\ other(v).calls = work[v].calls
             /\ other(v).got = work[v].got
             /\ other(v).alone = (work[v].alone /\ (v \notin Busy \/ ~mixed))
  <2> DEFINE b == work[v].alone /\ (v \notin Busy \/ ~mixed)
             x == work[v]
  <2> HIDE DEF b
  <2>1. x \in TrueWorks BY WorkFacts
  <2> HIDE DEF x
  <2>2. /\ [x EXCEPT !.alone = b].job = x.job /\ [x EXCEPT !.alone = b].calls = x.calls
        /\ [x EXCEPT !.alone = b].got = x.got /\ [x EXCEPT !.alone = b].alone = b
    BY <2>1 DEF TrueWorks
  <2> QED BY <2>2 DEF b, x
<1>4. ASSUME NEW v \in Workers, v \notin Busy PROVE other(v) = Idle
  <2>1. work[v] = Idle BY <1>4 DEF Busy
  <2>2. Idle.alone = TRUE BY DEF Idle
  <2>3. [Idle EXCEPT !.alone = Idle.alone] = Idle BY DEF Idle
  <2>4. (Idle.alone /\ (v \notin Busy \/ ~mixed)) = Idle.alone BY <1>4, <2>2
  <2> QED BY <2>1, <2>3, <2>4
<1> HIDE DEF mine, other, mixed
<1> QED BY <1>1, <1>2, <1>3, <1>4 DEF mixed

\* Worker w begins a job: an event's, a gRPC call's.
Opens(w, job, calls, tangled) ==
    /\ Begin(w, job, calls, tangled)
    /\ job.kind = "chat" => tangled
    /\ IF job.kind \in EventKinds
         THEN \E i \in DOMAIN events :
                /\ job = events[i]
                /\ tangled = \E j \in 1 .. i - 1 : events[j].g = events[i].g
                /\ events' = [j \in 1 .. Len(events) - 1 |-> events[IF j < i THEN j ELSE j + 1]]
         ELSE events' = events
    /\ \/ job.kind \in EventKinds \cup {"chat"} /\ calls = Plan(job) /\ lock' = lock
       \/ /\ job.kind = "fetch" /\ calls = <<Do("joined"), Do("unlock")>>
          /\ lock = None /\ lock' = w
       \/ job.kind = "share" /\ calls = <<Do("peek")>> /\ lock = None /\ lock' = lock
       \/ /\ job.kind = "share" /\ calls = <<Do("joined"), Do("unlock"), Do("peek")>>
          /\ lock = None /\ lock' = w

LEMMA RequestCases ==
    ASSUME Truth, NEW w \in Workers, Request(w)
    PROVE  \E job \in TrueJobs, calls \in Seq(Calls), tangled \in BOOLEAN :
             Opens(w, job, calls, tangled)
<1>0. /\ <<Do("joined"), Do("unlock")>> \in Seq(Calls) /\ <<Do("peek")>> \in Seq(Calls)
      /\ <<Do("joined"), Do("unlock"), Do("peek")>> \in Seq(Calls)
  <2>1. Do("joined") \in Calls /\ Do("unlock") \in Calls /\ Do("peek") \in Calls
    BY TrueCalls DEF CallsOf
  <2> QED BY <2>1
<1>1. CASE HandleEvent(w)
  <2>1. PICK i \in DOMAIN events :
          /\ Begin(w, events[i], Plan(events[i]), \E j \in 1 .. i - 1 : events[j].g = events[i].g)
          /\ events' = [j \in 1 .. Len(events) - 1 |-> events[IF j < i THEN j ELSE j + 1]]
          /\ UNCHANGED lock
    BY <1>1 DEF HandleEvent
  <2> DEFINE job == events[i]
  <2>2. job \in TrueJobs /\ job.kind \in EventKinds
    <3>1. events \in Seq(EventJobs) BY DEF Truth
    <3> QED BY <2>1, <3>1 DEF EventJobs
  <2>3. Plan(job) \in Seq(Calls) BY <2>2, PlanIsTrue, CallsAreCalls
  <2>4. job.kind # "chat" BY <2>2 DEF EventKinds
  <2> DEFINE t == \E j \in 1 .. i - 1 : events[j].g = events[i].g
  <2>5. t \in BOOLEAN OBVIOUS
  <2>6. Begin(w, job, Plan(job), t) /\ lock' = lock BY <2>1
  <2>7. \E k \in DOMAIN events :
          /\ job = events[k]
          /\ t = \E j \in 1 .. k - 1 : events[j].g = events[k].g
          /\ events' = [j \in 1 .. Len(events) - 1 |-> events[IF j < k THEN j ELSE j + 1]]
    BY <2>1
  <2> HIDE DEF t, job
  <2> QED BY <2>2, <2>3, <2>4, <2>5, <2>6, <2>7 DEF Opens
<1>2. CASE UpdateOtherwise(w)
  <2>1. PICK g \in Named, eph \in BOOLEAN :
          /\ Begin(w, Job("chat", g, 0, eph), Plan(Job("chat", g, 0, eph)), TRUE)
          /\ UNCHANGED <<lock, events>>
    BY <1>2 DEF UpdateOtherwise
  <2> DEFINE job == Job("chat", g, 0, eph)
  <2>2. job \in TrueJobs /\ job.kind = "chat" BY CacheAssumption, OtherJobsAreTrue DEF Job
  <2>3. Plan(job) \in Seq(Calls) BY <2>2, PlanIsTrue, CallsAreCalls
  <2>4. Begin(w, job, Plan(job), TRUE) /\ lock' = lock /\ events' = events BY <2>1
  <2>5. job.kind \notin EventKinds BY <2>2 DEF EventKinds
  <2> HIDE DEF job
  <2> QED BY <2>2, <2>3, <2>4, <2>5 DEF Opens
<1>3. CASE FetchGroups(w)
  <2> DEFINE job == Job("fetch", None, 0, FALSE)
  <2>1. job \in TrueJobs /\ job.kind = "fetch" BY DEF Job, Jobs, TrueJobs, EventKinds
  <2>2. /\ Begin(w, job, <<Do("joined"), Do("unlock")>>, FALSE)
        /\ lock = None /\ lock' = w /\ events' = events
    BY <1>3 DEF FetchGroups, Acquire
  <2>3. job.kind \notin EventKinds BY <2>1 DEF EventKinds
  <2> HIDE DEF job
  <2> QED BY <1>0, <2>1, <2>2, <2>3 DEF Opens
<1>4. CASE SetGroupMemberShareHistoryMode(w)
  <2>1. PICK g \in Named :
          /\ Begin(w, Job("share", g, 0, FALSE),
                   IF fresh THEN <<Do("peek")>> ELSE <<Do("joined"), Do("unlock"), Do("peek")>>, FALSE)
          /\ lock = None
          /\ lock' = IF fresh THEN None ELSE w
          /\ events' = events
    BY <1>4 DEF SetGroupMemberShareHistoryMode
  <2> DEFINE job == Job("share", g, 0, FALSE)
  <2>2. job \in TrueJobs /\ job.kind = "share" BY CacheAssumption, OtherJobsAreTrue DEF Job
  <2>3. /\ Begin(w, job, IF fresh THEN <<Do("peek")>> ELSE <<Do("joined"), Do("unlock"), Do("peek")>>, FALSE)
    BY <2>1
  <2>6. job.kind \notin EventKinds BY <2>2 DEF EventKinds
  <2> HIDE DEF job
  <2>4. CASE fresh BY <1>0, <2>1, <2>2, <2>3, <2>4, <2>6 DEF Opens
  <2>5. CASE ~fresh BY <1>0, <2>1, <2>2, <2>3, <2>5, <2>6 DEF Opens
  <2> QED BY <2>4, <2>5
<1> QED BY <1>1, <1>2, <1>3, <1>4 DEF Request

LEMMA OpeningForm ==
    ASSUME NEW job \in TrueJobs, NEW got, NEW calls \in Seq(Calls),
           \/ job.kind \in EventKinds \cup {"chat"} /\ calls = Plan(job)
           \/ job.kind = "fetch" /\ calls = <<Do("joined"), Do("unlock")>>
           \/ job.kind = "share" /\ calls = <<Do("peek")>>
           \/ job.kind = "share" /\ calls = <<Do("joined"), Do("unlock"), Do("peek")>>
    PROVE  calls # <<>> /\ job.kind # "none" /\ Form(job, calls, got)
<1>1. CASE job.kind \in EventKinds \cup {"chat"} /\ calls = Plan(job)
  BY <1>1, PlanForm DEF EventKinds
<1> DEFINE c == Do("joined")
           d == Do("unlock")
           e == Do("peek")
<1>2. c.op = "joined" /\ d.op = "unlock" /\ e.op = "peek" BY DoFacts
<1> HIDE DEF c, d, e
<1>3. CASE job.kind = "fetch" /\ calls = <<c, d>>
  <2>1. Before(c, d) BY <1>2 DEF Before
  <2>2. Left(calls) = {c, d} /\ Ordered(calls) BY <1>3, <2>1, ShortSequences
  <2> QED BY <1>2, <1>3, <2>2, SectionForm
<1>4. CASE job.kind = "share" /\ calls = <<e>>
  <2>1. Left(calls) = {e} /\ Ordered(calls) BY <1>4, ShortSequences
  <2> QED BY <1>2, <1>4, <2>1, SectionForm
<1>5. CASE job.kind = "share" /\ calls = <<c, d, e>>
  <2>1. Before(c, d) /\ Before(c, e) /\ Before(d, e) BY <1>2 DEF Before
  <2>2. Left(calls) = {c, d, e} /\ Ordered(calls) BY <1>5, <2>1, ThreeCalls
  <2> QED BY <1>2, <1>5, <2>2, SectionForm
<1> QED BY <1>1, <1>3, <1>4, <1>5 DEF c, d, e

\* The first call of a worker, and those after it.
LEMMA HeadForm ==
    ASSUME Truth, Forms, NEW w \in Workers, work[w].calls # <<>>
    PROVE  /\ work[w].calls \in Seq(Calls) /\ Rest(w) \in Seq(Calls)
           /\ work[w].job.kind # "none"
           /\ Form(work[w].job, work[w].calls, work[w].got)
           /\ Left(work[w].calls) = {This(w)} \cup Left(Rest(w))
           /\ Ordered(Rest(w)) /\ \A c \in Left(Rest(w)) : Before(This(w), c)
           /\ This(w).op \notin {"set", "put", "unset", "del"} =>
                work[w].job.kind \notin {"joined", "left", "chat"}
           /\ Rest(w) # <<>> => Form(work[w].job, Rest(w), work[w].got)
<1> DEFINE s == work[w].calls
           job == work[w].job
<1>1. s \in Seq(Calls) /\ s # <<>> BY WorkFacts
<1>2. job.kind # "none" /\ Form(job, s, work[w].got) BY DEF Forms
<1>3. ASSUME job.kind \in {"joined", "left", "chat"} PROVE Head(s).op \in {"set", "put", "unset", "del"}
  <2>1. CASE job.kind = "joined"
    <3> DEFINE c == Call("set", job.g, RowAt(job.g, job.ver, job.eph))
               d == Call("put", job.g, RowAt(job.g, job.ver, job.eph))
    <3>1. Plan(job) = <<c, d>> BY <2>1 DEF Plan
    <3>2. c.op = "set" /\ d.op = "put" BY CallFields
    <3> HIDE DEF c, d
    <3>3. s \in {<<c, d>>, <<d>>} BY <1>2, <2>1, <3>1 DEF Form
    <3> HIDE DEF s
    <3> QED BY <3>2, <3>3
  <2>2. CASE job.kind = "left"
    <3> DEFINE c == Call("unset", job.g, NoRow)
               d == Call("del", job.g, NoRow)
    <3>1. Plan(job) = <<c, d>> BY <2>2 DEF Plan
    <3>2. c.op = "unset" /\ d.op = "del" BY CallFields
    <3> HIDE DEF c, d
    <3>3. s \in {<<c, d>>, <<d>>} BY <1>2, <2>2, <3>1 DEF Form
    <3> HIDE DEF s
    <3> QED BY <3>2, <3>3
  <2>3. CASE job.kind = "chat"
    <3> DEFINE c == Call("set", job.g, [NoRow EXCEPT !.eph = job.eph])
    <3>1. s = <<c>> BY <1>2, <2>3 DEF Form, Plan
    <3>2. c.op = "set" BY CallFields
    <3> HIDE DEF s, c
    <3> QED BY <3>1, <3>2
  <2> QED BY <1>3, <2>1, <2>2, <2>3
<1>4. Tail(s) \in Seq(Calls) BY <1>1
<1>5. This(w) = Head(s) /\ Rest(w) = Tail(s) BY DEF This, Rest
<1>6. Ordered(s) BY <1>2 DEF Form
<1> HIDE DEF s
<1>7. Left(s) = {Head(s)} \cup Left(Tail(s)) /\ Ordered(Tail(s)) /\ \A c \in Left(Tail(s)) : Before(Head(s), c)
  BY <1>1, <1>6, LeftTail, OrderedTail
<1>8. Tail(s) # <<>> => Form(job, Tail(s), work[w].got) BY <1>1, <1>2, FormTail
<1> QED BY <1>1, <1>2, <1>3, <1>4, <1>5, <1>7, <1>8 DEF s

\* A step of worker w keeps the forms if it gives w calls of that form, or none.
LEMMA FormsKept ==
    ASSUME Forms, NEW w \in Workers,
           \A v \in Workers \ {w} : /\ work'[v].job = work[v].job /\ work'[v].calls = work[v].calls
                                    /\ work'[v].got = work[v].got
                                    /\ work[v] = Idle => work'[v] = Idle,
           IF work'[w].calls = <<>>
             THEN work'[w] = Idle
             ELSE work'[w].job.kind # "none" /\ Form(work'[w].job, work'[w].calls, work'[w].got)
    PROVE  Forms'
BY DEF Forms

LEMMA FormsContinue ==
    ASSUME Truth, Forms, NEW w \in Workers, NEW calls, Continue(w, calls), work[w].calls # <<>>,
           calls # <<>> => Form(work[w].job, calls, work[w].got)
    PROVE  Forms'
<1>1. Idle.calls = <<>> BY DEF Idle
<1>2. work[w].job.kind # "none" BY DEF Forms
<1>3. /\ \A v \in Workers \ {w} : work'[v] = work[v]
      /\ calls = <<>> => work'[w] = Idle
      /\ calls # <<>> => /\ work'[w].calls = calls /\ work'[w].job = work[w].job
                         /\ work'[w].got = work[w].got
  BY ContinueWork
<1>4. CASE calls = <<>> BY <1>1, <1>3, <1>4, FormsKept
<1>5. CASE calls # <<>> BY <1>2, <1>3, <1>5, FormsKept
<1> QED BY <1>4, <1>5

LEMMA RequestKeepsForms ==
    ASSUME Truth, Forms, NEW w \in Workers, Request(w)
    PROVE  Forms'
<1>1. PICK job \in TrueJobs, calls \in Seq(Calls), tangled \in BOOLEAN :
        /\ Begin(w, job, calls, tangled)
        /\ \/ job.kind \in EventKinds \cup {"chat"} /\ calls = Plan(job)
           \/ job.kind = "fetch" /\ calls = <<Do("joined"), Do("unlock")>>
           \/ job.kind = "share" /\ calls = <<Do("peek")>>
           \/ job.kind = "share" /\ calls = <<Do("joined"), Do("unlock"), Do("peek")>>
  BY RequestCases DEF Opens
<1>2. calls # <<>> /\ job.kind # "none" /\ Form(job, calls, Idle.got) BY <1>1, OpeningForm
<1>3. /\ work'[w].job = job /\ work'[w].calls = calls /\ work'[w].got = Idle.got
      /\ \A v \in Workers \ {w} :
           /\ work'[v].job = work[v].job /\ work'[v].calls = work[v].calls
           /\ work'[v].got = work[v].got
           /\ v \notin Busy => work'[v] = Idle
  BY <1>1, BeginWork
<1> QED BY <1>2, <1>3, FormsKept DEF Busy

\* A statement changes the worker that runs it, and that one keeps its job until it ends.
LEMMA StatementWork ==
    ASSUME Truth, NEW w \in Workers, Lock(w) \/ Statement(w)
    PROVE  /\ work[w].calls # <<>>
           /\ \A v \in Workers \ {w} : work'[v] = work[v]
           /\ \/ work'[w] = Idle
              \/ work'[w].job = work[w].job /\ (work'[w].alone => work[w].alone)
           /\ server' = server /\ changes' = changes /\ events' = events
<1>0. work \in [Workers -> TrueWorks] BY DEF Truth
<1>1. ASSUME NEW calls, Continue(w, calls)
      PROVE  /\ \A v \in Workers \ {w} : work'[v] = work[v]
             /\ \/ work'[w] = Idle
                \/ work'[w].job = work[w].job /\ (work'[w].alone => work[w].alone)
  BY <1>1, ContinueWork
<1>2. CASE \/ Lock(w) \/ Unlock(w) \/ GetAllGroups(w) \/ GetGroupToUpdate(w) \/ GetGroupToShare(w)
           \/ UpdateSetting(w) \/ PutGroup(w) \/ DeleteSetting(w) \/ DeleteGroup(w) \/ MarkFresh(w)
  <2>1. work[w].calls # <<>> /\ \E calls : Continue(w, calls)
    BY <1>2 DEF Lock, Unlock, GetAllGroups, GetGroupToUpdate, GetGroupToShare, UpdateSetting,
                PutGroup, DeleteSetting, DeleteGroup, MarkFresh, Calling
  <2>2. server' = server /\ changes' = changes /\ events' = events
    BY <1>2 DEF Lock, Unlock, GetAllGroups, GetGroupToUpdate, GetGroupToShare, UpdateSetting,
                PutGroup, DeleteSetting, DeleteGroup, MarkFresh, serverVars
  <2> QED BY <1>1, <2>1, <2>2
<1>3. CASE GetJoinedGroups(w)
  <2>1. PICK got, calls : work' = [work EXCEPT ![w] = [work[w] EXCEPT !.calls = calls, !.got = got]]
    BY <1>3 DEF GetJoinedGroups
  <2> DEFINE y == [work[w] EXCEPT !.calls = calls, !.got = got]
  <2>2. y.job = work[w].job /\ y.alone = work[w].alone BY WorkFacts DEF TrueWorks
  <2> HIDE DEF y
  <2>3. \A v \in Workers \ {w} : work'[v] = work[v] BY <1>0, <2>1
  <2>4. work'[w] = y BY <1>0, <2>1 DEF y
  <2> QED BY <1>3, <2>2, <2>3, <2>4 DEF GetJoinedGroups, Calling, serverVars
<1>4. CASE CallSkipped(w)
  <2> DEFINE y == [work[w] EXCEPT !.calls = Rest(w), !.alone = FALSE]
  <2>1. y.job = work[w].job /\ ~y.alone BY WorkFacts DEF TrueWorks
  <2>2. work' = [work EXCEPT ![w] = IF Rest(w) = <<>> THEN Idle ELSE y] BY <1>4 DEF CallSkipped, Skip
  <2> HIDE DEF y
  <2>3. \A v \in Workers \ {w} : work'[v] = work[v] BY <1>0, <2>2
  <2>4. work'[w] = Idle \/ work'[w] = y BY <1>0, <2>2
  <2> QED BY <1>4, <2>1, <2>3, <2>4 DEF CallSkipped, Skip, serverVars
<1>5. CASE CallAborts(w)
  <2> DEFINE y == [work[w] EXCEPT !.calls = Plan(work[w].job), !.tries = @ + 1]
  <2>1. y.job = work[w].job /\ y.alone = work[w].alone BY WorkFacts DEF TrueWorks
  <2>2. work' = [work EXCEPT ![w] = Retried(w)] BY <1>5 DEF CallAborts
  <2>3. Retried(w) = Idle \/ Retried(w) = y BY DEF Retried
  <2> HIDE DEF y
  <2>4. \A v \in Workers \ {w} : work'[v] = work[v] BY <1>0, <2>2
  <2>5. work'[w] = Idle \/ work'[w] = y BY <1>0, <2>2, <2>3
  <2> QED BY <1>5, <2>1, <2>4, <2>5 DEF CallAborts, Aborts, serverVars
<1> QED BY StatementCases, <1>2, <1>3, <1>4, <1>5

\* What a worker gets of WhatsApp.
LEMMA JoinedWork ==
    ASSUME Truth, NEW w \in Workers, GetJoinedGroups(w)
    PROVE  \E none \in BOOLEAN :
             /\ work'[w].calls = <<Do("existing")>> \o Rest(w)
             /\ work'[w].job = work[w].job /\ work'[w].alone = work[w].alone
             /\ work'[w].got = [g \in Groups |-> IF server[g].in /\ ~none
                                                  THEN RowAt(g, server[g].ver, server[g].eph) ELSE NoRow]
             /\ unsure' = IF none THEN Groups ELSE unsure
<1>1. PICK none \in BOOLEAN :
        /\ work' = [work EXCEPT ![w] =
             [@ EXCEPT !.calls = <<Do("existing")>> \o Rest(w),
                       !.got = [g \in Groups |->
                                  IF server[g].in /\ ~none
                                    THEN RowAt(g, server[g].ver, server[g].eph) ELSE NoRow]]]
        /\ unsure' = IF none THEN Groups ELSE unsure
  BY DEF GetJoinedGroups
<1> DEFINE got == [g \in Groups |-> IF server[g].in /\ ~none
                                      THEN RowAt(g, server[g].ver, server[g].eph) ELSE NoRow]
           calls == <<Do("existing")>> \o Rest(w)
           y == [work[w] EXCEPT !.calls = calls, !.got = got]
<1>2. work' = [work EXCEPT ![w] = y] BY <1>1
<1> HIDE DEF got, calls
<1>3. y.calls = calls /\ y.got = got /\ y.job = work[w].job /\ y.alone = work[w].alone
  BY WorkFacts DEF TrueWorks
<1> HIDE DEF y
<1>4. work'[w] = y BY <1>2 DEF Truth
<1> QED BY <1>1, <1>3, <1>4 DEF got, calls

\* What becomes of a worker whose call is skipped, and of one that fails.
LEMMA SkippedWork ==
    ASSUME Truth, NEW w \in Workers, CallSkipped(w)
    PROVE  IF Rest(w) = <<>> THEN work'[w] = Idle
           ELSE /\ work'[w].calls = Rest(w) /\ work'[w].job = work[w].job
                /\ work'[w].got = work[w].got /\ ~work'[w].alone
<1> DEFINE y == [work[w] EXCEPT !.calls = Rest(w), !.alone = FALSE]
<1>1. y.calls = Rest(w) /\ y.job = work[w].job /\ y.got = work[w].got /\ ~y.alone
  BY WorkFacts DEF TrueWorks
<1>2. work' = [work EXCEPT ![w] = IF Rest(w) = <<>> THEN Idle ELSE y] BY DEF CallSkipped, Skip
<1> HIDE DEF y
<1> QED BY <1>1, <1>2 DEF Truth

LEMMA AbortedWork ==
    ASSUME Truth, NEW w \in Workers, CallAborts(w)
    PROVE  IF ~Again(w) THEN work'[w] = Idle
           ELSE /\ work'[w].calls = Plan(work[w].job) /\ work'[w].job = work[w].job
                /\ work'[w].got = work[w].got /\ work'[w].alone = work[w].alone
                /\ Plan(work[w].job) = Waiting
                /\ work[w].job.kind \in {"people", "eph"}
<1> DEFINE y == [work[w] EXCEPT !.calls = Plan(work[w].job), !.tries = @ + 1]
<1>1. y.calls = Plan(work[w].job) /\ y.job = work[w].job /\ y.got = work[w].got /\ y.alone = work[w].alone
  BY WorkFacts DEF TrueWorks
<1>2. work' = [work EXCEPT ![w] = Retried(w)] BY DEF CallAborts
<1>3. Retried(w) = IF Again(w) THEN y ELSE Idle BY DEF Retried
<1>4. work'[w] = Retried(w) BY <1>2 DEF Truth
<1> HIDE DEF y
<1>5. ASSUME Again(w) PROVE work[w].job.kind \in {"people", "eph"} /\ Plan(work[w].job) = Waiting
  BY <1>5 DEF Again, Plan, Waiting
<1> QED BY <1>1, <1>3, <1>4, <1>5

\* An update before the calls that end the section.
LEMMA UpdateForm ==
    ASSUME NEW job, job.kind \notin {"joined", "left", "chat"}, NEW got, NEW g, NEW r,
           NEW first \in Seq(Calls),
           first = <<Call("put", g, r)>> \/ first = <<Call("set", g, r), Call("put", g, r)>>,
           NEW rest \in Seq(Calls), Ordered(rest), \A c \in Left(rest) : c.op \in {"unlock", "peek"}
    PROVE  /\ Form(job, first \o rest, got)
           /\ ~Marking(first \o rest)
           /\ Left(first \o rest) = Left(first) \cup Left(rest)
           /\ Left(first) \subseteq {Call("set", g, r), Call("put", g, r)}
<1> DEFINE c == Call("set", g, r)
           d == Call("put", g, r)
<1>1. c.op = "set" /\ d.op = "put" /\ c.g = g /\ d.g = g /\ c.row = r /\ d.row = r BY CallFields
<1>2. Paired(first) /\ (first = <<d>> \/ first = <<c, d>>) BY Pairs
<1> HIDE DEF c, d
<1>3. Left(first) \subseteq {c, d} /\ Ordered(first)
  <2>1. Before(c, d) BY <1>1 DEF Before
  <2>2. /\ Left(<<d>>) = {d} /\ Ordered(<<d>>)
        /\ Left(<<c, d>>) = {c, d} /\ Ordered(<<c, d>>)
    BY <2>1, ShortSequences
  <2> QED BY <1>2, <2>2
<1>4. Paired(rest) /\ Leading(rest) BY Unpaired
<1> DEFINE s == first \o rest
<1>5. Left(s) = Left(first) \cup Left(rest) BY LeftConcat
<1>6. Ordered(s)
  <2>1. \A x \in Left(first), y \in Left(rest) : Before(x, y) BY <1>1, <1>3 DEF Before
  <2> QED BY <1>3, <2>1, OrderedConcat
<1>7. Paired(s) BY <1>2, <1>4, PairedConcat
<1> HIDE DEF s
<1>8. ~Marking(s) BY <1>1, <1>3, <1>5 DEF Marking
<1>9. ~(\E x \in Left(s) : x.op = "mark") BY <1>8 DEF Marking
<1> QED BY <1>3, <1>5, <1>6, <1>7, <1>8, <1>9 DEF Form, s, c, d

\* The row that GetGroupToUpdate has the worker put, and its calls.
Renewed(w) ==
    LET job == work[w].job
        old == row[job.g]
    IN  IF job.kind = "people"
          THEN [old EXCEPT !.ver = job.ver, !.roster = Updated(old.roster, job.g, job.ver)]
          ELSE [old EXCEPT !.eph = job.eph]
Renewing(w) ==
    LET g == work[w].job.g
        r == Renewed(w)
    IN  IF work[w].job.kind = "people" THEN <<Call("put", g, r)>>
                                       ELSE <<Call("set", g, r), Call("put", g, r)>>

LEMMA RenewedRow ==
    ASSUME Truth, NEW w \in Workers, GetGroupToUpdate(w), NEW job, job = work[w].job,
           NEW g, g = job.g
    PROVE  /\ job.kind \in {"people", "eph"} /\ g \in Groups
           /\ row[g] # NoRow /\ TrueRow(g, row[g])
           /\ Renewed(w) \in Rows /\ TrueRow(g, Renewed(w))
           /\ job.kind = "people" => /\ job.ver = row[g].ver + 1
                                     /\ Renewed(w) = RowAt(g, job.ver, row[g].eph)
           /\ job.kind = "eph" => Renewed(w) = RowAt(g, row[g].ver, job.eph)
           /\ Renewed(w).ver >= row[g].ver
           /\ work'[w].calls = Renewing(w) \o Rest(w)
           /\ work'[w].got = work[w].got
           /\ work'[w].job = job /\ work'[w].alone = work[w].alone
           /\ work[w].calls # <<>> /\ This(w).op = "load"
           /\ Renewing(w) \in Seq(Calls)
<1> DEFINE old == row[g]
           v == job.ver
           e == job.eph
           new == Updated(old.roster, g, v)
           r == Renewed(w)
           first == Renewing(w)
<1>1. old # NoRow /\ Applies(job, old) /\ Continue(w, first \o Rest(w))
  BY DEF GetGroupToUpdate, Renewing, Renewed
<1>2. job \in TrueJobs /\ job.kind \in {"people", "eph"} /\ g \in Groups
  <2>1. This(w) \in CallsOf(job.kind) /\ This(w).op = "load"
    BY HeadFacts DEF GetGroupToUpdate, Calling, This
  <2>2. job \in TrueJobs BY WorkFacts
  <2> QED BY <2>1, <2>2 DEF CallsOf, TrueJobs, EventKinds
<1>3. TrueRow(g, old) /\ old \in Rows BY <1>1, <1>2 DEF Truth, Stored
<1>4. old.ver \in Nat /\ old.ver \in Versions(g) /\ old.roster = Roster[g][old.ver] /\ old.eph \in BOOLEAN
      /\ v \in Nat /\ e \in BOOLEAN
  BY <1>2, <1>3 DEF Rows, TrueRow, TrueJobs, Jobs
<1>5. /\ [old EXCEPT !.ver = v, !.roster = new] = [ver |-> v, roster |-> new, eph |-> old.eph]
      /\ [old EXCEPT !.eph = e] = [ver |-> old.ver, roster |-> old.roster, eph |-> e]
  <2> HIDE DEF old, v, new, e
  <2> QED BY <1>3, RowChanges
<1>6. r = IF job.kind = "people" THEN [old EXCEPT !.ver = v, !.roster = new] ELSE [old EXCEPT !.eph = e]
  BY DEF Renewed
<1>7. ASSUME job.kind = "people"
      PROVE  /\ r \in Rows /\ TrueRow(g, r) /\ r.ver >= old.ver
             /\ job.kind = "people" => v = old.ver + 1 /\ r = RowAt(g, v, old.eph)
             /\ job.kind = "eph" => r = RowAt(g, old.ver, e)
  <2>1. old.ver = v - 1 BY <1>1, <1>7 DEF Applies
  <2>2. v \in Versions(g) \ {1} BY <1>2, <1>7 DEF TrueJobs
  <2>3. new = Roster[g][v] BY <1>2, <1>4, <2>1, <2>2, UpdateIsTrue
  <2>4. r = RowAt(g, v, old.eph) BY <1>5, <1>6, <1>7, <2>3 DEF RowAt
  <2>5. v = old.ver + 1 BY <1>4, <2>1
  <2>6. TrueRow(g, r) BY <1>2, <1>4, <2>2, <2>4, RowAtIsTrue
  <2>7. r \in Rows BY <2>6 DEF TrueRow
  <2>8. r.ver = v BY <2>4 DEF RowAt
  <2>9. r.ver >= old.ver BY <1>4, <2>5, <2>8
  <2> HIDE DEF r, old, v, e
  <2> QED BY <1>7, <2>4, <2>5, <2>6, <2>7, <2>9
<1>8. ASSUME job.kind = "eph"
      PROVE  /\ r \in Rows /\ TrueRow(g, r) /\ r.ver >= old.ver
             /\ job.kind = "people" => v = old.ver + 1 /\ r = RowAt(g, v, old.eph)
             /\ job.kind = "eph" => r = RowAt(g, old.ver, e)
  <2>1. r = RowAt(g, old.ver, e) BY <1>4, <1>5, <1>6, <1>8 DEF RowAt
  <2>2. TrueRow(g, r) BY <1>2, <1>4, <2>1, RowAtIsTrue
  <2>3. r \in Rows BY <2>2 DEF TrueRow
  <2>4. r.ver = old.ver BY <2>1 DEF RowAt
  <2>5. r.ver >= old.ver BY <1>4, <2>4
  <2> HIDE DEF r, old, v, e
  <2> QED BY <1>8, <2>1, <2>2, <2>3, <2>5
<1>9. /\ r \in Rows /\ TrueRow(g, r) /\ r.ver >= old.ver
      /\ job.kind = "people" => v = old.ver + 1 /\ r = RowAt(g, v, old.eph)
      /\ job.kind = "eph" => r = RowAt(g, old.ver, e)
  BY <1>2, <1>7, <1>8
<1>10. work[w].calls # <<>> /\ This(w).op = "load" BY DEF GetGroupToUpdate, Calling, This
<1>11. first \in Seq(Calls) /\ first # <<>>
  <2> DEFINE c == Call("put", g, r)
             d == Call("set", g, r)
  <2>1. c \in Calls /\ d \in Calls BY <1>2, <1>9 DEF Call, Calls, Ops
  <2>2. first = IF job.kind = "people" THEN <<c>> ELSE <<d, c>> BY DEF Renewing
  <2> HIDE DEF c, d
  <2> QED BY <2>1, <2>2
<1>12. Rest(w) \in Seq(Calls) BY <1>10, HeadFacts, CallsAreCalls
<1> HIDE DEF first
<1>13. first \o Rest(w) # <<>> BY <1>11, <1>12
<1>14. /\ work'[w].calls = first \o Rest(w) /\ work'[w].job = job
       /\ work'[w].got = work[w].got /\ work'[w].alone = work[w].alone
  <2> DEFINE s == first \o Rest(w)
  <2>1. s # <<>> /\ Continue(w, s) BY <1>1, <1>13
  <2> HIDE DEF s
  <2>2. work'[w].calls = s /\ work'[w].job = work[w].job
        /\ work'[w].got = work[w].got /\ work'[w].alone = work[w].alone
    BY <2>1, ContinueWork
  <2> QED BY <2>2 DEF s
<1> HIDE DEF r
<1> QED BY <1>1, <1>2, <1>3, <1>9, <1>10, <1>11, <1>14 DEF r, first

LEMMA RenewedForm ==
    ASSUME Truth, Forms, NEW w \in Workers, GetGroupToUpdate(w)
    PROVE  /\ Form(work[w].job, Renewing(w) \o Rest(w), work[w].got)
           /\ ~Marking(Renewing(w) \o Rest(w))
           /\ Left(Renewing(w) \o Rest(w)) = Left(Renewing(w)) \cup Left(Rest(w))
           /\ Left(Renewing(w)) \subseteq {Call("set", work[w].job.g, Renewed(w)),
                                         Call("put", work[w].job.g, Renewed(w))}
           /\ \A c \in Left(Rest(w)) : c.op \in {"unlock", "peek"}
<1> DEFINE job == work[w].job
           g == job.g
           r == Renewed(w)
           first == Renewing(w)
<1>1. first = <<Call("put", g, r)>> \/ first = <<Call("set", g, r), Call("put", g, r)>> BY DEF Renewing
<1>2. first \in Seq(Calls) /\ job.kind \in {"people", "eph"} /\ work[w].calls # <<>> /\ This(w).op = "load"
  BY RenewedRow
<1>3. Rest(w) \in Seq(Calls) /\ Ordered(Rest(w)) /\ \A c \in Left(Rest(w)) : c.op \in {"unlock", "peek"}
  BY <1>2, HeadForm DEF Before
<1>4. job.kind \notin {"joined", "left", "chat"} BY <1>2
<1> HIDE DEF first, r, g, job
<1> DEFINE rest == Rest(w)
<1>5. rest \in Seq(Calls) /\ Ordered(rest) /\ \A c \in Left(rest) : c.op \in {"unlock", "peek"} BY <1>3
<1> DEFINE got == work[w].got
<1> HIDE DEF rest, got
<1>6. /\ Form(job, first \o rest, got)
      /\ ~Marking(first \o rest)
      /\ Left(first \o rest) = Left(first) \cup Left(rest)
      /\ Left(first) \subseteq {Call("set", g, r), Call("put", g, r)}
  BY <1>1, <1>2, <1>4, <1>5, UpdateForm
<1> QED BY <1>3, <1>6 DEF first, r, g, job, rest, got

\* The statements that go on with the calls that are left.
Plain(w) == \/ Unlock(w) \/ UpdateSetting(w) \/ PutGroup(w) \/ DeleteSetting(w) \/ DeleteGroup(w)
            \/ MarkFresh(w)

LEMMA PlainFacts ==
    ASSUME NEW w \in Workers, Plain(w)
    PROVE  work[w].calls # <<>> /\ Continue(w, Rest(w))
BY DEF Plain, Unlock, UpdateSetting, PutGroup, DeleteSetting, DeleteGroup, MarkFresh, Calling

\* The calls of the fetch and the share jobs.
LEMMA FetchCalls ==
    /\ <<Do("joined"), Do("unlock")>> \in Seq(Calls) /\ <<Do("joined"), Do("unlock")>> # <<>>
    /\ Left(<<Do("joined"), Do("unlock")>>) = {Do("joined"), Do("unlock")}
    /\ Ordered(<<Do("joined"), Do("unlock")>>)
<1> DEFINE c == Do("joined")
           d == Do("unlock")
<1>1. c \in Calls /\ d \in Calls BY TrueCalls DEF CallsOf
<1>2. c.op = "joined" /\ d.op = "unlock" BY DoFacts
<1> HIDE DEF c, d
<1>3. Before(c, d) BY <1>2 DEF Before
<1>4. Left(<<c, d>>) = {c, d} /\ Ordered(<<c, d>>) BY <1>3, ShortSequences
<1>5. <<c, d>> \in Seq(Calls) BY <1>1
<1> QED BY <1>4, <1>5 DEF c, d

\* The calls of a worker after GetJoinedGroups.
LEMMA JoinedForm ==
    ASSUME Truth, Forms, NEW w \in Workers, GetJoinedGroups(w), NEW got
    PROVE  /\ Form(work[w].job, <<Do("existing")>> \o Rest(w), got)
           /\ <<Do("existing")>> \o Rest(w) # <<>>
           /\ Left(<<Do("existing")>> \o Rest(w)) = {Do("existing")} \cup Left(Rest(w))
           /\ \A c \in Left(Rest(w)) : c.op \in {"unlock", "peek"}
           /\ work[w].job.kind \notin {"joined", "left", "chat"}
<1> DEFINE x == Do("existing")
           rest == Rest(w)
           job == work[w].job
<1>1. work[w].calls # <<>> /\ This(w).op = "joined" BY DEF GetJoinedGroups, Calling, This
<1>2. /\ rest \in Seq(Calls) /\ Ordered(rest) /\ \A c \in Left(rest) : c.op \in {"unlock", "peek"}
      /\ job.kind \notin {"joined", "left", "chat"}
  BY <1>1, HeadForm DEF Before
<1>3. x \in Calls /\ x.op = "existing" BY DoFacts, TrueCalls DEF CallsOf
<1> HIDE DEF x, rest, job
<1>4. Left(<<x>>) = {x} /\ Ordered(<<x>>) BY ShortSequences
<1> DEFINE a == <<x>>
<1>5. a \in Seq(Calls) /\ Left(a) = {x} /\ Ordered(a) /\ Len(a) = 1 BY <1>3, <1>4
<1> HIDE DEF a
<1>6. Left(a \o rest) = {x} \cup Left(rest) BY <1>2, <1>5, LeftConcat
<1>7. a \o rest \in Seq(Calls) /\ a \o rest # <<>> BY <1>2, <1>5
<1>8. \A c \in Left(a), d \in Left(rest) : Before(c, d) BY <1>2, <1>3, <1>5 DEF Before
<1>9. Ordered(a \o rest) BY <1>2, <1>5, <1>8, OrderedConcat
<1> DEFINE s == a \o rest
<1> HIDE DEF s
<1>10. \A c \in Left(s) : c.op \notin {"set", "put", "unset", "del", "mark"} BY <1>2, <1>3, <1>6 DEF s
<1>11. s \in Seq(Calls) /\ Ordered(s) BY <1>7, <1>9 DEF s
<1>12. Form(job, s, got) BY <1>2, <1>10, <1>11, SectionForm
<1> QED BY <1>2, <1>6, <1>7, <1>12 DEF s, a, x, rest, job

\* The calls of a worker after GetAllGroups.
LEMMA RefreshedWork ==
    ASSUME Truth, Forms, NEW w \in Workers, GetAllGroups(w)
    PROVE  LET got == work[w].got
               stale == {g \in Groups : row[g] # NoRow} \ Reported(w)
               left == {Call("set", g, got[g]) : g \in Reported(w)}
                         \cup {Call("put", g, got[g]) : g \in Reported(w)}
                         \cup {Call("unset", g, NoRow) : g \in stale}
                         \cup {Call("del", g, NoRow) : g \in stale}
                         \cup (IF Reported(w) = {} THEN {} ELSE {Do("mark")})
                         \cup Left(Rest(w))
           IN  \E calls \in Seq(Calls) :
                 /\ Continue(w, calls) /\ Form(work[w].job, calls, got) /\ Leading(calls)
                 /\ Left(calls) = left
                 /\ \A c \in Left(Rest(w)) : c.op \in {"unlock", "peek"}
                 /\ work[w].job.kind \notin {"joined", "left", "chat"}
<1>1. PICK s \in Orders(Reported(w)), d \in Orders({g \in Groups : row[g] # NoRow} \ Reported(w)) :
        Continue(w, Refresh(w, s, d) \o Rest(w))
  BY DEF GetAllGroups
<1>2. work[w].calls # <<>> /\ This(w).op = "existing" BY DEF GetAllGroups, Calling, This
<1> DEFINE rest == Rest(w)
           job == work[w].job
<1>3. /\ rest \in Seq(Calls) /\ Ordered(rest) /\ \A c \in Left(rest) : c.op \in {"unlock", "peek"}
      /\ job.kind \notin {"joined", "left", "chat"}
  BY <1>2, HeadForm DEF Before
<1>4. Continue(w, Refresh(w, s, d) \o rest) BY <1>1
<1> HIDE DEF rest, job
<1> DEFINE calls == Refresh(w, s, d) \o rest
<1>5. LET got == work[w].got
          stale == {g \in Groups : row[g] # NoRow} \ Reported(w)
      IN  /\ calls \in Seq(Calls)
          /\ Form(job, calls, got) /\ Leading(calls)
          /\ Left(calls) = {Call("set", g, got[g]) : g \in Reported(w)}
                             \cup {Call("put", g, got[g]) : g \in Reported(w)}
                             \cup {Call("unset", g, NoRow) : g \in stale}
                             \cup {Call("del", g, NoRow) : g \in stale}
                             \cup (IF Reported(w) = {} THEN {} ELSE {Do("mark")})
                             \cup Left(rest)
  BY <1>1, <1>3, RefreshForm
<1>6. Continue(w, calls) BY <1>4
<1> HIDE DEF calls
<1> QED BY <1>3, <1>5, <1>6 DEF rest, job

LEMMA StatementKeepsForms ==
    ASSUME Truth, Forms, NEW w \in Workers, Lock(w) \/ Statement(w)
    PROVE  Forms'
<1>0. Idle.calls = <<>> BY DEF Idle
<1>1. CASE Plain(w)
  <2>1. work[w].calls # <<>> /\ Continue(w, Rest(w)) BY <1>1, PlainFacts
  <2>2. Rest(w) # <<>> => Form(work[w].job, Rest(w), work[w].got) BY <2>1, HeadForm
  <2> QED BY <2>1, <2>2, FormsContinue
<1>2. CASE Lock(w)
  <2>1. work[w].calls # <<>> /\ This(w).op = "lock" BY <1>2 DEF Lock, Calling, This
  <2> DEFINE calls == IF fresh THEN Rest(w) ELSE <<Do("joined"), Do("unlock")>>
  <2>2. Continue(w, calls) BY <1>2 DEF Lock
  <2>3. Rest(w) # <<>> => Form(work[w].job, Rest(w), work[w].got) BY <2>1, HeadForm
  <2>4. Form(work[w].job, <<Do("joined"), Do("unlock")>>, work[w].got)
    <3> DEFINE x == <<Do("joined"), Do("unlock")>>
    <3>1. x \in Seq(Calls) /\ Ordered(x) /\ Left(x) = {Do("joined"), Do("unlock")} BY FetchCalls
    <3>2. \A c \in Left(x) : c.op \notin {"set", "put", "unset", "del", "mark"} BY <3>1, DoFacts
    <3>3. work[w].job.kind \notin {"joined", "left", "chat"} BY <2>1, HeadForm
    <3> HIDE DEF x
    <3>4. Form(work[w].job, x, work[w].got) BY <3>1, <3>2, <3>3, SectionForm
    <3> QED BY <3>4 DEF x
  <2>5. calls # <<>> => Form(work[w].job, calls, work[w].got) BY <2>3, <2>4
  <2> HIDE DEF calls
  <2> QED BY <2>1, <2>2, <2>5, FormsContinue
<1>3. CASE GetJoinedGroups(w)
  <2>1. PICK got :
          /\ work'[w].calls = <<Do("existing")>> \o Rest(w)
          /\ work'[w].job = work[w].job /\ work'[w].got = got
    BY <1>3, JoinedWork
  <2>2. Form(work[w].job, <<Do("existing")>> \o Rest(w), got) /\ <<Do("existing")>> \o Rest(w) # <<>>
    BY <1>3, JoinedForm
  <2>3. \A v \in Workers \ {w} : work'[v] = work[v] BY StatementWork
  <2>4. work[w].job.kind # "none"
    <3>1. work[w].calls # <<>> BY <1>3 DEF GetJoinedGroups, Calling
    <3> QED BY <3>1, HeadForm
  <2> DEFINE s == <<Do("existing")>> \o Rest(w)
  <2> HIDE DEF s
  <2>5. work'[w].calls = s /\ s # <<>> /\ Form(work[w].job, s, got) BY <2>1, <2>2 DEF s
  <2>6. work'[w].job.kind # "none" /\ Form(work'[w].job, work'[w].calls, work'[w].got)
    BY <2>1, <2>4, <2>5
  <2> QED BY <2>3, <2>5, <2>6, FormsKept
<1>4. CASE GetAllGroups(w)
  <2>1. PICK calls : Continue(w, calls) /\ Form(work[w].job, calls, work[w].got)
    BY <1>4, RefreshedWork
  <2>2. work[w].calls # <<>> BY <1>4 DEF GetAllGroups, Calling
  <2> QED BY <2>1, <2>2, FormsContinue
<1>5. CASE GetGroupToUpdate(w)
  <2> DEFINE s == Renewing(w) \o Rest(w)
  <2>1. Form(work[w].job, s, work[w].got) BY <1>5, RenewedForm
  <2>2. Continue(w, s) BY <1>5 DEF GetGroupToUpdate, Renewing, Renewed
  <2>3. work[w].calls # <<>> BY <1>5 DEF GetGroupToUpdate, Calling
  <2> HIDE DEF s
  <2> QED BY <2>1, <2>2, <2>3, FormsContinue
<1>6. CASE GetGroupToShare(w)
  <2> DEFINE c == Call("set", work[w].job.g, row[work[w].job.g])
             d == Call("put", work[w].job.g, row[work[w].job.g])
             s == <<c, d>>
  <2>1. Continue(w, s) BY <1>6 DEF GetGroupToShare
  <2>2. work[w].calls # <<>> /\ This(w).op = "peek" BY <1>6 DEF GetGroupToShare, Calling, This
  <2>3. Paired(s) BY Pairs
  <2>4. c.op = "set" /\ d.op = "put" BY CallFields
  <2>5. work[w].job.kind \notin {"joined", "left", "chat"} BY <2>2, HeadForm
  <2> HIDE DEF c, d
  <2>6. Before(c, d) BY <2>4 DEF Before
  <2>7. Ordered(s) /\ Left(s) = {c, d} BY <2>6, ShortSequences
  <2> HIDE DEF s
  <2>8. ~Marking(s) /\ ~(\E x \in Left(s) : x.op = "mark") BY <2>4, <2>7 DEF Marking
  <2>9. Form(work[w].job, s, work[w].got) BY <2>3, <2>5, <2>7, <2>8 DEF Form
  <2> QED BY <2>1, <2>2, <2>9, FormsContinue
<1>7. CASE CallSkipped(w)
  <2>1. work[w].calls # <<>> BY <1>7 DEF CallSkipped, Skip
  <2>2. Rest(w) # <<>> => Form(work[w].job, Rest(w), work[w].got) BY <2>1, HeadForm
  <2>3. \A v \in Workers \ {w} : work'[v] = work[v] BY StatementWork
  <2>4. work[w].job.kind # "none" BY <2>1, HeadForm
  <2>5. CASE Rest(w) = <<>>
    <3>1. work'[w] = Idle BY <1>7, <2>5, SkippedWork
    <3> QED BY <1>0, <2>3, <3>1, FormsKept
  <2>6. CASE Rest(w) # <<>>
    <3>1. work'[w].calls = Rest(w) /\ work'[w].job = work[w].job /\ work'[w].got = work[w].got
      BY <1>7, <2>6, SkippedWork
    <3>2. work'[w].job.kind # "none" /\ Form(work'[w].job, work'[w].calls, work'[w].got)
      BY <2>2, <2>4, <2>6, <3>1
    <3> QED BY <2>3, <2>6, <3>1, <3>2, FormsKept
  <2> QED BY <2>5, <2>6
<1>8. CASE CallAborts(w)
  <2>1. work[w].calls # <<>> BY <1>8 DEF CallAborts, Aborts
  <2>3. \A v \in Workers \ {w} : work'[v] = work[v] BY StatementWork
  <2>4. work[w].job.kind # "none" BY <2>1, HeadForm
  <2>5. CASE ~Again(w)
    <3>1. work'[w] = Idle BY <1>8, <2>5, AbortedWork
    <3> QED BY <1>0, <2>3, <3>1, FormsKept
  <2>6. CASE Again(w)
    <3>1. /\ work'[w].calls = Plan(work[w].job) /\ work'[w].job = work[w].job
          /\ work'[w].got = work[w].got /\ work[w].job.kind \in {"people", "eph"}
      BY <1>8, <2>6, AbortedWork
    <3>2. work[w].job \in TrueJobs BY WorkFacts
    <3>3. Plan(work[w].job) # <<>> /\ Form(work[w].job, Plan(work[w].job), work[w].got)
      BY <3>1, <3>2, PlanForm DEF EventKinds
    <3>4. work'[w].job.kind # "none" /\ Form(work'[w].job, work'[w].calls, work'[w].got)
      BY <2>4, <3>1, <3>3
    <3> QED BY <2>3, <3>1, <3>3, <3>4, FormsKept
  <2> QED BY <2>5, <2>6
<1> QED BY StatementCases, <1>1, <1>2, <1>3, <1>4, <1>5, <1>6, <1>7, <1>8 DEF Plain

LEMMA StepKeepsForms == Truth /\ Forms /\ [Next]_vars => Forms'
<1> SUFFICES ASSUME Truth, Forms, [Next]_vars PROVE Forms' OBVIOUS
<1>1. ASSUME NEW w \in Workers, Request(w) PROVE Forms' BY <1>1, RequestKeepsForms
<1>2. ASSUME NEW w \in Workers, Lock(w) \/ Statement(w) PROVE Forms' BY <1>2, StatementKeepsForms
<1>3. CASE ServerChanges \/ Age \/ UNCHANGED vars
  <2>1. work' = work BY <1>3 DEF ServerChanges, Change, Age, vars
  <2> QED BY <2>1 DEF Forms
<1>4. CASE Restart
  <2>1. work' = [w \in Workers |-> Idle] BY <1>4 DEF Restart
  <2>2. Idle.calls = <<>> BY DEF Idle
  <2> QED BY <2>1, <2>2 DEF Forms
<1> QED BY <1>1, <1>2, <1>3, <1>4 DEF Next

LEMMA InitForms == Init => Forms
BY DEF Init, Idle, Forms

\* Inductive, given Truth, Sections and Forms: of two workers that are busy, neither is alone
\* if what they do conflicts; and while a group is sure, nothing about it conflicts.
Apart ==
    \A v, w \in Busy : v # w /\ work[v].alone => ~Conflict(work[v].job, work[w].job)
Sure ==
    \A g \in Groups \ unsure :
        /\ \A w \in Busy : work[w].job.kind # "chat"
        /\ \A v, w \in Busy : v # w =>
             /\ work[w].job.kind \notin Unlocked
             /\ ~(/\ work[v].job.kind = "eph" /\ work[w].job.kind = "eph"
                  /\ work[v].job.g = g /\ work[w].job.g = g)

LEMMA WaitingHead == Waiting # <<>> /\ Head(Waiting).op = "lock"
BY SectionFacts, DoFacts

LEMMA LockAfter ==
    ASSUME Truth, Sections, NEW w \in Workers, Lock(w) \/ Statement(w)
    PROVE  \/ lock' = lock
           \/ lock = None /\ lock' = w
           \/ lock = w /\ lock' = None
<1>1. CASE Unlock(w)
  <2> DEFINE s == work[w].calls
  <2>1. s \in Seq(Calls) /\ s # <<>> /\ Head(s).op = "unlock" BY <1>1, WorkFacts DEF Unlock, Calling
  <2>2. InOrder(s, lock = w) BY DEF Sections
  <2> HIDE DEF s
  <2>3. ~Outside(s) BY <2>1, TailFacts DEF Outer
  <2>4. s # Waiting BY <2>1, WaitingHead
  <2>5. lock = w BY <2>2, <2>3, <2>4 DEF InOrder
  <2> QED BY <1>1, <2>5 DEF Unlock
<1>2. CASE Lock(w) BY <1>2 DEF Lock, Acquire
<1>3. CASE CallAborts(w) BY <1>3 DEF CallAborts, Released
<1>4. CASE \/ GetJoinedGroups(w) \/ GetAllGroups(w) \/ GetGroupToUpdate(w) \/ GetGroupToShare(w)
           \/ UpdateSetting(w) \/ PutGroup(w) \/ DeleteSetting(w) \/ DeleteGroup(w) \/ MarkFresh(w)
           \/ CallSkipped(w)
  BY <1>4 DEF GetJoinedGroups, GetAllGroups, GetGroupToUpdate, GetGroupToShare, UpdateSetting,
              PutGroup, DeleteSetting, DeleteGroup, MarkFresh, CallSkipped, Skip
<1> QED BY StatementCases, <1>1, <1>2, <1>3, <1>4

\* Who unlocks has nothing left, unless it shares.
LEMMA LastUnlock ==
    ASSUME Truth, Forms, NEW w \in Workers, Unlock(w), work[w].job.kind # "share"
    PROVE  work'[w] = Idle
<1>1. work[w].calls # <<>> /\ This(w).op = "unlock" /\ Continue(w, Rest(w))
  BY DEF Unlock, Calling, This
<1>2. \A c \in Left(Rest(w)) : c.op = "peek" BY <1>1, HeadForm DEF Before
<1> DEFINE S == CallsOf(work[w].job.kind)
           t == Rest(w)
<1>3. t \in Seq(S) BY <1>1, HeadFacts
<1>4. \A c \in S : c.op # "peek" BY DEF CallsOf
<1>5. \A c \in Left(t) : c.op = "peek" BY <1>2
<1>6. Continue(w, t) BY <1>1
<1> HIDE DEF S, t
<1>7. t = <<>>
  <2> SUFFICES ASSUME t # <<>> PROVE FALSE OBVIOUS
  <2>1. 1 \in 1 .. Len(t) /\ t[1] \in S BY <1>3
  <2> QED BY <1>4, <1>5, <2>1 DEF Left
<1> QED BY <1>6, <1>7, ContinueWork

LEMMA StatementHeld ==
    ASSUME Truth, Sections, Forms, Held, NEW w \in Workers, Lock(w) \/ Statement(w)
    PROVE  Held'
<1>0. Idle.calls = <<>> BY DEF Idle
<1>1. /\ work[w].calls # <<>>
      /\ \A v \in Workers \ {w} : work'[v] = work[v]
      /\ work'[w] = Idle \/ work'[w].job = work[w].job
  BY StatementWork
<1>2. /\ lock' = lock \/ (lock = None /\ lock' = w) \/ (lock = w /\ lock' = None)
      /\ None \notin Workers
  BY LockAfter, CacheAssumption
<1>3. ASSUME NEW v \in Workers \ {w}, work[v].job.kind \notin Unlocked
      PROVE  \/ work[v].calls = <<>>
             \/ work[v].calls = Waiting /\ work[v].job.kind \in {"people", "eph"}
             \/ lock' = v
  BY <1>2, <1>3 DEF Held
<1>4. ASSUME work'[w].job.kind \notin Unlocked, work'[w] # Idle
      PROVE  \/ work'[w].calls = Waiting /\ work'[w].job.kind \in {"people", "eph"}
             \/ lock' = w
  <2>0. work'[w].job = work[w].job BY <1>1, <1>4
  <2>1. CASE Lock(w) BY <2>1 DEF Lock, Acquire
  <2>2. CASE Unlock(w)
    <3>1. work[w].job.kind # "share" BY <1>4, <2>0 DEF Unlocked
    <3> QED BY <1>4, <2>2, <3>1, LastUnlock
  <2>3. CASE CallAborts(w) BY <1>4, <2>0, <2>3, AbortedWork
  <2>4. CASE \/ GetJoinedGroups(w) \/ GetAllGroups(w) \/ GetGroupToUpdate(w) \/ GetGroupToShare(w)
             \/ UpdateSetting(w) \/ PutGroup(w) \/ DeleteSetting(w) \/ DeleteGroup(w) \/ MarkFresh(w)
             \/ CallSkipped(w)
    <3>1. Head(work[w].calls).op # "lock" /\ lock' = lock
      BY <2>4 DEF GetJoinedGroups, GetAllGroups, GetGroupToUpdate, GetGroupToShare, UpdateSetting,
                  PutGroup, DeleteSetting, DeleteGroup, MarkFresh, CallSkipped, Skip, Calling, This
    <3>2. work[w].calls # Waiting BY <3>1, WaitingHead
    <3>3. work[w].job.kind \notin Unlocked BY <1>4, <2>0
    <3>4. lock = w BY <1>1, <3>2, <3>3 DEF Held
    <3> QED BY <3>1, <3>4
  <2> QED BY StatementCases, <2>1, <2>2, <2>3, <2>4
<1>5. ASSUME NEW v \in Workers, work'[v].job.kind \notin Unlocked
      PROVE  \/ work'[v].calls = <<>>
             \/ work'[v].calls = Waiting /\ work'[v].job.kind \in {"people", "eph"}
             \/ lock' = v
  <2>1. CASE v = w BY <1>0, <1>4, <1>5, <2>1
  <2>2. CASE v # w BY <1>1, <1>3, <1>5, <2>2
  <2> QED BY <2>1, <2>2
<1> QED BY <1>5 DEF Held

LEMMA RequestHeld ==
    ASSUME Truth, Forms, Held, NEW w \in Workers, Request(w)
    PROVE  Held'
<1>1. PICK job \in TrueJobs, calls \in Seq(Calls), tangled \in BOOLEAN :
        /\ Begin(w, job, calls, tangled)
        /\ \/ job.kind \in EventKinds \cup {"chat"} /\ calls = Plan(job) /\ lock' = lock
           \/ job.kind = "fetch" /\ lock = None /\ lock' = w
           \/ job.kind = "share" /\ lock = None /\ (lock' = lock \/ lock' = w)
  BY RequestCases DEF Opens
<1>2. /\ work'[w].job = job /\ work'[w].calls = calls
      /\ \A v \in Workers \ {w} : work'[v].job = work[v].job /\ work'[v].calls = work[v].calls
  BY <1>1, BeginWork
<1>3. None \notin Workers BY CacheAssumption
<1>4. ASSUME NEW v \in Workers, work'[v].job.kind \notin Unlocked
      PROVE  \/ work'[v].calls = <<>>
             \/ work'[v].calls = Waiting /\ work'[v].job.kind \in {"people", "eph"}
             \/ lock' = v
  <2>1. CASE v = w
    <3>1. CASE job.kind \in EventKinds \cup {"chat"}
      <4>1. calls = Plan(job) \/ lock' = w BY <1>1, <3>1 DEF EventKinds
      <4>2. job.kind \in {"people", "eph"} BY <1>2, <1>4, <2>1, <3>1 DEF EventKinds, Unlocked
      <4>3. Plan(job) = Waiting BY <4>2 DEF Plan, Waiting
      <4> QED BY <1>2, <2>1, <4>1, <4>2, <4>3
    <3>2. CASE job.kind \notin EventKinds \cup {"chat"} BY <1>1, <1>2, <1>4, <2>1, <3>2 DEF Unlocked
    <3> QED BY <3>1, <3>2
  <2>2. CASE v # w
    <3>1. work'[v].job = work[v].job /\ work'[v].calls = work[v].calls BY <1>2, <2>2
    <3>2. lock = v => lock' = v BY <1>1, <1>3
    <3> QED BY <1>4, <3>1, <3>2 DEF Held
  <2> QED BY <2>1, <2>2
<1> QED BY <1>4 DEF Held

LEMMA StepKeepsHeld == Truth /\ Sections /\ Forms /\ Held /\ [Next]_vars => Held'
<1> SUFFICES ASSUME Truth, Sections, Forms, Held, [Next]_vars PROVE Held' OBVIOUS
<1>1. ASSUME NEW w \in Workers, Request(w) PROVE Held' BY <1>1, RequestHeld
<1>2. ASSUME NEW w \in Workers, Lock(w) \/ Statement(w) PROVE Held' BY <1>2, StatementHeld
<1>3. CASE ServerChanges \/ Age \/ UNCHANGED vars
  <2>1. work' = work /\ lock' = lock BY <1>3 DEF ServerChanges, Change, Age, vars
  <2> QED BY <2>1 DEF Held
<1>4. CASE Restart
  <2>1. work' = [w \in Workers |-> Idle] BY <1>4 DEF Restart
  <2>2. Idle.calls = <<>> BY DEF Idle
  <2> QED BY <2>1, <2>2 DEF Held
<1> QED BY <1>1, <1>2, <1>3, <1>4 DEF Next

LEMMA ConflictIsMutual == \A a, b : Conflict(a, b) => Conflict(b, a)
BY DEF Conflict

\* Who is busy after a statement was before.
LEMMA BusyAfter ==
    ASSUME Truth, NEW w \in Workers, Lock(w) \/ Statement(w), NEW v \in Busy'
    PROVE  /\ v \in Busy /\ work'[v].job = work[v].job
           /\ work'[v].alone => work[v].alone
           /\ v \in Workers
<1>1. /\ work[w].calls # <<>>
      /\ \A u \in Workers \ {w} : work'[u] = work[u]
      /\ work'[w] = Idle \/ (work'[w].job = work[w].job /\ (work'[w].alone => work[w].alone))
  BY StatementWork
<1>2. v \in Workers /\ work'[v] # Idle BY DEF Busy
<1>3. Idle.calls = <<>> BY DEF Idle
<1>4. CASE v = w BY <1>1, <1>2, <1>3, <1>4 DEF Busy
<1>5. CASE v # w BY <1>1, <1>2, <1>5 DEF Busy
<1> QED BY <1>4, <1>5

\* A group becomes sure only when a worker that is alone has refreshed all of them, with
\* nothing due about it.
LEMMA UnsureAfter ==
    ASSUME Truth, NEW w \in Workers, Lock(w) \/ Statement(w), NEW g \in unsure, g \notin unsure'
    PROVE  MarkFresh(w) /\ work[w].alone /\ g \notin Due(w)
<1>1. CASE MarkFresh(w) BY <1>1 DEF MarkFresh
<1>2. CASE GetJoinedGroups(w) \/ CallSkipped(w) \/ CallAborts(w) \/ Lock(w) \/ Unlock(w)
  BY <1>2 DEF GetJoinedGroups, CallSkipped, Skip, CallAborts, Lock, Unlock, Truth
<1>3. CASE \/ GetAllGroups(w) \/ GetGroupToUpdate(w) \/ GetGroupToShare(w)
           \/ UpdateSetting(w) \/ PutGroup(w) \/ DeleteSetting(w) \/ DeleteGroup(w)
  BY <1>3 DEF GetAllGroups, GetGroupToUpdate, GetGroupToShare, UpdateSetting,
              PutGroup, DeleteSetting, DeleteGroup
<1> QED BY StatementCases, <1>1, <1>2, <1>3

LEMMA StatementApart ==
    ASSUME Truth, Forms, Apart, Sure, NEW w \in Workers, Lock(w) \/ Statement(w)
    PROVE  Apart' /\ Sure'
<1>1. ASSUME NEW u \in Busy', NEW v \in Busy', u # v, work'[u].alone
      PROVE  ~Conflict(work'[u].job, work'[v].job)
  <2>1. /\ u \in Busy /\ v \in Busy /\ work'[u].job = work[u].job /\ work'[v].job = work[v].job
        /\ work[u].alone
    BY <1>1, BusyAfter
  <2> QED BY <1>1, <2>1 DEF Apart
<1>2. ASSUME NEW g \in Groups \ unsure', NEW v \in Busy', work'[v].job.kind = "chat" PROVE FALSE
  <2>1. v \in Busy /\ work[v].job.kind = "chat" BY <1>2, BusyAfter
  <2>2. g \in unsure BY <1>2, <2>1 DEF Sure
  <2>3. MarkFresh(w) /\ work[w].alone BY <2>2, UnsureAfter
  <2>4. work[w].calls # <<>> /\ This(w).op = "mark" BY <2>3 DEF MarkFresh, Calling, This
  <2>5. work[w].job.kind # "chat" /\ w \in Busy
    <3>1. Idle.calls = <<>> BY DEF Idle
    <3> QED BY <2>4, <3>1, HeadForm DEF Busy
  <2>6. v # w BY <2>1, <2>5
  <2>7. Conflict(work[w].job, work[v].job) BY <2>1 DEF Conflict, Unlocked
  <2> QED BY <2>1, <2>3, <2>5, <2>6, <2>7 DEF Apart
<1>3. ASSUME NEW g \in Groups \ unsure', NEW u \in Busy', NEW v \in Busy', u # v,
             \/ work'[v].job.kind \in Unlocked
             \/ /\ work'[u].job.kind = "eph" /\ work'[v].job.kind = "eph"
                /\ work'[u].job.g = g /\ work'[v].job.g = g
      PROVE  FALSE
  <2>1. /\ u \in Busy /\ v \in Busy /\ work'[u].job = work[u].job /\ work'[v].job = work[v].job
        /\ u \in Workers /\ v \in Workers
    BY BusyAfter
  <2>2. g \in unsure BY <1>3, <2>1 DEF Sure
  <2>3. MarkFresh(w) /\ work[w].alone /\ g \notin Due(w) BY <2>2, UnsureAfter
  <2>4. w \in Busy
    <3>1. Idle.calls = <<>> BY DEF Idle
    <3> QED BY <2>3, <3>1 DEF MarkFresh, Calling, Busy
  <2>5. ASSUME NEW x \in Busy, x # w PROVE work[x].job.kind \notin Unlocked /\ work[w].job.kind \notin Unlocked
    <3>1. ~Conflict(work[w].job, work[x].job) BY <2>3, <2>4, <2>5 DEF Apart
    <3> QED BY <3>1 DEF Conflict
  <2>6. work[v].job.kind \notin Unlocked
    <3>1. CASE v # w BY <2>1, <2>5, <3>1
    <3>2. CASE v = w
      <4>1. u # w BY <1>3, <3>2
      <4> QED BY <2>1, <2>5, <3>2, <4>1
    <3> QED BY <3>1, <3>2
  <2>7. \A x \in Workers \ {w} : work[x].job.g # g BY <2>3 DEF Due
  <2> QED BY <1>3, <2>1, <2>6, <2>7
<1>4. Apart' BY <1>1 DEF Apart
<1>5. Sure' BY <1>2, <1>3 DEF Sure
<1> QED BY <1>4, <1>5

LEMMA RequestApart ==
    ASSUME Truth, Apart, Sure, NEW w \in Workers, Request(w)
    PROVE  Apart' /\ Sure'
<1>1. PICK job \in TrueJobs, calls \in Seq(Calls), tangled \in BOOLEAN :
        /\ Begin(w, job, calls, tangled)
        /\ job.kind = "chat" => tangled
  BY RequestCases DEF Opens
<1> DEFINE mixed == tangled \/ \E v \in Busy : Conflict(job, work[v].job)
<1>2. /\ work[w] = Idle
      /\ work'[w].job = job /\ work'[w].alone = ~mixed
      /\ \A v \in Workers \ {w} :
           /\ work'[v].job = work[v].job
           /\ work'[v].alone = (work[v].alone /\ (v \notin Busy \/ ~mixed))
           /\ v \notin Busy => work'[v] = Idle
      /\ unsure' = IF mixed THEN Groups ELSE unsure
  BY <1>1, BeginWork
<1>3. ASSUME NEW v \in Busy', v # w PROVE v \in Busy /\ v \in Workers BY <1>2, <1>3 DEF Busy
<1>4. w \notin Busy BY <1>2 DEF Busy
<1>5. mixed \/ \A v \in Busy : ~Conflict(job, work[v].job) /\ ~Conflict(work[v].job, job)
  BY ConflictIsMutual
<1>6. job.kind = "chat" => mixed BY <1>1
<1> HIDE DEF mixed
<1>7. ASSUME NEW u \in Busy', NEW v \in Busy', u # v, work'[u].alone
      PROVE  ~Conflict(work'[u].job, work'[v].job)
  <2>1. ~mixed BY <1>2, <1>3, <1>7
  <2>2. CASE u = w BY <1>2, <1>3, <1>5, <1>7, <2>1, <2>2
  <2>3. CASE v = w BY <1>2, <1>3, <1>5, <1>7, <2>1, <2>3
  <2>4. CASE u # w /\ v # w BY <1>2, <1>3, <1>7, <2>4 DEF Apart
  <2> QED BY <2>2, <2>3, <2>4
<1>8. ASSUME NEW g \in Groups \ unsure', NEW v \in Busy' PROVE work'[v].job.kind # "chat"
  <2>1. ~mixed /\ g \in Groups \ unsure BY <1>2
  <2>2. CASE v = w BY <1>2, <1>6, <2>1, <2>2
  <2>3. CASE v # w BY <1>2, <1>3, <2>1, <2>3 DEF Sure
  <2> QED BY <2>2, <2>3
<1>9. ASSUME NEW g \in Groups \ unsure', NEW u \in Busy', NEW v \in Busy', u # v
      PROVE  /\ work'[v].job.kind \notin Unlocked
             /\ ~(/\ work'[u].job.kind = "eph" /\ work'[v].job.kind = "eph"
                  /\ work'[u].job.g = g /\ work'[v].job.g = g)
  <2>1. ~mixed /\ g \in Groups \ unsure BY <1>2
  <2>2. CASE u = w
    <3>1. v \in Busy /\ ~Conflict(job, work[v].job) /\ work'[v].job = work[v].job /\ work'[u].job = job
      BY <1>2, <1>3, <1>5, <1>9, <2>1, <2>2
    <3> QED BY <3>1 DEF Conflict
  <2>3. CASE v = w
    <3>1. u \in Busy /\ ~Conflict(job, work[u].job) /\ work'[u].job = work[u].job /\ work'[v].job = job
      BY <1>2, <1>3, <1>5, <1>9, <2>1, <2>3
    <3> QED BY <3>1 DEF Conflict
  <2>4. CASE u # w /\ v # w
    <3>1. u \in Busy /\ v \in Busy /\ work'[u].job = work[u].job /\ work'[v].job = work[v].job
      BY <1>2, <1>3, <1>9, <2>4
    <3> QED BY <1>9, <2>1, <3>1 DEF Sure
  <2> QED BY <2>2, <2>3, <2>4
<1>10. Apart' BY <1>7 DEF Apart
<1>11. Sure' BY <1>8, <1>9 DEF Sure
<1> QED BY <1>10, <1>11

LEMMA StepKeepsApart == Truth /\ Forms /\ Apart /\ Sure /\ [Next]_vars => Apart' /\ Sure'
<1> SUFFICES ASSUME Truth, Forms, Apart, Sure, [Next]_vars PROVE Apart' /\ Sure' OBVIOUS
<1>1. ASSUME NEW w \in Workers, Request(w) PROVE Apart' /\ Sure' BY <1>1, RequestApart
<1>2. ASSUME NEW w \in Workers, Lock(w) \/ Statement(w) PROVE Apart' /\ Sure' BY <1>2, StatementApart
<1>3. CASE ServerChanges \/ Age \/ UNCHANGED vars
  <2>1. work' = work /\ unsure \subseteq unsure' BY <1>3 DEF ServerChanges, Change, Age, vars
  <2> QED BY <2>1 DEF Apart, Sure, Busy
<1>4. CASE Restart
  <2>1. work' = [w \in Workers |-> Idle] /\ unsure' = Groups BY <1>4 DEF Restart
  <2>2. Busy' = {} BY <2>1 DEF Busy
  <2> QED BY <2>1, <2>2 DEF Apart, Sure
<1> QED BY <1>1, <1>2, <1>3, <1>4 DEF Next

\* Who is alone, or busy while a group is sure, and past waiting for the lock, is the only
\* one at work.
LEMMA Quiet ==
    ASSUME Truth, Sections, Forms, Held, Apart, Sure, NEW w \in Workers,
           work[w].calls # <<>>, work[w].calls # Waiting,
           work[w].alone \/ \E g \in Groups : g \notin unsure,
           NEW v \in Workers \ {w}
    PROVE  (work[v].calls = <<>> \/ work[v].calls = Waiting) /\ lock # v
<1>0. Idle.calls = <<>> BY DEF Idle
<1>1. w \in Busy BY <1>0 DEF Busy
<1>2. CASE v \notin Busy
  <2>1. work[v].calls = <<>> BY <1>0, <1>2 DEF Busy
  <2>2. InOrder(<<>>, lock = v) BY <2>1 DEF Sections
  <2>3. lock # v BY <2>2, SectionFacts DEF InOrder
  <2> QED BY <2>1, <2>3
<1>3. CASE v \in Busy
  <2>1. work[v].job.kind \notin Unlocked /\ work[w].job.kind \notin Unlocked
    <3>1. CASE work[w].alone
      <4>1. ~Conflict(work[w].job, work[v].job) BY <1>1, <1>3, <3>1 DEF Apart
      <4> QED BY <4>1 DEF Conflict
    <3>2. CASE \E g \in Groups : g \notin unsure BY <1>1, <1>3, <3>2 DEF Sure
    <3> QED BY <3>1, <3>2
  <2>2. lock = w BY <2>1 DEF Held
  <2> QED BY <2>1, <2>2 DEF Held
<1> QED BY <1>2, <1>3

\* How workers go about their jobs.
Discipline == Truth /\ Sections /\ Forms /\ Held /\ Apart /\ Sure

LEMMA StepKeepsDiscipline == Discipline /\ [Next]_vars => Discipline'
BY StepKeepsTruth, StepKeepsSections, StepKeepsForms, StepKeepsHeld, StepKeepsApart DEF Discipline

LEMMA InitDiscipline == Init => Discipline
<1> SUFFICES ASSUME Init PROVE Discipline OBVIOUS
<1>1. work = [w \in Workers |-> Idle] /\ lock = None BY DEF Init
<1>2. Idle.calls = <<>> BY DEF Idle
<1>3. \A w \in Workers : lock # w BY <1>1, CacheAssumption
<1>4. Sections BY <1>1, <1>2, <1>3, SectionFacts DEF Sections, InOrder
<1>5. Busy = {} BY <1>1 DEF Busy
<1>6. Apart /\ Sure BY <1>5 DEF Apart, Sure
<1>7. Held BY <1>1, <1>2 DEF Held
<1> QED BY <1>4, <1>6, <1>7, InitIsTrue, InitForms DEF Discipline

\* Where the calls of a worker come from that store or delete a row, list the stored ones or
\* end a refresh.
LEMMA WritesAfter ==
    ASSUME Truth, Forms, NEW w \in Workers, Lock(w) \/ Statement(w),
           NEW c \in Left(work'[w].calls), c.op \in {"put", "del", "mark", "existing"}
    PROVE  \/ /\ c \in Left(Rest(w)) /\ c.op # "existing"
              /\ work'[w].got = work[w].got /\ work'[w].calls = Rest(w)
              /\ Plain(w) \/ CallSkipped(w)
           \/ GetJoinedGroups(w) /\ c.op = "existing"
           \/ /\ GetAllGroups(w) /\ work'[w].got = work[w].got /\ c.op # "existing"
              /\ c.op = "put" => c.g \in Reported(w) /\ c = Call("put", c.g, work[w].got[c.g])
              /\ c.op = "del" => c.g \notin Reported(w) /\ c.g \in Groups /\ row[c.g] # NoRow
           \/ /\ GetGroupToUpdate(w) /\ work'[w].got = work[w].got
              /\ c = Call("put", work[w].job.g, Renewed(w))
           \/ /\ GetGroupToShare(w) /\ work'[w].got = work[w].got
              /\ work[w].job.kind = "share" /\ work[w].job.g \in Groups
              /\ c = Call("put", work[w].job.g, row[work[w].job.g])
<1>0. Left(<<>>) = {} /\ Idle.calls = <<>>
  <2>1. Left(<<>>) = {} BY DEF Left
  <2> QED BY <2>1 DEF Idle
<1>a. \A d \in Left(Rest(w)) : d.op # "existing"
  <2>1. work[w].calls # <<>> BY StatementWork
  <2> QED BY <2>1, HeadForm DEF Before
<1>1. CASE Plain(w)
  <2>1. work[w].calls # <<>> /\ Continue(w, Rest(w)) BY <1>1, PlainFacts
  <2>2. CASE Rest(w) = <<>> BY <1>0, <2>1, <2>2, ContinueWork
  <2>3. CASE Rest(w) # <<>>
    <3>1. work'[w].calls = Rest(w) /\ work'[w].got = work[w].got BY <2>1, <2>3, ContinueWork
    <3> QED BY <1>a, <1>1, <3>1
  <2> QED BY <2>2, <2>3
<1>2. CASE Lock(w)
  <2> DEFINE calls == IF fresh THEN Rest(w) ELSE <<Do("joined"), Do("unlock")>>
  <2>1. work[w].calls # <<>> /\ Continue(w, calls) BY <1>2 DEF Lock, Calling
  <2> HIDE DEF calls
  <2>2. CASE calls = <<>> BY <1>0, <2>1, <2>2, ContinueWork
  <2>3. CASE calls # <<>>
    <3>1. work'[w].calls = calls /\ work'[w].got = work[w].got BY <2>1, <2>3, ContinueWork
    <3>2. calls = Rest(w) \/ c \in {Do("joined"), Do("unlock")}
      <4>1. calls = Rest(w) \/ calls = <<Do("joined"), Do("unlock")>> BY DEF calls
      <4> DEFINE x == <<Do("joined"), Do("unlock")>>
      <4>2. Left(x) = {Do("joined"), Do("unlock")} BY FetchCalls
      <4>3. calls = Rest(w) \/ calls = x BY <4>1
      <4> HIDE DEF x
      <4> QED BY <3>1, <4>2, <4>3
    <3>3. c \notin {Do("joined"), Do("unlock")} BY DoFacts
    <3>4. This(w).op = "lock" BY <1>2 DEF Lock, Calling, This
    <3>5. \A d \in Left(Rest(w)) : d.op \in {"load", "unlock"} BY <2>1, <3>4, HeadForm DEF Before
    <3> QED BY <3>1, <3>2, <3>3, <3>5
  <2> QED BY <2>2, <2>3
<1>3. CASE GetJoinedGroups(w)
  <2>1. work'[w].calls = <<Do("existing")>> \o Rest(w) BY <1>3, JoinedWork
  <2>3. /\ Left(<<Do("existing")>> \o Rest(w)) = {Do("existing")} \cup Left(Rest(w))
        /\ \A d \in Left(Rest(w)) : d.op \in {"unlock", "peek"}
    BY <1>3, JoinedForm
  <2>4. c = Do("existing") \/ c.op \in {"unlock", "peek"} BY <2>1, <2>3
  <2> QED BY <1>3, <2>4, DoFacts
<1>4. CASE GetAllGroups(w)
  <2> DEFINE got == work[w].got
             stale == {g \in Groups : row[g] # NoRow} \ Reported(w)
             sets == {Call("set", g, got[g]) : g \in Reported(w)}
             puts == {Call("put", g, got[g]) : g \in Reported(w)}
             unsets == {Call("unset", g, NoRow) : g \in stale}
             dels == {Call("del", g, NoRow) : g \in stale}
             mark == IF Reported(w) = {} THEN {} ELSE {Do("mark")}
  <2>1. PICK calls : /\ Continue(w, calls)
                     /\ Left(calls) = sets \cup puts \cup unsets \cup dels \cup mark \cup Left(Rest(w))
                     /\ \A d \in Left(Rest(w)) : d.op \in {"unlock", "peek"}
    BY <1>4, RefreshedWork
  <2>2. calls # <<>> /\ work'[w].calls = calls /\ work'[w].got = got
    BY <1>0, <2>1, ContinueWork
  <2>3. /\ \A d \in sets : d.op = "set"
        /\ \A d \in puts : d.op = "put" /\ d.g \in Reported(w) /\ d = Call("put", d.g, got[d.g])
        /\ \A d \in unsets : d.op = "unset"
        /\ \A d \in dels : d.op = "del" /\ d.g \in stale
        /\ \A d \in mark : d.op = "mark"
    BY CallFields, DoFacts
  <2> HIDE DEF sets, puts, unsets, dels, mark, got, stale
  <2>4. c \in puts \cup dels \cup mark BY <2>1, <2>2, <2>3
  <2>5. /\ c.op # "existing"
        /\ c.op = "put" => c.g \in Reported(w) /\ c = Call("put", c.g, got[c.g])
        /\ c.op = "del" => c.g \in stale
    BY <2>3, <2>4
  <2> QED BY <1>4, <2>2, <2>5 DEF got, stale
<1>5. CASE GetGroupToUpdate(w)
  <2>1. work'[w].calls = Renewing(w) \o Rest(w) /\ work'[w].got = work[w].got BY <1>5, RenewedRow
  <2>2. /\ Left(Renewing(w) \o Rest(w)) = Left(Renewing(w)) \cup Left(Rest(w))
        /\ Left(Renewing(w)) \subseteq {Call("set", work[w].job.g, Renewed(w)),
                                        Call("put", work[w].job.g, Renewed(w))}
        /\ \A d \in Left(Rest(w)) : d.op \in {"unlock", "peek"}
    BY <1>5, RenewedForm
  <2>3. \/ c = Call("set", work[w].job.g, Renewed(w)) \/ c = Call("put", work[w].job.g, Renewed(w))
    BY <2>1, <2>2
  <2> QED BY <1>5, <2>1, <2>3, CallFields
<1>6. CASE GetGroupToShare(w)
  <2> DEFINE x == Call("set", work[w].job.g, row[work[w].job.g])
             d == Call("put", work[w].job.g, row[work[w].job.g])
             s == <<x, d>>
  <2>1. Continue(w, s) BY <1>6 DEF GetGroupToShare
  <2>2. work[w].calls # <<>> /\ This(w).op = "peek" BY <1>6 DEF GetGroupToShare, Calling, This
  <2>3. work[w].job.kind = "share" /\ work[w].job.g \in Groups
    <3>1. This(w) \in CallsOf(work[w].job.kind) BY <2>2, HeadFacts
    <3>2. work[w].job \in TrueJobs BY WorkFacts
    <3> QED BY <2>2, <3>1, <3>2 DEF CallsOf, TrueJobs
  <2>4. x.op = "set" BY CallFields
  <2>5. s # <<>> OBVIOUS
  <2> HIDE DEF x, d
  <2>6. Left(s) = {x, d} BY ShortSequences
  <2> HIDE DEF s
  <2>7. work'[w].calls = s /\ work'[w].got = work[w].got BY <2>1, <2>5, ContinueWork
  <2>8. c = d BY <2>4, <2>6, <2>7
  <2> QED BY <1>6, <2>3, <2>7, <2>8 DEF d
<1>7. CASE CallSkipped(w)
  <2>1. CASE Rest(w) = <<>> BY <1>0, <1>7, <2>1, SkippedWork
  <2>2. CASE Rest(w) # <<>>
    <3>1. work'[w].calls = Rest(w) /\ work'[w].got = work[w].got BY <1>7, <2>2, SkippedWork
    <3> QED BY <1>a, <1>7, <3>1
  <2> QED BY <2>1, <2>2
<1>8. CASE CallAborts(w)
  <2>1. CASE ~Again(w) BY <1>0, <1>8, <2>1, AbortedWork
  <2>2. CASE Again(w)
    <3>1. work'[w].calls = Waiting BY <1>8, <2>2, AbortedWork
    <3> DEFINE x == Do("lock")
               y == Do("load")
               z == Do("unlock")
    <3>2. x.op = "lock" /\ y.op = "load" /\ z.op = "unlock" BY DoFacts
    <3>3. Waiting = <<x, y, z>> BY DEF Waiting
    <3> HIDE DEF x, y, z
    <3>4. Before(x, y) /\ Before(x, z) /\ Before(y, z) BY <3>2 DEF Before
    <3>5. Left(<<x, y, z>>) = {x, y, z} BY <3>4, ThreeCalls
    <3> QED BY <3>1, <3>2, <3>3, <3>5
  <2> QED BY <2>1, <2>2
<1> QED BY StatementCases, <1>1, <1>2, <1>3, <1>4, <1>5, <1>6, <1>7, <1>8 DEF Plain

\* The calls a job begins with that store or delete a row.
LEMMA OpeningWrites ==
    ASSUME NEW job \in TrueJobs, NEW calls,
           \/ job.kind \in EventKinds \cup {"chat"} /\ calls = Plan(job)
           \/ job.kind = "fetch" /\ calls = <<Do("joined"), Do("unlock")>>
           \/ job.kind = "share" /\ calls = <<Do("peek")>>
           \/ job.kind = "share" /\ calls = <<Do("joined"), Do("unlock"), Do("peek")>>,
           NEW c \in Left(calls), c.op \in {"put", "del"}
    PROVE  \/ job.kind = "joined" /\ c = Call("put", job.g, RowAt(job.g, job.ver, job.eph))
           \/ job.kind = "left" /\ c = Call("del", job.g, NoRow)
<1>1. CASE job.kind = "joined" /\ calls = Plan(job)
  <2> DEFINE x == Call("set", job.g, RowAt(job.g, job.ver, job.eph))
             y == Call("put", job.g, RowAt(job.g, job.ver, job.eph))
  <2>1. calls = <<x, y>> BY <1>1 DEF Plan
  <2>2. x.op = "set" BY CallFields
  <2> HIDE DEF x, y
  <2>3. Left(<<x, y>>) = {x, y} BY ShortSequences
  <2>4. c = y BY <2>1, <2>2, <2>3
  <2> QED BY <1>1, <2>4 DEF y
<1>2. CASE job.kind = "left" /\ calls = Plan(job)
  <2> DEFINE x == Call("unset", job.g, NoRow)
             y == Call("del", job.g, NoRow)
  <2>1. calls = <<x, y>> BY <1>2 DEF Plan
  <2>2. x.op = "unset" BY CallFields
  <2> HIDE DEF x, y
  <2>3. Left(<<x, y>>) = {x, y} BY ShortSequences
  <2>4. c = y BY <2>1, <2>2, <2>3
  <2> QED BY <1>2, <2>4 DEF y
<1>3. CASE job.kind = "chat" /\ calls = Plan(job)
  <2> DEFINE x == Call("set", job.g, [NoRow EXCEPT !.eph = job.eph])
  <2>1. calls = <<x>> BY <1>3 DEF Plan
  <2>2. x.op = "set" BY CallFields
  <2> HIDE DEF x
  <2>3. Left(<<x>>) = {x} BY ShortSequences
  <2> QED BY <2>1, <2>2, <2>3
<1> DEFINE l == Do("lock")
           o == Do("load")
           u == Do("unlock")
           j == Do("joined")
           p == Do("peek")
<1>4. l.op = "lock" /\ o.op = "load" /\ u.op = "unlock" /\ j.op = "joined" /\ p.op = "peek" BY DoFacts
<1>5. CASE job.kind \in {"people", "eph"} /\ calls = Plan(job)
  <2>1. calls = <<l, o, u>> BY <1>5 DEF Plan
  <2> HIDE DEF l, o, u
  <2>2. Before(l, o) /\ Before(l, u) /\ Before(o, u) BY <1>4 DEF Before
  <2>3. Left(<<l, o, u>>) = {l, o, u} BY <2>2, ThreeCalls
  <2> QED BY <1>4, <2>1, <2>3
<1>6. CASE calls = <<j, u>>
  <2> HIDE DEF j, u
  <2>1. Left(<<j, u>>) = {j, u} BY ShortSequences
  <2> QED BY <1>4, <1>6, <2>1
<1>7. CASE calls = <<p>>
  <2> HIDE DEF p
  <2>1. Left(<<p>>) = {p} BY ShortSequences
  <2> QED BY <1>4, <1>7, <2>1
<1>8. CASE calls = <<j, u, p>>
  <2> HIDE DEF j, u, p
  <2>2. Before(j, u) /\ Before(j, p) /\ Before(u, p) BY <1>4 DEF Before
  <2>3. Left(<<j, u, p>>) = {j, u, p} BY <2>2, ThreeCalls
  <2> QED BY <1>4, <1>8, <2>3
<1> QED BY <1>1, <1>2, <1>3, <1>5, <1>6, <1>7, <1>8 DEF EventKinds

-----------------------------------------------------------------------------
(* Versions *)

\* Inductive: nothing is ahead of WhatsApp.
Bounded ==
    \A g \in Groups :
        /\ row[g].ver <= server[g].ver
        /\ \A i \in DOMAIN events : events[i].g = g => events[i].ver <= server[g].ver
        /\ \A w \in Workers :
             /\ work[w].job.kind \in EventKinds /\ work[w].job.g = g => work[w].job.ver <= server[g].ver
             /\ work[w].got[g].ver <= server[g].ver
             /\ \A c \in Left(work[w].calls) :
                  c.op = "put" /\ c.g = g => c.row.ver <= server[g].ver

\* Inductive: nobody is alone who has an older row to put than the one that is stored.
Ahead ==
    \A w \in Workers : work[w].alone /\ work[w].job.kind \notin Unlocked =>
        /\ \A c \in Left(work[w].calls) : c.op = "put" => c.row.ver >= row[c.g].ver
        /\ Calling(w, "existing") =>
             \A g \in Reported(w) : work[w].got[g].ver >= row[g].ver

LEMMA RowAfter ==
    ASSUME NEW w \in Workers, Lock(w) \/ Statement(w)
    PROVE  row' = row \/ PutGroup(w) \/ DeleteGroup(w)
BY StatementCases DEF Lock, Unlock, GetJoinedGroups, GetAllGroups, GetGroupToUpdate, GetGroupToShare,
       UpdateSetting, DeleteSetting, MarkFresh, CallSkipped, Skip, CallAborts, cacheVars

\* The call that stores a row.
LEMMA PutFacts ==
    ASSUME Truth, Forms, NEW w \in Workers, PutGroup(w)
    PROVE  /\ work[w].calls # <<>> /\ This(w).op = "put" /\ This(w) \in Left(work[w].calls)
           /\ This(w).g \in Groups /\ This(w).row \in Rows /\ TrueRow(This(w).g, This(w).row)
           /\ row' = [row EXCEPT ![This(w).g] = This(w).row]
           /\ row'[This(w).g] = This(w).row
           /\ \A g \in Groups : g # This(w).g => row'[g] = row[g]
           /\ work[w].calls # Waiting
<1>1. work[w].calls # <<>> /\ This(w).op = "put" BY DEF PutGroup, Calling, This
<1>2. This(w).g \in Groups /\ This(w).row \in Rows /\ TrueRow(This(w).g, This(w).row)
  BY <1>1, HeadOfGroup
<1>3. This(w) \in Left(work[w].calls) BY <1>1, HeadForm
<1>4. row' = [row EXCEPT ![This(w).g] = This(w).row] BY DEF PutGroup
<1>5. work[w].calls # Waiting BY <1>1, WaitingHead DEF This
<1> QED BY <1>1, <1>2, <1>3, <1>4, <1>5 DEF Truth

LEMMA DeleteFacts ==
    ASSUME Truth, Forms, NEW w \in Workers, DeleteGroup(w)
    PROVE  /\ work[w].calls # <<>> /\ This(w).op = "del" /\ This(w) \in Left(work[w].calls)
           /\ This(w).g \in Groups
           /\ row'[This(w).g] = NoRow
           /\ \A g \in Groups : g # This(w).g => row'[g] = row[g]
           /\ work[w].calls # Waiting
<1>1. work[w].calls # <<>> /\ This(w).op = "del" BY DEF DeleteGroup, Calling, This
<1>2. This(w).g \in Groups BY <1>1, HeadOfGroup
<1>3. This(w) \in Left(work[w].calls) BY <1>1, HeadForm
<1>4. row' = [row EXCEPT ![This(w).g] = NoRow] BY DEF DeleteGroup
<1>5. work[w].calls # Waiting BY <1>1, WaitingHead DEF This
<1> QED BY <1>1, <1>2, <1>3, <1>4, <1>5 DEF Truth

\* Versions of rows.
LEMMA VersionFacts ==
    ASSUME Truth
    PROVE  /\ NoRow.ver = 0
           /\ \A g \in Groups : row[g] \in Rows /\ row[g].ver \in Nat
           /\ \A g \in Groups : server[g].ver \in Nat
           /\ \A g \in Groups : \A ver, eph : RowAt(g, ver, eph).ver = ver
           /\ \A r \in Rows : r.ver \in Nat
BY DEF Truth, NoRow, RowAt, Rows

LEMMA CallFacts ==
    ASSUME Truth, NEW w \in Workers, NEW c \in Left(work[w].calls)
    PROVE  /\ c \in CallsOf(work[w].job.kind)
           /\ c.op \in {"put", "del", "set", "unset"} => c.g \in Groups
           /\ c.op = "put" => TrueRow(c.g, c.row) /\ c.row \in Rows /\ c.row.ver \in Nat
<1> DEFINE S == CallsOf(work[w].job.kind)
           s == work[w].calls
<1>1. s \in Seq(S) BY WorkFacts
<1>2. c \in Left(s) OBVIOUS
<1> HIDE DEF S, s
<1>3. c \in S BY <1>1, <1>2 DEF Left
<1> QED BY <1>3 DEF S, CallsOf, TrueRow, Rows

LEMMA GotAfter ==
    ASSUME Truth, NEW w \in Workers, Lock(w) \/ Statement(w), ~GetJoinedGroups(w)
    PROVE  work'[w] = Idle \/ work'[w].got = work[w].got
<1>1. ASSUME NEW calls, Continue(w, calls) PROVE work'[w] = Idle \/ work'[w].got = work[w].got
  BY <1>1, ContinueWork
<1>2. CASE \/ Lock(w) \/ Unlock(w) \/ GetAllGroups(w) \/ GetGroupToUpdate(w) \/ GetGroupToShare(w)
           \/ UpdateSetting(w) \/ PutGroup(w) \/ DeleteSetting(w) \/ DeleteGroup(w) \/ MarkFresh(w)
  <2>1. \E calls : Continue(w, calls)
    BY <1>2 DEF Lock, Unlock, GetAllGroups, GetGroupToUpdate, GetGroupToShare, UpdateSetting,
                PutGroup, DeleteSetting, DeleteGroup, MarkFresh
  <2> QED BY <1>1, <2>1
<1>3. CASE CallSkipped(w) BY <1>3, SkippedWork
<1>4. CASE CallAborts(w) BY <1>4, AbortedWork
<1> QED BY StatementCases, <1>2, <1>3, <1>4

LEMMA StatementBounded ==
    ASSUME Truth, Forms, Bounded, NEW w \in Workers, Lock(w) \/ Statement(w)
    PROVE  Bounded'
<1>1. /\ \A v \in Workers \ {w} : work'[v] = work[v]
      /\ work'[w] = Idle \/ work'[w].job = work[w].job
      /\ server' = server /\ events' = events
  BY StatementWork
<1>2. /\ Idle.calls = <<>> /\ Left(<<>>) = {} /\ Idle.job.kind = "none"
      /\ \A g \in Groups : Idle.got[g] = NoRow
  <2>1. Left(<<>>) = {} BY DEF Left
  <2> QED BY <2>1 DEF Idle, Job
<1> SUFFICES ASSUME NEW g \in Groups
             PROVE  /\ row'[g].ver <= server[g].ver
                    /\ \A v \in Workers :
                         /\ work'[v].job.kind \in EventKinds /\ work'[v].job.g = g =>
                              work'[v].job.ver <= server[g].ver
                         /\ work'[v].got[g].ver <= server[g].ver
                         /\ \A c \in Left(work'[v].calls) :
                              c.op = "put" /\ c.g = g => c.row.ver <= server[g].ver
  BY <1>1 DEF Bounded
<1>3. row'[g].ver <= server[g].ver
  <2>1. CASE row' = row BY <2>1 DEF Bounded
  <2>2. CASE PutGroup(w)
    <3>1. CASE g = This(w).g
      <4>1. row'[g] = This(w).row /\ This(w) \in Left(work[w].calls) /\ This(w).op = "put"
        BY <2>2, <3>1, PutFacts
      <4> QED BY <3>1, <4>1 DEF Bounded
    <3>2. CASE g # This(w).g BY <2>2, <3>2, PutFacts DEF Bounded
    <3> QED BY <3>1, <3>2
  <2>3. CASE DeleteGroup(w)
    <3>1. row'[g] = NoRow \/ row'[g] = row[g] BY <2>3, DeleteFacts
    <3>2. NoRow.ver <= server[g].ver BY VersionFacts
    <3> QED BY <3>1, <3>2 DEF Bounded
  <2> QED BY <2>1, <2>2, <2>3, RowAfter
<1>4. work'[w].job.kind \in EventKinds /\ work'[w].job.g = g => work'[w].job.ver <= server[g].ver
  <2>1. "none" \notin EventKinds BY DEF EventKinds
  <2> QED BY <1>1, <1>2, <2>1 DEF Bounded
<1>5. work'[w].got[g].ver <= server[g].ver
  <2>1. CASE work'[w] = Idle BY <1>2, <2>1, VersionFacts
  <2>2. CASE GetJoinedGroups(w)
    <3>1. PICK none \in BOOLEAN :
            work'[w].got = [h \in Groups |-> IF server[h].in /\ ~none
                                              THEN RowAt(h, server[h].ver, server[h].eph) ELSE NoRow]
      BY <2>2, JoinedWork
    <3>2. work'[w].got[g] = RowAt(g, server[g].ver, server[g].eph) \/ work'[w].got[g] = NoRow BY <3>1
    <3>3. /\ RowAt(g, server[g].ver, server[g].eph).ver = server[g].ver
          /\ NoRow.ver = 0 /\ server[g].ver \in Nat
      BY VersionFacts
    <3> QED BY <3>2, <3>3
  <2>3. CASE work'[w].got = work[w].got BY <2>3 DEF Bounded
  <2> QED BY <2>1, <2>2, <2>3, GotAfter
<1>6. ASSUME NEW c \in Left(work'[w].calls), c.op = "put", c.g = g PROVE c.row.ver <= server[g].ver
  <2>1. CASE c \in Left(Rest(w))
    <3>1. c \in Left(work[w].calls) BY <2>1, StatementWork, HeadForm
    <3> QED BY <1>6, <3>1 DEF Bounded
  <2>2. CASE c = Call("put", c.g, work[w].got[c.g])
    <3>1. c.row = work[w].got[g] BY <1>6, <2>2, CallFields
    <3> QED BY <3>1 DEF Bounded
  <2>3. CASE GetGroupToUpdate(w) /\ c = Call("put", work[w].job.g, Renewed(w))
    <3>1. c.row = Renewed(w) /\ work[w].job.g = g BY <1>6, <2>3, CallFields
    <3>2. \/ work[w].job.kind = "people" /\ Renewed(w) = RowAt(g, work[w].job.ver, row[g].eph)
          \/ work[w].job.kind = "eph" /\ Renewed(w) = RowAt(g, row[g].ver, work[w].job.eph)
      BY <2>3, <3>1, RenewedRow
    <3>3. \/ work[w].job.kind = "people" /\ c.row.ver = work[w].job.ver
          \/ c.row.ver = row[g].ver
      BY <3>1, <3>2, VersionFacts
    <3> QED BY <3>1, <3>3 DEF Bounded, EventKinds
  <2>4. CASE c = Call("put", work[w].job.g, row[work[w].job.g])
    <3>1. c.row = row[g] BY <1>6, <2>4, CallFields
    <3> QED BY <3>1 DEF Bounded
  <2> QED BY <1>6, <2>1, <2>2, <2>3, <2>4, WritesAfter
<1> QED BY <1>1, <1>3, <1>4, <1>5, <1>6 DEF Bounded

LEMMA RequestBounded ==
    ASSUME Truth, Bounded, NEW w \in Workers, Request(w)
    PROVE  Bounded'
<1>1. PICK job \in TrueJobs, calls \in Seq(Calls), tangled \in BOOLEAN : Opens(w, job, calls, tangled)
  BY RequestCases
<1>b. Begin(w, job, calls, tangled) BY <1>1 DEF Opens
<1>c. \/ job.kind \in EventKinds \cup {"chat"} /\ calls = Plan(job)
      \/ job.kind = "fetch" /\ calls = <<Do("joined"), Do("unlock")>>
      \/ job.kind = "share" /\ calls = <<Do("peek")>>
      \/ job.kind = "share" /\ calls = <<Do("joined"), Do("unlock"), Do("peek")>>
  BY <1>1 DEF Opens
<1>e. \/ events' = events /\ job.kind \notin EventKinds
      \/ \E i \in DOMAIN events :
           /\ job = events[i]
           /\ events' = [j \in 1 .. Len(events) - 1 |-> events[IF j < i THEN j ELSE j + 1]]
  <2>1. CASE job.kind \in EventKinds
    <3>1. PICK i \in DOMAIN events :
            /\ job = events[i]
            /\ events' = [j \in 1 .. Len(events) - 1 |-> events[IF j < i THEN j ELSE j + 1]]
      BY <1>1, <2>1 DEF Opens
    <3> QED BY <3>1
  <2>2. CASE job.kind \notin EventKinds BY <1>1, <2>2 DEF Opens
  <2> QED BY <2>1, <2>2
<1>2. /\ work'[w].job = job /\ work'[w].calls = calls /\ work'[w].got = Idle.got
      /\ \A v \in Workers \ {w} :
           /\ work'[v].job = work[v].job /\ work'[v].calls = work[v].calls
           /\ work'[v].got = work[v].got
      /\ row' = row /\ server' = server
  BY <1>b, BeginWork
<1>3. events \in Seq(EventJobs) BY DEF Truth
<1>4. \A k \in DOMAIN events' : \E i \in DOMAIN events : events'[k] = events[i]
  <2>1. CASE events' = events BY <2>1
  <2>2. CASE \E i \in DOMAIN events :
               events' = [j \in 1 .. Len(events) - 1 |-> events[IF j < i THEN j ELSE j + 1]]
    <3>1. PICK i \in DOMAIN events :
            events' = [j \in 1 .. Len(events) - 1 |-> events[IF j < i THEN j ELSE j + 1]]
      BY <2>2
    <3>2. ASSUME NEW k \in DOMAIN events' PROVE \E m \in DOMAIN events : events'[k] = events[m]
      <4>1. k \in 1 .. Len(events) - 1 /\ Len(events) \in Nat /\ DOMAIN events = 1 .. Len(events)
        BY <1>3, <3>1, <3>2
      <4>2. events'[k] = events[IF k < i THEN k ELSE k + 1] BY <3>1, <4>1
      <4>3. (IF k < i THEN k ELSE k + 1) \in DOMAIN events BY <4>1
      <4> QED BY <4>2, <4>3
    <3> QED BY <3>2
  <2>3. events' = events \/ \E i \in DOMAIN events :
          events' = [j \in 1 .. Len(events) - 1 |-> events[IF j < i THEN j ELSE j + 1]]
    BY <1>e
  <2> QED BY <2>1, <2>2, <2>3
<1>5. job.kind \in EventKinds => \E i \in DOMAIN events : job = events[i] BY <1>e
<1> SUFFICES ASSUME NEW g \in Groups
             PROVE  /\ row[g].ver <= server[g].ver
                    /\ \A i \in DOMAIN events' : events'[i].g = g => events'[i].ver <= server[g].ver
                    /\ \A v \in Workers :
                         /\ work'[v].job.kind \in EventKinds /\ work'[v].job.g = g =>
                              work'[v].job.ver <= server[g].ver
                         /\ work'[v].got[g].ver <= server[g].ver
                         /\ \A c \in Left(work'[v].calls) :
                              c.op = "put" /\ c.g = g => c.row.ver <= server[g].ver
  BY <1>2 DEF Bounded
<1>6. \A i \in DOMAIN events' : events'[i].g = g => events'[i].ver <= server[g].ver
  BY <1>4 DEF Bounded
<1>7. job.kind \in EventKinds /\ job.g = g => job.ver <= server[g].ver BY <1>5 DEF Bounded
<1>8. Idle.got[g].ver <= server[g].ver
  <2>1. Idle.got[g] = NoRow BY DEF Idle
  <2> QED BY <2>1, VersionFacts
<1>9. ASSUME NEW c \in Left(calls), c.op = "put", c.g = g PROVE c.row.ver <= server[g].ver
  <2>1. \/ job.kind = "joined" /\ c = Call("put", job.g, RowAt(job.g, job.ver, job.eph))
        \/ c = Call("del", job.g, NoRow)
    BY <1>c, <1>9, OpeningWrites
  <2>2. job.kind = "joined" /\ job.g = g /\ c.row = RowAt(g, job.ver, job.eph)
    BY <1>9, <2>1, CallFields
  <2>3. c.row.ver = job.ver BY <2>2, VersionFacts
  <2> QED BY <1>7, <2>2, <2>3 DEF EventKinds
<1> QED BY <1>2, <1>6, <1>7, <1>8, <1>9 DEF Bounded

LEMMA ChangesBounded ==
    ASSUME Truth, Bounded, ServerChanges
    PROVE  Bounded'
<1>0. PICK h \in Groups : \E kind, now : Change(h, kind, now) /\ now.ver >= server[h].ver
  <2>1. PICK h \in Groups :
          LET is == server[h]
          IN  \/ Change(h, "joined", [is EXCEPT !.in = TRUE])
              \/ Change(h, "left", [is EXCEPT !.in = FALSE])
              \/ \E in \in BOOLEAN : Change(h, "people", [is EXCEPT !.in = in, !.ver = @ + 1])
              \/ Change(h, "eph", [is EXCEPT !.eph = ~@])
    BY DEF ServerChanges
  <2> DEFINE is == server[h]
  <2>2. is \in [in : BOOLEAN, ver : Nat, eph : BOOLEAN] BY DEF Truth
  <2> HIDE DEF is
  <2>3. /\ [is EXCEPT !.in = TRUE].ver >= is.ver /\ [is EXCEPT !.in = FALSE].ver >= is.ver
        /\ \A in \in BOOLEAN : [is EXCEPT !.in = in, !.ver = is.ver + 1].ver >= is.ver
        /\ [is EXCEPT !.eph = ~is.eph].ver >= is.ver
    BY <2>2
  <2> QED BY <2>1, <2>3 DEF is
<1>1. PICK kind, now : Change(h, kind, now) /\ now.ver >= server[h].ver BY <1>0
<1>2. /\ server' = [server EXCEPT ![h] = now]
      /\ events' = Append(events, Job(kind, h, now.ver, now.eph))
      /\ row' = row /\ work' = work
  BY <1>1 DEF Change, cacheVars
<1>3. Truth' BY ServerChangesKeep
<1>4. server'[h] = now /\ \A g \in Groups : g # h => server'[g] = server[g] BY <1>2 DEF Truth
<1>5. \A g \in Groups : server'[g].ver >= server[g].ver /\ server'[g].ver \in Nat /\ server[g].ver \in Nat
  <2>1. \A g \in Groups : server'[g].ver \in Nat /\ server[g].ver \in Nat BY <1>3 DEF Truth
  <2> QED BY <1>1, <1>4, <2>1
<1>6. events \in Seq(EventJobs) BY DEF Truth
<1>7. ASSUME NEW g \in Groups, NEW i \in DOMAIN events', events'[i].g = g
      PROVE  events'[i].ver <= server'[g].ver
  <2> DEFINE j == Job(kind, h, now.ver, now.eph)
  <2>1. j.g = h /\ j.ver = now.ver BY DEF Job
  <2> HIDE DEF j
  <2>2. events' = Append(events, j) BY <1>2 DEF j
  <2>3. events'[i] = j \/ (i \in DOMAIN events /\ events'[i] = events[i])
    <3>1. Len(events) \in Nat /\ DOMAIN events = 1 .. Len(events) BY <1>6
    <3>2. DOMAIN events' = 1 .. Len(events) + 1 BY <1>6, <2>2
    <3> QED BY <1>6, <2>2, <3>1, <3>2
  <2>4. CASE events'[i] = j BY <1>4, <1>5, <1>7, <2>1, <2>4
  <2>5. CASE i \in DOMAIN events /\ events'[i] = events[i]
    <3>1. events[i].ver <= server[g].ver BY <1>7, <2>5 DEF Bounded
    <3>2. events[i].ver \in Nat BY <1>6, <2>5 DEF EventJobs, TrueJobs, Jobs
    <3> QED BY <1>5, <2>5, <3>1, <3>2
  <2> QED BY <2>3, <2>4, <2>5
<1>8. \A m \in Nat, g \in Groups : m <= server[g].ver => m <= server'[g].ver BY <1>5
<1>9. ASSUME NEW g \in Groups, NEW w \in Workers
      PROVE  /\ work[w].job.kind \in EventKinds /\ work[w].job.g = g => work[w].job.ver <= server'[g].ver
             /\ work[w].got[g].ver <= server'[g].ver
             /\ \A c \in Left(work[w].calls) : c.op = "put" /\ c.g = g => c.row.ver <= server'[g].ver
  <2>1. work[w].job.ver \in Nat /\ work[w].got[g].ver \in Nat
    BY WorkFacts DEF TrueJobs, Jobs, Rows
  <2>2. \A c \in Left(work[w].calls) : c.op = "put" => c.row.ver \in Nat BY CallFacts
  <2> QED BY <1>8, <2>1, <2>2 DEF Bounded
<1>10. \A g \in Groups : row[g].ver <= server'[g].ver BY <1>8, VersionFacts DEF Bounded
<1> QED BY <1>2, <1>7, <1>9, <1>10 DEF Bounded

LEMMA StepKeepsBounded == Truth /\ Forms /\ Bounded /\ [Next]_vars => Bounded'
<1> SUFFICES ASSUME Truth, Forms, Bounded, [Next]_vars PROVE Bounded' OBVIOUS
<1>1. ASSUME NEW w \in Workers, Request(w) PROVE Bounded' BY <1>1, RequestBounded
<1>2. ASSUME NEW w \in Workers, Lock(w) \/ Statement(w) PROVE Bounded' BY <1>2, StatementBounded
<1>3. CASE ServerChanges BY <1>3, ChangesBounded
<1>4. CASE Age \/ UNCHANGED vars
  <2>1. row' = row /\ server' = server /\ events' = events /\ work' = work
    BY <1>4 DEF Age, vars, cacheVars, serverVars
  <2> QED BY <2>1 DEF Bounded
<1>5. CASE Restart
  <2>1. /\ row' = row /\ server' = server /\ events' = <<>>
        /\ work' = [w \in Workers |-> Idle]
    BY <1>5 DEF Restart, serverVars
  <2>2. /\ Left(<<>>) = {} /\ Idle.calls = <<>> /\ Idle.job.kind \notin EventKinds
        /\ \A g \in Groups : Idle.got[g] = NoRow
    BY ShortSequences DEF Idle, Job, EventKinds
  <2>3. \A g \in Groups : NoRow.ver <= server[g].ver BY VersionFacts
  <2>4. DOMAIN <<>> = {} OBVIOUS
  <2> QED BY <2>1, <2>2, <2>3, <2>4 DEF Bounded
<1> QED BY <1>1, <1>2, <1>3, <1>4, <1>5 DEF Next

LEMMA InitBounded == Init => Bounded
<1> SUFFICES ASSUME Init PROVE Bounded OBVIOUS
<1>1. Truth BY InitIsTrue
<1>2. /\ Left(<<>>) = {} /\ Idle.calls = <<>> /\ Idle.job.kind \notin EventKinds
      /\ \A g \in Groups : Idle.got[g] = NoRow
  BY ShortSequences DEF Idle, Job, EventKinds
<1>3. \A g \in Groups : NoRow.ver <= server[g].ver BY <1>1, VersionFacts
<1>4. \A g \in Groups : row[g].ver <= server[g].ver
  <2> TAKE g \in Groups
  <2>1. row[g] = RowAt(g, 1, FALSE) \/ row[g] = NoRow BY DEF Init
  <2>2. RowAt(g, 1, FALSE).ver = 1 BY <1>1, VersionFacts
  <2>3. server[g].ver = 1 BY DEF Init
  <2>4. row[g].ver = 1 \/ row[g] = NoRow BY <2>1, <2>2
  <2>5. 1 <= 1 OBVIOUS
  <2> QED BY <1>3, <2>3, <2>4, <2>5
<1>5. events = <<>> /\ work = [w \in Workers |-> Idle] /\ DOMAIN <<>> = {} BY DEF Init
<1> QED BY <1>2, <1>3, <1>4, <1>5 DEF Bounded

\* Who has nothing left, or waits for the lock, writes nothing.
LEMMA NothingToWrite ==
    \A s \in {<<>>, Waiting} :
        /\ \A c \in Left(s) : c.op \in {"lock", "load", "unlock"}
        /\ s # <<>> => Head(s).op = "lock"
<1> DEFINE x == Do("lock")
           y == Do("load")
           z == Do("unlock")
<1>1. x.op = "lock" /\ y.op = "load" /\ z.op = "unlock" BY DoFacts
<1>2. Waiting = <<x, y, z>> BY DEF Waiting
<1> HIDE DEF x, y, z
<1>3. Before(x, y) /\ Before(x, z) /\ Before(y, z) BY <1>1 DEF Before
<1>4. Left(<<x, y, z>>) = {x, y, z} BY <1>3, ThreeCalls
<1>5. Left(<<>>) = {} BY ShortSequences
<1>6. Head(<<x, y, z>>) = x OBVIOUS
<1> QED BY <1>1, <1>2, <1>4, <1>5, <1>6

\* Nobody else writes a row while a worker is at work that is alone, or while a group is sure.
LEMMA OthersKeepRows ==
    ASSUME Discipline, NEW v \in Workers, work[v].calls # <<>>, work[v].calls # Waiting,
           work[v].alone \/ \E g \in Groups : g \notin unsure,
           NEW w \in Workers \ {v}, Lock(w) \/ Statement(w)
    PROVE  row' = row
<1>1. Truth /\ Sections /\ Forms /\ Held /\ Apart /\ Sure BY DEF Discipline
<1>2. work[w].calls \in {<<>>, Waiting} BY <1>1, Quiet
<1>3. ~PutGroup(w) BY <1>1, <1>2, PutFacts
<1>4. ~DeleteGroup(w) BY <1>1, <1>2, DeleteFacts
<1> QED BY <1>3, <1>4, RowAfter

\* Worker w is not ahead.
AheadOf(w) ==
    work[w].alone /\ work[w].job.kind \notin Unlocked =>
        /\ \A c \in Left(work[w].calls) : c.op = "put" => c.row.ver >= row[c.g].ver
        /\ Calling(w, "existing") =>
             \A g \in Reported(w) : work[w].got[g].ver >= row[g].ver

LEMMA StatementAhead ==
    ASSUME Discipline, Bounded, Ahead, NEW w \in Workers, Lock(w) \/ Statement(w)
    PROVE  Ahead'
<1>0. Truth /\ Sections /\ Forms BY DEF Discipline
<1>1. /\ work[w].calls # <<>>
      /\ \A v \in Workers \ {w} : work'[v] = work[v]
      /\ work'[w] = Idle \/ (work'[w].job = work[w].job /\ (work'[w].alone => work[w].alone))
      /\ server' = server
  BY <1>0, StatementWork
<1>2. ASSUME NEW v \in Workers \ {w} PROVE AheadOf(v)'
  <2> SUFFICES ASSUME work[v].alone, work[v].job.kind \notin Unlocked
               PROVE  /\ \A c \in Left(work[v].calls) : c.op = "put" => c.row.ver >= row'[c.g].ver
                      /\ Calling(v, "existing") =>
                           \A g \in Reported(v) : work[v].got[g].ver >= row'[g].ver
    BY <1>1 DEF AheadOf, Calling, Reported
  <2>1. CASE work[v].calls \in {<<>>, Waiting} BY <2>1, NothingToWrite DEF Calling
  <2>2. CASE work[v].calls \notin {<<>>, Waiting}
    <3>1. row' = row BY <2>2, OthersKeepRows
    <3> QED BY <3>1 DEF Ahead
  <2> QED BY <2>1, <2>2
<1>3. AheadOf(w)'
  <2>1. CASE work'[w] = Idle
    <3>1. Left(<<>>) = {} /\ Idle.calls = <<>> BY ShortSequences DEF Idle
    <3> QED BY <2>1, <3>1 DEF AheadOf, Calling
  <2>2. CASE work'[w] # Idle /\ work'[w].alone /\ work'[w].job.kind \notin Unlocked
    <3>1. work[w].alone /\ work[w].job.kind \notin Unlocked BY <1>1, <2>2
    <3>2. \A c \in Left(work[w].calls) : c.op = "put" => c.row.ver >= row[c.g].ver BY <3>1 DEF Ahead
    <3>3. ASSUME NEW c \in Left(work'[w].calls), c.op = "put" PROVE c.row.ver >= row'[c.g].ver
      <4>1. CASE c \in Left(Rest(w))
        <5>1. c \in Left(work[w].calls) /\ Before(This(w), c) BY <1>0, <1>1, <4>1, HeadForm
        <5>2. c.row.ver \in Nat /\ c.g \in Groups BY <1>0, <3>3, <5>1, CallFacts
        <5>3. CASE row' = row BY <3>2, <3>3, <5>1, <5>3
        <5>4. CASE PutGroup(w)
          <6>1. CASE This(w).g = c.g
            <7>1. This(w).op = "put" /\ row'[This(w).g] = This(w).row BY <1>0, <5>4, PutFacts
            <7>2. This(w).row = c.row BY <3>3, <5>1, <6>1, <7>1 DEF Before
            <7> QED BY <5>2, <6>1, <7>1, <7>2
          <6>2. CASE This(w).g # c.g
            <7>1. row'[c.g] = row[c.g] BY <1>0, <5>2, <5>4, <6>2, PutFacts
            <7> QED BY <3>2, <3>3, <5>1, <7>1
          <6> QED BY <6>1, <6>2
        <5>5. CASE DeleteGroup(w)
          <6>1. row'[c.g] = NoRow \/ row'[c.g] = row[c.g] BY <1>0, <5>2, <5>5, DeleteFacts
          <6>2. NoRow.ver = 0 BY <1>0, VersionFacts
          <6> QED BY <3>2, <3>3, <5>1, <5>2, <6>1, <6>2
        <5> QED BY <1>0, <5>3, <5>4, <5>5, RowAfter
      <4>2. CASE GetAllGroups(w) /\ c.g \in Reported(w) /\ c = Call("put", c.g, work[w].got[c.g])
        <5>1. row' = row /\ Calling(w, "existing") BY <4>2 DEF GetAllGroups, cacheVars
        <5>2. c.row = work[w].got[c.g] BY <4>2, CallFields
        <5> QED BY <3>1, <4>2, <5>1, <5>2 DEF Ahead
      <4>3. CASE GetGroupToUpdate(w) /\ c = Call("put", work[w].job.g, Renewed(w))
        <5>1. row' = row BY <4>3 DEF GetGroupToUpdate, cacheVars
        <5>2. c.row = Renewed(w) /\ c.g = work[w].job.g BY <4>3, CallFields
        <5>3. Renewed(w).ver >= row[work[w].job.g].ver BY <1>0, <4>3, RenewedRow
        <5> QED BY <5>1, <5>2, <5>3
      <4>4. work[w].job.kind # "share" BY <3>1 DEF Unlocked
      <4> QED BY <1>0, <3>3, <4>1, <4>2, <4>3, <4>4, WritesAfter
    <3>4. ASSUME Calling(w, "existing")', NEW g \in Reported(w)' PROVE work'[w].got[g].ver >= row'[g].ver
      <4> DEFINE s == work'[w].calls
      <4>1. s # <<>> /\ Head(s).op = "existing" BY <3>4 DEF Calling
      <4>2. s \in Seq(Calls)
        <5>1. Truth' BY <1>0, StepKeepsTruth DEF Next
        <5> QED BY <5>1 DEF Truth, TrueWorks
      <4> HIDE DEF s
      <4>3. Head(s) \in Left(s) BY <4>1, <4>2, LeftTail
      <4>4. GetJoinedGroups(w) 
        <5>1. \/ Head(s).op # "existing" \/ GetJoinedGroups(w)
              \/ Head(s) = Call("put", work[w].job.g, Renewed(w))
              \/ Head(s) = Call("put", work[w].job.g, row[work[w].job.g])
          BY <1>0, <4>1, <4>3, WritesAfter DEF s
        <5> QED BY <4>1, <5>1, CallFields
      <4>5. PICK none \in BOOLEAN :
              work'[w].got = [h \in Groups |-> IF server[h].in /\ ~none
                                                THEN RowAt(h, server[h].ver, server[h].eph) ELSE NoRow]
        BY <1>0, <4>4, JoinedWork
      <4>6. g \in Groups /\ work'[w].got[g] # NoRow BY DEF Reported
      <4>7. work'[w].got[g] = RowAt(g, server[g].ver, server[g].eph) BY <4>5, <4>6
      <4>8. work'[w].got[g].ver = server[g].ver BY <1>0, <4>6, <4>7, VersionFacts
      <4>9. row' = row BY <4>4 DEF GetJoinedGroups, cacheVars
      <4>10. row[g].ver \in Nat /\ server[g].ver \in Nat BY <1>0, <4>6, VersionFacts
      <4> QED BY <4>6, <4>8, <4>9, <4>10 DEF Bounded
    <3> QED BY <3>3, <3>4 DEF AheadOf
  <2> QED BY <2>1, <2>2 DEF AheadOf
<1>4. \A v \in Workers : AheadOf(v)' BY <1>2, <1>3
<1> QED BY <1>4 DEF Ahead, AheadOf

LEMMA RequestAhead ==
    ASSUME Discipline, Ahead, NEW w \in Workers, Request(w)
    PROVE  Ahead'
<1>0. Truth BY DEF Discipline
<1>1. PICK job \in TrueJobs, calls \in Seq(Calls), tangled \in BOOLEAN : Opens(w, job, calls, tangled)
  BY <1>0, RequestCases
<1>2. Begin(w, job, calls, tangled) BY <1>1 DEF Opens
<1>3. \/ job.kind \in EventKinds \cup {"chat"} /\ calls = Plan(job)
      \/ job.kind = "fetch" /\ calls = <<Do("joined"), Do("unlock")>>
      \/ job.kind = "share" /\ calls = <<Do("peek")>>
      \/ job.kind = "share" /\ calls = <<Do("joined"), Do("unlock"), Do("peek")>>
  BY <1>1 DEF Opens
<1> DEFINE mixed == tangled \/ \E v \in Busy : Conflict(job, work[v].job)
<1>a. /\ work'[w].job = job /\ work'[w].calls = calls
      /\ \A v \in Workers \ {w} :
           /\ work'[v].job = work[v].job /\ work'[v].calls = work[v].calls
           /\ work'[v].got = work[v].got
           /\ work'[v].alone = (work[v].alone /\ (v \notin Busy \/ ~mixed))
      /\ row' = row
  BY <1>0, <1>2, BeginWork
<1> HIDE DEF mixed
<1>4. /\ work'[w].job = job /\ work'[w].calls = calls
      /\ \A v \in Workers \ {w} :
           /\ work'[v].job = work[v].job /\ work'[v].calls = work[v].calls
           /\ work'[v].got = work[v].got /\ (work'[v].alone => work[v].alone)
      /\ row' = row
  BY <1>a
<1>5. ASSUME NEW v \in Workers \ {w} PROVE AheadOf(v)'
  <2>1. /\ work'[v].job = work[v].job /\ work'[v].calls = work[v].calls
        /\ work'[v].got = work[v].got /\ (work'[v].alone => work[v].alone)
    BY <1>4
  <2>2. Reported(v)' = Reported(v) BY <2>1 DEF Reported
  <2>3. Calling(v, "existing")' = Calling(v, "existing") BY <2>1 DEF Calling
  <2>4. AheadOf(v) BY DEF Ahead, AheadOf
  <2> QED BY <1>4, <2>1, <2>2, <2>3, <2>4 DEF AheadOf
<1>6. ASSUME job.kind \notin Unlocked
      PROVE  /\ \A c \in Left(calls) : c.op # "put"
             /\ Head(calls).op # "existing"
  <2>1. ASSUME NEW c \in Left(calls), c.op = "put" PROVE FALSE
    <3>1. job.kind = "joined" \/ c = Call("del", job.g, NoRow) BY <1>3, <2>1, OpeningWrites
    <3> QED BY <1>6, <2>1, <3>1, CallFields DEF Unlocked
  <2>2. CASE job.kind \in EventKinds \cup {"chat"} /\ calls = Plan(job)
    <3>1. job.kind \in {"people", "eph"} BY <1>6, <2>2 DEF EventKinds, Unlocked
    <3>2. calls = Waiting BY <2>2, <3>1 DEF Plan, Waiting
    <3> QED BY <2>1, <3>2, NothingToWrite, WaitingHead
  <2>3. CASE calls = <<Do("joined"), Do("unlock")>>
    <3>1. Head(calls) = Do("joined") BY <2>3
    <3> QED BY <2>1, <3>1, DoFacts
  <2>4. job.kind # "share" BY <1>6 DEF Unlocked
  <2> QED BY <1>3, <2>2, <2>3, <2>4
<1>7. AheadOf(w)' BY <1>4, <1>6 DEF AheadOf, Calling
<1>8. \A v \in Workers : AheadOf(v)' BY <1>5, <1>7
<1> QED BY <1>8 DEF Ahead, AheadOf

LEMMA StepKeepsAhead == Discipline /\ Bounded /\ Ahead /\ [Next]_vars => Ahead'
<1> SUFFICES ASSUME Discipline, Bounded, Ahead, [Next]_vars PROVE Ahead' OBVIOUS
<1>1. ASSUME NEW w \in Workers, Request(w) PROVE Ahead' BY <1>1, RequestAhead
<1>2. ASSUME NEW w \in Workers, Lock(w) \/ Statement(w) PROVE Ahead' BY <1>2, StatementAhead
<1>3. CASE ServerChanges \/ Age \/ UNCHANGED vars
  <2>1. row' = row /\ work' = work
    BY <1>3 DEF ServerChanges, Change, Age, vars, cacheVars
  <2> QED BY <2>1 DEF Ahead, Calling, Reported
<1>4. CASE Restart
  <2>1. work' = [w \in Workers |-> Idle] BY <1>4 DEF Restart
  <2>2. Left(<<>>) = {} /\ Idle.calls = <<>> BY ShortSequences DEF Idle
  <2> QED BY <2>1, <2>2 DEF Ahead, Calling
<1> QED BY <1>1, <1>2, <1>3, <1>4 DEF Next

LEMMA InitAhead == Init => Ahead
<1> SUFFICES ASSUME Init PROVE Ahead OBVIOUS
<1>1. work = [w \in Workers |-> Idle] BY DEF Init
<1>2. Left(<<>>) = {} /\ Idle.calls = <<>> BY ShortSequences DEF Idle
<1> QED BY <1>1, <1>2 DEF Ahead, Calling

\* Nobody is alone who has an older row to put than the one that is stored: a put by a
\* worker that holds the lock, or ran next to none that does not ask for it, never takes a
\* stored group back to an older version.
THEOREM RowsOnlyGrow == Spec => VersionsOnlyGrow
<1> DEFINE Inv == Discipline /\ Bounded /\ Ahead
           Grows == \A w \in Workers :
                      (PutGroup(w) /\ work[w].alone /\ work[w].job.kind \notin Unlocked) =>
                        LET g == This(w).g
                        IN  row[g] # NoRow => row'[g].ver >= row[g].ver
<1>1. Init => Inv BY InitDiscipline, InitBounded, InitAhead
<1>2. Inv /\ [Next]_vars => Inv'
  BY StepKeepsDiscipline, StepKeepsBounded, StepKeepsAhead DEF Discipline
<1>3. Inv => Grows
  <2> SUFFICES ASSUME Inv, NEW w \in Workers, PutGroup(w), work[w].alone,
                      work[w].job.kind \notin Unlocked
               PROVE  row'[This(w).g].ver >= row[This(w).g].ver
    OBVIOUS
  <2>1. Truth /\ Forms BY DEF Discipline
  <2>2. This(w) \in Left(work[w].calls) /\ This(w).op = "put" /\ row'[This(w).g] = This(w).row
    BY <2>1, PutFacts
  <2> QED BY <2>2 DEF Ahead
<1>4. Inv => [Grows]_vars BY <1>3
<1> HIDE DEF Inv
<1>5. Spec => [][Grows]_vars BY <1>1, <1>2, <1>4, PTL DEF Spec
<1> QED BY <1>5 DEF VersionsOnlyGrow

-----------------------------------------------------------------------------
(* Refreshes *)

\* Worker w writes what WhatsApp reported; group g is written by calls that are left.
Refreshing(w) == work[w].job.kind # "left" /\ Marking(work[w].calls)
Owed(calls, g) == \E c \in Left(calls) : c.op \in {"put", "del"} /\ c.g = g

\* Inductive, given the discipline: what a refresh does not write any more is stored as
\* reported, if the worker is alone or the group is sure.
Progress ==
    \A w \in Workers, g \in Groups :
        Refreshing(w) /\ (work[w].alone \/ g \notin unsure) =>
            Owed(work[w].calls, g) \/ row[g] = work[w].got[g]

\* One call of a refresh.
LEMMA RefreshGoesOn ==
    ASSUME Discipline, Progress, NEW w \in Workers, NEW g \in Groups, Refreshing(w),
           \/ Plain(w) /\ (work[w].alone \/ g \notin unsure)
           \/ CallSkipped(w) /\ g \notin unsure /\ g # This(w).g
    PROVE  Owed(Rest(w), g) \/ row'[g] = work[w].got[g]
<1>0. Truth /\ Forms BY DEF Discipline
<1>1. /\ Lock(w) \/ Statement(w)
      /\ work[w].calls # <<>>
  BY PlainFacts DEF Plain, Statement, CallSkipped
<1>2. Owed(work[w].calls, g) \/ row[g] = work[w].got[g] BY DEF Progress
<1>3. Form(work[w].job, work[w].calls, work[w].got) /\ Left(work[w].calls) = {This(w)} \cup Left(Rest(w))
  BY <1>0, <1>1, HeadForm
<1>4. \A c \in Left(work[w].calls) : /\ c.op = "put" => c.row = work[w].got[c.g]
                                     /\ c.op = "del" => work[w].got[c.g] = NoRow
  BY <1>3 DEF Form, Refreshing
<1>5. CASE PutGroup(w)
  <2>1. /\ This(w).op = "put" /\ row'[This(w).g] = This(w).row /\ This(w) \in Left(work[w].calls)
        /\ g # This(w).g => row'[g] = row[g]
    BY <1>0, <1>5, PutFacts
  <2>2. CASE g = This(w).g BY <1>4, <2>1, <2>2
  <2>3. CASE g # This(w).g BY <1>2, <1>3, <2>1, <2>3 DEF Owed
  <2> QED BY <2>2, <2>3
<1>6. CASE DeleteGroup(w)
  <2>1. /\ This(w).op = "del" /\ row'[This(w).g] = NoRow /\ This(w) \in Left(work[w].calls)
        /\ g # This(w).g => row'[g] = row[g]
    BY <1>0, <1>6, DeleteFacts
  <2>2. CASE g = This(w).g BY <1>4, <2>1, <2>2
  <2>3. CASE g # This(w).g BY <1>2, <1>3, <2>1, <2>3 DEF Owed
  <2> QED BY <2>2, <2>3
<1>7. CASE CallSkipped(w) /\ g # This(w).g
  <2>1. row' = row BY <1>7 DEF CallSkipped, Skip, cacheVars
  <2> QED BY <1>2, <1>3, <1>7, <2>1 DEF Owed
<1>8. CASE Unlock(w) \/ UpdateSetting(w) \/ DeleteSetting(w) \/ MarkFresh(w)
  <2>1. row' = row /\ This(w).op \notin {"put", "del"}
    BY <1>8 DEF Unlock, UpdateSetting, DeleteSetting, MarkFresh, Calling, This, cacheVars
  <2> QED BY <1>2, <1>3, <2>1 DEF Owed
<1> QED BY <1>5, <1>6, <1>7, <1>8 DEF Plain

\* What a refresh sets out to write.
LEMMA RefreshBegins ==
    ASSUME Truth, Forms, NEW w \in Workers, NEW g \in Groups, GetAllGroups(w)
    PROVE  /\ Owed(work'[w].calls, g) \/ (row[g] = work[w].got[g] /\ row[g] = NoRow)
           /\ row' = row /\ Calling(w, "existing")
<1> DEFINE got == work[w].got
           stale == {h \in Groups : row[h] # NoRow} \ Reported(w)
           sets == {Call("set", h, got[h]) : h \in Reported(w)}
           puts == {Call("put", h, got[h]) : h \in Reported(w)}
           unsets == {Call("unset", h, NoRow) : h \in stale}
           dels == {Call("del", h, NoRow) : h \in stale}
           mark == IF Reported(w) = {} THEN {} ELSE {Do("mark")}
<1>1. PICK calls : /\ Continue(w, calls)
                   /\ Left(calls) = sets \cup puts \cup unsets \cup dels \cup mark \cup Left(Rest(w))
  BY RefreshedWork
<1>2. work'[w].calls = calls
  <2>1. Idle.calls = <<>> BY DEF Idle
  <2> QED BY <1>1, <2>1, ContinueWork
<1>3. CASE g \in Reported(w)
  <2>1. Call("put", g, got[g]) \in Left(calls) BY <1>1, <1>3
  <2> QED BY <1>2, <2>1, CallFields DEF Owed, GetAllGroups, cacheVars
<1>4. CASE g \in stale
  <2>1. Call("del", g, NoRow) \in Left(calls) BY <1>1, <1>4
  <2> QED BY <1>2, <2>1, CallFields DEF Owed, GetAllGroups, cacheVars
<1>5. CASE g \notin Reported(w) /\ g \notin stale
  <2>1. got[g] = NoRow /\ row[g] = NoRow BY <1>5 DEF Reported
  <2> QED BY <2>1 DEF GetAllGroups, cacheVars
<1> QED BY <1>3, <1>4, <1>5

\* Where a refresh comes from.
LEMMA RefreshFrom ==
    ASSUME Truth, Forms, NEW w \in Workers, Lock(w) \/ Statement(w), Refreshing(w)'
    PROVE  /\ work'[w].job = work[w].job /\ work'[w].got = work[w].got
           /\ \/ Refreshing(w) /\ work'[w].calls = Rest(w) /\ (Plain(w) \/ CallSkipped(w))
              \/ GetAllGroups(w)
<1>1. PICK c \in Left(work'[w].calls) : c.op \in {"mark", "del"} BY DEF Refreshing, Marking
<1>2. work'[w] # Idle
  <2>1. Idle.calls = <<>> /\ Left(<<>>) = {} BY ShortSequences DEF Idle
  <2> QED BY <1>1, <2>1
<1>3. work'[w].job = work[w].job /\ work[w].calls # <<>> BY <1>2, StatementWork
<1>4. \/ /\ c \in Left(Rest(w)) /\ work'[w].got = work[w].got /\ work'[w].calls = Rest(w)
         /\ Plain(w) \/ CallSkipped(w)
      \/ GetAllGroups(w) /\ work'[w].got = work[w].got
  <2>1. \A g, r : Call("put", g, r) # c BY <1>1, CallFields
  <2> QED BY <1>1, <2>1, WritesAfter
<1>5. c \in Left(Rest(w)) => c \in Left(work[w].calls) BY <1>3, HeadForm
<1> QED BY <1>1, <1>3, <1>4, <1>5 DEF Refreshing, Marking

LEMMA StatementProgress ==
    ASSUME Discipline, Progress, NEW w \in Workers, Lock(w) \/ Statement(w)
    PROVE  Progress'
<1>0. Truth /\ Sections /\ Forms /\ Held /\ Apart /\ Sure BY DEF Discipline
<1>1. \A v \in Workers \ {w} : work'[v] = work[v] BY <1>0, StatementWork
<1> SUFFICES ASSUME NEW v \in Workers, NEW g \in Groups, Refreshing(v)',
                    work'[v].alone \/ g \notin unsure'
             PROVE  Owed(work'[v].calls, g) \/ row'[g] = work'[v].got[g]
  BY DEF Progress
<1>2. CASE v # w
  <2>1. Refreshing(v) /\ work'[v] = work[v] BY <1>1, <1>2 DEF Refreshing
  <2>2. work[v].calls # <<>> /\ work[v].calls # Waiting
    <3>1. PICK c \in Left(work[v].calls) : c.op \in {"mark", "del"} BY <2>1 DEF Refreshing, Marking
    <3> QED BY <3>1, NothingToWrite
  <2>3. work[v].alone \/ g \notin unsure
    <3>1. CASE g \in unsure /\ g \notin unsure'
      <4>1. MarkFresh(w) /\ work[w].alone BY <1>0, <3>1, UnsureAfter
      <4>2. work[w].calls # <<>> /\ This(w).op = "mark" BY <4>1 DEF MarkFresh, Calling, This
      <4>3. work[w].calls # Waiting BY <4>2, WaitingHead DEF This
      <4> QED BY <1>0, <1>2, <2>2, <4>1, <4>2, <4>3, Quiet
    <3> QED BY <2>1, <3>1
  <2>4. row' = row BY <1>2, <2>2, <2>3, OthersKeepRows
  <2> QED BY <2>1, <2>3, <2>4 DEF Progress
<1>3. CASE v = w
  <2>1. /\ work'[w].job = work[w].job /\ work'[w].got = work[w].got
        /\ \/ Refreshing(w) /\ work'[w].calls = Rest(w) /\ (Plain(w) \/ CallSkipped(w))
           \/ GetAllGroups(w)
    BY <1>0, <1>3, RefreshFrom
  <2>2. CASE GetAllGroups(w) BY <1>0, <1>3, <2>1, <2>2, RefreshBegins
  <2>3. CASE Refreshing(w) /\ work'[w].calls = Rest(w) /\ CallSkipped(w)
    <3>1. Rest(w) # <<>>
      <4>1. Left(<<>>) = {} BY ShortSequences
      <4> QED BY <1>3, <2>3, <4>1 DEF Refreshing, Marking
    <3>2. ~work'[w].alone BY <1>0, <2>3, <3>1, SkippedWork
    <3>3. g \notin unsure /\ g # This(w).g BY <1>3, <2>3, <3>2 DEF CallSkipped, Skip
    <3> QED BY <1>3, <2>1, <2>3, <3>3, RefreshGoesOn
  <2>4. CASE Refreshing(w) /\ work'[w].calls = Rest(w) /\ Plain(w)
    <3>1. work[w].alone \/ g \notin unsure
      <4>1. work'[w].alone => work[w].alone
        <5>1. work'[w] # Idle
          <6>1. Idle.calls = <<>> /\ Left(<<>>) = {} BY ShortSequences DEF Idle
          <6> QED BY <1>3, <6>1 DEF Refreshing, Marking
        <5> QED BY <1>0, <5>1, StatementWork
      <4>2. g \in unsure /\ g \notin unsure' => work[w].alone BY <1>0, UnsureAfter
      <4> QED BY <1>3, <4>1, <4>2
    <3> QED BY <1>3, <2>1, <2>4, <3>1, RefreshGoesOn
  <2> QED BY <2>1, <2>2, <2>3, <2>4
<1> QED BY <1>2, <1>3

\* Nobody begins a refresh by opening a job.
LEMMA OpeningReads ==
    ASSUME NEW job \in TrueJobs, NEW calls,
           \/ job.kind \in EventKinds \cup {"chat"} /\ calls = Plan(job)
           \/ job.kind = "fetch" /\ calls = <<Do("joined"), Do("unlock")>>
           \/ job.kind = "share" /\ calls = <<Do("peek")>>
           \/ job.kind = "share" /\ calls = <<Do("joined"), Do("unlock"), Do("peek")>>
    PROVE  /\ ~(job.kind # "left" /\ Marking(calls))
           /\ calls # <<>> /\ Head(calls).op \notin {"existing", "put"}
<1> DEFINE j == Do("joined")
           u == Do("unlock")
           p == Do("peek")
<1>1. j.op = "joined" /\ u.op = "unlock" /\ p.op = "peek" BY DoFacts
<1>2. CASE calls \in {<<j, u>>, <<p>>, <<j, u, p>>}
  <2> HIDE DEF j, u, p
  <2>1. Before(j, u) /\ Before(j, p) /\ Before(u, p) BY <1>1 DEF Before
  <2>2. Left(<<j, u>>) = {j, u} /\ Left(<<p>>) = {p} BY ShortSequences
  <2>3. Left(<<j, u, p>>) = {j, u, p} BY <2>1, ThreeCalls
  <2>4. Head(calls) \in {j, p} /\ calls # <<>> BY <1>2
  <2>5. \A c \in Left(calls) : c.op \in {"joined", "unlock", "peek"} BY <1>1, <1>2, <2>2, <2>3
  <2> QED BY <1>1, <2>4, <2>5 DEF Marking
<1>3. CASE job.kind = "joined" /\ calls = Plan(job)
  <2> DEFINE x == Call("set", job.g, RowAt(job.g, job.ver, job.eph))
             y == Call("put", job.g, RowAt(job.g, job.ver, job.eph))
  <2>1. calls = <<x, y>> BY <1>3 DEF Plan
  <2>2. x.op = "set" /\ y.op = "put" BY CallFields
  <2> HIDE DEF x, y
  <2>3. Left(<<x, y>>) = {x, y} BY ShortSequences
  <2> QED BY <2>1, <2>2, <2>3 DEF Marking
<1>4. CASE job.kind = "left" /\ calls = Plan(job)
  <2> DEFINE x == Call("unset", job.g, NoRow)
             y == Call("del", job.g, NoRow)
  <2>1. calls = <<x, y>> BY <1>4 DEF Plan
  <2>2. x.op = "unset" BY CallFields
  <2> HIDE DEF x, y
  <2> QED BY <1>4, <2>1, <2>2
<1>5. CASE job.kind = "chat" /\ calls = Plan(job)
  <2> DEFINE x == Call("set", job.g, [NoRow EXCEPT !.eph = job.eph])
  <2>1. calls = <<x>> BY <1>5 DEF Plan
  <2>2. x.op = "set" BY CallFields
  <2> HIDE DEF x
  <2>3. Left(<<x>>) = {x} BY ShortSequences
  <2> QED BY <2>1, <2>2, <2>3 DEF Marking
<1>6. CASE job.kind \in {"people", "eph"} /\ calls = Plan(job)
  <2>1. calls = Waiting BY <1>6 DEF Plan, Waiting
  <2> QED BY <2>1, NothingToWrite, WaitingHead DEF Marking
<1> HIDE DEF j, u, p
<1> QED BY <1>2, <1>3, <1>4, <1>5, <1>6 DEF EventKinds, j, u, p

\* What the beginning of a job changes, and what not.
LEMMA RequestWork ==
    ASSUME Truth, NEW w \in Workers, NEW job \in TrueJobs, NEW calls \in Seq(Calls),
           NEW tangled \in BOOLEAN, Opens(w, job, calls, tangled)
    PROVE  /\ work[w] = Idle
           /\ work'[w].job = job /\ work'[w].calls = calls
           /\ \A v \in Workers \ {w} :
                /\ work'[v].job = work[v].job /\ work'[v].calls = work[v].calls
                /\ work'[v].got = work[v].got /\ (work'[v].alone => work[v].alone)
           /\ row' = row /\ setting' = setting /\ server' = server
           /\ \/ unsure' = Groups
              \/ /\ unsure' = unsure
                 /\ ~tangled
                 /\ \A v \in Busy : ~Conflict(job, work[v].job)
           /\ ~(job.kind # "left" /\ Marking(calls))
           /\ calls # <<>> /\ Head(calls).op \notin {"existing", "put"}
<1>1. Begin(w, job, calls, tangled) BY DEF Opens
<1> DEFINE mixed == tangled \/ \E v \in Busy : Conflict(job, work[v].job)
<1>2. /\ work[w] = Idle
      /\ work'[w].job = job /\ work'[w].calls = calls
      /\ \A v \in Workers \ {w} :
           /\ work'[v].job = work[v].job /\ work'[v].calls = work[v].calls
           /\ work'[v].got = work[v].got
           /\ work'[v].alone = (work[v].alone /\ (v \notin Busy \/ ~mixed))
      /\ row' = row /\ setting' = setting /\ server' = server
      /\ unsure' = IF mixed THEN Groups ELSE unsure
  BY <1>1, BeginWork
<1>3. ~mixed => ~tangled /\ \A v \in Busy : ~Conflict(job, work[v].job) OBVIOUS
<1> HIDE DEF mixed
<1>4. \/ job.kind \in EventKinds \cup {"chat"} /\ calls = Plan(job)
      \/ job.kind = "fetch" /\ calls = <<Do("joined"), Do("unlock")>>
      \/ job.kind = "share" /\ calls = <<Do("peek")>>
      \/ job.kind = "share" /\ calls = <<Do("joined"), Do("unlock"), Do("peek")>>
  BY DEF Opens
<1>5. ~(job.kind # "left" /\ Marking(calls)) /\ calls # <<>> /\ Head(calls).op \notin {"existing", "put"}
  BY <1>4, OpeningReads
<1>6. \A v \in Workers \ {w} : work'[v].alone => work[v].alone BY <1>2
<1>7. unsure' = Groups \/ (unsure' = unsure /\ ~mixed) BY <1>2
<1> QED BY <1>2, <1>3, <1>5, <1>6, <1>7

LEMMA RequestProgress ==
    ASSUME Discipline, Progress, NEW w \in Workers, Request(w)
    PROVE  Progress'
<1>0. Truth BY DEF Discipline
<1>1. PICK job \in TrueJobs, calls \in Seq(Calls), tangled \in BOOLEAN : Opens(w, job, calls, tangled)
  BY <1>0, RequestCases
<1> SUFFICES ASSUME NEW v \in Workers, NEW g \in Groups, Refreshing(v)',
                    work'[v].alone \/ g \notin unsure'
             PROVE  Owed(work'[v].calls, g) \/ row'[g] = work'[v].got[g]
  BY DEF Progress
<1>2. v # w BY <1>0, <1>1, RequestWork DEF Refreshing
<1>3. /\ work'[v].job = work[v].job /\ work'[v].calls = work[v].calls /\ work'[v].got = work[v].got
      /\ (work'[v].alone => work[v].alone)
      /\ row' = row /\ (unsure' = Groups \/ unsure' = unsure)
  BY <1>0, <1>1, <1>2, RequestWork
<1>4. Refreshing(v) /\ (work[v].alone \/ g \notin unsure) BY <1>3 DEF Refreshing
<1> QED BY <1>3, <1>4 DEF Progress

LEMMA StepKeepsProgress == Discipline /\ Progress /\ [Next]_vars => Progress'
<1> SUFFICES ASSUME Discipline, Progress, [Next]_vars PROVE Progress' OBVIOUS
<1>1. ASSUME NEW w \in Workers, Request(w) PROVE Progress' BY <1>1, RequestProgress
<1>2. ASSUME NEW w \in Workers, Lock(w) \/ Statement(w) PROVE Progress' BY <1>2, StatementProgress
<1>3. CASE ServerChanges \/ Age \/ UNCHANGED vars
  <2>1. row' = row /\ work' = work /\ unsure \subseteq unsure'
    BY <1>3 DEF ServerChanges, Change, Age, vars, cacheVars
  <2> QED BY <2>1 DEF Progress, Refreshing
<1>4. CASE Restart
  <2>1. work' = [w \in Workers |-> Idle] BY <1>4 DEF Restart
  <2>2. Left(<<>>) = {} /\ Idle.calls = <<>> BY ShortSequences DEF Idle
  <2> QED BY <2>1, <2>2 DEF Progress, Refreshing, Marking
<1> QED BY <1>1, <1>2, <1>3, <1>4 DEF Next

LEMMA InitProgress == Init => Progress
<1> SUFFICES ASSUME Init PROVE Progress OBVIOUS
<1>1. work = [w \in Workers |-> Idle] BY DEF Init
<1>2. Left(<<>>) = {} /\ Idle.calls = <<>> BY ShortSequences DEF Idle
<1> QED BY <1>1, <1>2 DEF Progress, Refreshing, Marking

\* When a refresh comes to delete a group, nothing of it is left to store, so that what it
\* does not owe any more is stored as reported, and a deleted group is never one of those.
THEOREM StoredBeforeDeleted == Spec => UpsertFirst
<1> DEFINE Inv == Discipline /\ Progress
           First == \A w \in Workers :
                      (DeleteGroup(w) /\ work[w].job.kind # "left") =>
                        /\ This(w).g \notin Reported(w)
                        /\ work[w].alone => \A g \in Reported(w) : row[g] # NoRow
<1>1. Init => Inv BY InitDiscipline, InitProgress
<1>2. Inv /\ [Next]_vars => Inv' BY StepKeepsDiscipline, StepKeepsProgress
<1>3. Inv => First
  <2> SUFFICES ASSUME Inv, NEW w \in Workers, DeleteGroup(w), work[w].job.kind # "left"
               PROVE  /\ This(w).g \notin Reported(w)
                      /\ work[w].alone => \A g \in Reported(w) : row[g] # NoRow
    OBVIOUS
  <2>1. Truth /\ Forms BY DEF Discipline
  <2>2. work[w].calls # <<>> /\ This(w).op = "del" /\ This(w) \in Left(work[w].calls)
    BY <2>1, DeleteFacts
  <2>3. Marking(work[w].calls) BY <2>2 DEF Marking
  <2>4. /\ Form(work[w].job, work[w].calls, work[w].got)
        /\ Left(work[w].calls) = {This(w)} \cup Left(Rest(w))
        /\ \A c \in Left(Rest(w)) : Before(This(w), c)
    BY <2>1, <2>2, HeadForm
  <2>5. \A c \in Left(work[w].calls) : c.op # "put" /\ (c.op = "del" => work[w].got[c.g] = NoRow)
    BY <2>2, <2>3, <2>4 DEF Form, Before
  <2>6. This(w).g \notin Reported(w) BY <2>2, <2>5 DEF Reported
  <2>7. ASSUME work[w].alone, NEW g \in Reported(w) PROVE row[g] # NoRow
    <3>1. g \in Groups /\ work[w].got[g] # NoRow BY DEF Reported
    <3>2. ~Owed(work[w].calls, g) BY <2>5, <3>1 DEF Owed
    <3>3. row[g] = work[w].got[g] BY <2>3, <2>7, <3>1, <3>2 DEF Progress, Refreshing
    <3> QED BY <3>1, <3>3
  <2> QED BY <2>6, <2>7
<1>4. Inv => [First]_vars BY <1>3
<1> HIDE DEF Inv
<1>5. Spec => [][First]_vars BY <1>1, <1>2, <1>4, PTL DEF Spec
<1> QED BY <1>5 DEF UpsertFirst

-----------------------------------------------------------------------------
(* The events that are not handled yet *)

InOut == {"joined", "left"}

\* After event i there is one of these kinds about group g, one that its participants
\* changed to version ver.
Later(g, kinds, i) ==
    \E k \in DOMAIN events : k > i /\ events[k].g = g /\ events[k].kind \in kinds
Comes(g, i, ver) ==
    \E k \in DOMAIN events : k > i /\ events[k].g = g /\ events[k].kind = "people" /\ events[k].ver = ver

\* Inductive: of a sure group each event, with those after it, leads to what WhatsApp has.
QueueTrue ==
    \A g \in Groups \ unsure : \A i \in DOMAIN events : events[i].g = g =>
        /\ events[i].kind \in InOut /\ ~Later(g, InOut, i) => (events[i].kind = "joined" <=> server[g].in)
        /\ \A ver \in events[i].ver + 1 .. server[g].ver : Comes(g, i, ver)
        /\ ~Later(g, {"eph"}, i) => events[i].eph = server[g].eph

\* An event of group g is handled, the oldest one about it, or one of another group.
LEMMA QueueRemoval ==
    ASSUME Truth, NEW i \in DOMAIN events, NEW g \in Groups,
           events' = [j \in 1 .. Len(events) - 1 |-> events[IF j < i THEN j ELSE j + 1]],
           events[i].g = g => \A j \in 1 .. i - 1 : events[j].g # g
    PROVE  /\ \A k \in DOMAIN events' : \E m \in DOMAIN events :
                /\ events'[k] = events[m]
                /\ events[m].g = g =>
                     /\ \A kinds : Later(g, kinds, k)' => Later(g, kinds, m)
                     /\ \A kinds : Later(g, kinds, m) => Later(g, kinds, k)'
                     /\ \A ver : Comes(g, m, ver) => Comes(g, k, ver)'
           /\ \A kinds : Later(g, kinds, 0)' => Later(g, kinds, 0)
           /\ \A kinds : /\ Later(g, kinds, 0)
                         /\ ~(events[i].g = g /\ events[i].kind \in kinds)
                         => Later(g, kinds, 0)'
           /\ \A ver : Comes(g, 0, ver) /\ ~(events[i].g = g /\ events[i].kind = "people" /\ events[i].ver = ver)
                         => Comes(g, 0, ver)'
           /\ events[i].g = g =>
                /\ \A kinds : Later(g, kinds, i) => Later(g, kinds, 0)'
                /\ \A ver : Comes(g, i, ver) => Comes(g, 0, ver)'
<1> DEFINE n == Len(events)
           at(k) == IF k < i THEN k ELSE k + 1
           back(m) == IF m < i THEN m ELSE m - 1
<1>1. /\ n \in Nat /\ DOMAIN events = 1 .. n /\ i \in 1 .. n
      /\ DOMAIN events' = 1 .. n - 1
      /\ \A k \in 1 .. n - 1 : events'[k] = events[at(k)]
  BY DEF Truth
<1>2. \A k \in 1 .. n - 1 : at(k) \in 1 .. n /\ at(k) # i BY <1>1
<1>3. \A m \in 1 .. n : m # i => back(m) \in 1 .. n - 1 /\ at(back(m)) = m BY <1>1
<1>4. \A k, l \in 1 .. n - 1 : k > l <=> at(k) > at(l) BY <1>1
<1>5. \A k \in 1 .. n - 1 : k > 0 /\ at(k) > 0 BY <1>1
<1>6. \A j \in 1 .. n : events[i].g = g /\ events[j].g = g => ~(j < i) BY <1>1
<1>7. \A m \in 1 .. n : m # i => events'[back(m)] = events[m] BY <1>1, <1>3
<1> HIDE DEF at, back, n
<1>8. ASSUME NEW k \in 1 .. n - 1, events[at(k)].g = g
      PROVE  /\ \A kinds : Later(g, kinds, k)' => Later(g, kinds, at(k))
             /\ \A kinds : Later(g, kinds, at(k)) => Later(g, kinds, k)'
             /\ \A ver : Comes(g, at(k), ver) => Comes(g, k, ver)'
  <2>1. ASSUME NEW kinds, Later(g, kinds, k)' PROVE Later(g, kinds, at(k))
    <3>1. PICK l \in 1 .. n - 1 : l > k /\ events'[l].g = g /\ events'[l].kind \in kinds
      BY <1>1, <2>1 DEF Later
    <3>2. at(l) \in 1 .. n /\ at(l) > at(k) /\ events'[l] = events[at(l)] BY <1>1, <1>2, <1>4, <3>1
    <3> QED BY <1>1, <3>1, <3>2 DEF Later
  <2>2. ASSUME NEW m \in 1 .. n, m > at(k), events[m].g = g
        PROVE  back(m) \in 1 .. n - 1 /\ back(m) > k /\ events'[back(m)] = events[m]
    <3>1. m # i
      <4>1. at(k) \in 1 .. n BY <1>2
      <4>2. ~(at(k) < i) \/ events[i].g # g BY <1>6, <1>8, <4>1
      <4>3. m = i => at(k) < i BY <1>1, <2>2, <4>1
      <4> QED BY <2>2, <4>2, <4>3
    <3>2. back(m) \in 1 .. n - 1 /\ at(back(m)) = m BY <1>3, <3>1
    <3>3. back(m) > k BY <1>4, <2>2, <3>2
    <3> QED BY <1>7, <3>1, <3>2, <3>3
  <2>3. ASSUME NEW kinds, Later(g, kinds, at(k)) PROVE Later(g, kinds, k)'
    <3>1. PICK m \in 1 .. n : m > at(k) /\ events[m].g = g /\ events[m].kind \in kinds
      BY <1>1, <2>3 DEF Later
    <3>2. PICK l \in DOMAIN events' : l > k /\ events'[l] = events[m] BY <1>1, <2>2, <3>1
    <3> QED BY <3>1, <3>2 DEF Later
  <2>4. ASSUME NEW ver, Comes(g, at(k), ver) PROVE Comes(g, k, ver)'
    <3>1. PICK m \in 1 .. n : /\ m > at(k) /\ events[m].g = g
                              /\ events[m].kind = "people" /\ events[m].ver = ver
      BY <1>1, <2>4 DEF Comes
    <3>2. PICK l \in DOMAIN events' : l > k /\ events'[l] = events[m] BY <1>1, <2>2, <3>1
    <3> QED BY <3>1, <3>2 DEF Comes
  <2> QED BY <2>1, <2>3, <2>4
<1>9. ASSUME NEW kinds, Later(g, kinds, 0)' PROVE Later(g, kinds, 0)
  <2>1. PICK l \in 1 .. n - 1 : events'[l].g = g /\ events'[l].kind \in kinds
    BY <1>1, <1>9 DEF Later
  <2>2. at(l) \in 1 .. n /\ at(l) > 0 /\ events'[l] = events[at(l)] BY <1>1, <1>2, <1>5
  <2> QED BY <1>1, <2>1, <2>2 DEF Later
<1>10. ASSUME NEW m \in 1 .. n, m # i
       PROVE  back(m) \in DOMAIN events' /\ back(m) > 0 /\ events'[back(m)] = events[m]
  BY <1>1, <1>3, <1>5, <1>7, <1>10
<1>11. ASSUME NEW kinds, Later(g, kinds, 0), ~(events[i].g = g /\ events[i].kind \in kinds)
       PROVE  Later(g, kinds, 0)'
  <2>1. PICK m \in 1 .. n : events[m].g = g /\ events[m].kind \in kinds BY <1>1, <1>11 DEF Later
  <2>2. m # i BY <1>11, <2>1
  <2> QED BY <1>10, <2>1, <2>2 DEF Later
<1>12. ASSUME NEW ver, Comes(g, 0, ver),
              ~(events[i].g = g /\ events[i].kind = "people" /\ events[i].ver = ver)
       PROVE  Comes(g, 0, ver)'
  <2>1. PICK m \in 1 .. n : events[m].g = g /\ events[m].kind = "people" /\ events[m].ver = ver
    BY <1>1, <1>12 DEF Comes
  <2>2. m # i BY <1>12, <2>1
  <2> QED BY <1>10, <2>1, <2>2 DEF Comes
<1>13. ASSUME NEW kinds, Later(g, kinds, i) PROVE Later(g, kinds, 0)'
  <2>1. PICK m \in 1 .. n : m > i /\ events[m].g = g /\ events[m].kind \in kinds BY <1>1, <1>13 DEF Later
  <2>2. m # i BY <1>1, <2>1
  <2> QED BY <1>10, <2>1, <2>2 DEF Later
<1>14. ASSUME NEW ver, Comes(g, i, ver) PROVE Comes(g, 0, ver)'
  <2>1. PICK m \in 1 .. n : m > i /\ events[m].g = g /\ events[m].kind = "people" /\ events[m].ver = ver
    BY <1>1, <1>14 DEF Comes
  <2>2. m # i BY <1>1, <2>1
  <2> QED BY <1>10, <2>1, <2>2 DEF Comes
<1>15. \A k \in DOMAIN events' : \E m \in DOMAIN events :
         /\ events'[k] = events[m]
         /\ events[m].g = g =>
              /\ \A kinds : Later(g, kinds, k)' => Later(g, kinds, m)
              /\ \A kinds : Later(g, kinds, m) => Later(g, kinds, k)'
              /\ \A ver : Comes(g, m, ver) => Comes(g, k, ver)'
  <2> TAKE k \in DOMAIN events'
  <2>1. k \in 1 .. n - 1 /\ at(k) \in DOMAIN events /\ events'[k] = events[at(k)] BY <1>1, <1>2
  <2> QED BY <1>8, <2>1
<1> QED BY <1>9, <1>11, <1>12, <1>13, <1>14, <1>15

\* An event is sent.
LEMMA QueueAppend ==
    ASSUME Truth, NEW e, events' = Append(events, e)
    PROVE  /\ \A k \in DOMAIN events : k \in DOMAIN events' /\ events'[k] = events[k] /\ k \in 0 .. Len(events)
           /\ \A k \in DOMAIN events' : k \in DOMAIN events \/ (k = Len(events) + 1 /\ events'[k] = e)
           /\ 0 \in 0 .. Len(events)
           /\ \A g, kinds : \A i \in 0 .. Len(events) :
                Later(g, kinds, i)' <=> Later(g, kinds, i) \/ (e.g = g /\ e.kind \in kinds)
           /\ \A g, ver : \A i \in 0 .. Len(events) :
                Comes(g, i, ver)' <=> Comes(g, i, ver) \/ (e.g = g /\ e.kind = "people" /\ e.ver = ver)
           /\ \A g, kinds, i : i = Len(events) + 1 => ~Later(g, kinds, i)'
<1> DEFINE n == Len(events)
<1>1. /\ n \in Nat /\ DOMAIN events = 1 .. n /\ DOMAIN events' = 1 .. n + 1
      /\ \A k \in 1 .. n : events'[k] = events[k]
      /\ events'[n + 1] = e
  BY DEF Truth
<1> HIDE DEF n
<1>2. \A k \in 1 .. n + 1 : k \in 1 .. n \/ k = n + 1 BY <1>1
<1>3. \A i \in 0 .. n : n + 1 > i BY <1>1
<1>4. \A k \in 1 .. n : k \in 1 .. n + 1 BY <1>1
<1>5. n + 1 \in 1 .. n + 1 BY <1>1
<1>6. ASSUME NEW g, NEW kinds, NEW i \in 0 .. n
      PROVE  Later(g, kinds, i)' <=> Later(g, kinds, i) \/ (e.g = g /\ e.kind \in kinds)
  BY <1>1, <1>2, <1>3, <1>4, <1>5 DEF Later
<1>7. ASSUME NEW g, NEW ver, NEW i \in 0 .. n
      PROVE  Comes(g, i, ver)' <=> Comes(g, i, ver) \/ (e.g = g /\ e.kind = "people" /\ e.ver = ver)
  BY <1>1, <1>2, <1>3, <1>4, <1>5 DEF Comes
<1>8. ASSUME NEW g, NEW kinds, NEW i, i = n + 1 PROVE ~Later(g, kinds, i)'
  <2>1. \A k \in 1 .. n + 1 : ~(k > i) BY <1>1, <1>8
  <2> QED BY <1>1, <2>1 DEF Later
<1>9. 0 \in 0 .. n /\ \A k \in 1 .. n : k \in 0 .. n BY <1>1
<1>10. \A k \in DOMAIN events : k \in DOMAIN events' /\ events'[k] = events[k] /\ k \in 0 .. n
  BY <1>1, <1>4, <1>9
<1>11. \A k \in DOMAIN events' : k \in DOMAIN events \/ (k = n + 1 /\ events'[k] = e)
  BY <1>1, <1>2
<1>12. \A g, kinds : \A i \in 0 .. n : Later(g, kinds, i)' <=> Later(g, kinds, i) \/ (e.g = g /\ e.kind \in kinds)
  BY <1>6
<1>13. \A g, ver : \A i \in 0 .. n :
         Comes(g, i, ver)' <=> Comes(g, i, ver) \/ (e.g = g /\ e.kind = "people" /\ e.ver = ver)
  BY <1>7
<1>14. 0 \in 0 .. n /\ \A g, kinds, i : i = n + 1 => ~Later(g, kinds, i)' BY <1>8, <1>9
<1> QED BY <1>10, <1>11, <1>12, <1>13, <1>14 DEF n

\* What WhatsApp changes.
LEMMA ChangeCases ==
    ASSUME Truth, ServerChanges
    PROVE  \E h \in Groups, e \in EventJobs :
             /\ events' = Append(events, e) /\ e.g = h
             /\ \A g \in Groups : g # h => server'[g] = server[g]
             /\ server[h].ver \in Nat /\ server'[h].ver \in Nat /\ e.ver = server'[h].ver
             /\ e.eph = server'[h].eph
             /\ row' = row /\ setting' = setting /\ work' = work /\ unsure \subseteq unsure'
             /\ \/ /\ e.kind = "joined" /\ server'[h].in
                   /\ server'[h].ver = server[h].ver /\ server'[h].eph = server[h].eph
                \/ /\ e.kind = "left" /\ ~server'[h].in
                   /\ server'[h].ver = server[h].ver /\ server'[h].eph = server[h].eph
                \/ /\ e.kind = "people" /\ server[h].in /\ (server'[h].in \/ h \in unsure')
                   /\ server'[h].ver = server[h].ver + 1 /\ server'[h].eph = server[h].eph
                \/ /\ e.kind = "eph" /\ server[h].in /\ server'[h].in
                   /\ server'[h].ver = server[h].ver
<1>1. PICK h \in Groups :
        LET is == server[h]
        IN  \/ ~is.in /\ Change(h, "joined", [is EXCEPT !.in = TRUE])
            \/ is.in /\ Change(h, "left", [is EXCEPT !.in = FALSE])
            \/ /\ is.in /\ is.ver < Len(Roster[h])
               /\ \E in \in BOOLEAN : Change(h, "people", [is EXCEPT !.in = in, !.ver = @ + 1])
            \/ is.in /\ Change(h, "eph", [is EXCEPT !.eph = ~@])
  BY DEF ServerChanges
<1> DEFINE is == server[h]
<1>2. is \in [in : BOOLEAN, ver : Nat, eph : BOOLEAN] BY DEF Truth
<1>3. PICK kind, now :
        /\ Change(h, kind, now)
        /\ \/ kind = "joined" /\ now = [is EXCEPT !.in = TRUE]
           \/ kind = "left" /\ now = [is EXCEPT !.in = FALSE]
           \/ kind = "people" /\ is.in /\ \E in \in BOOLEAN : now = [is EXCEPT !.in = in, !.ver = is.ver + 1]
           \/ kind = "eph" /\ is.in /\ now = [is EXCEPT !.eph = ~is.eph]
  BY <1>1
<1>4. /\ server' = [server EXCEPT ![h] = now]
      /\ events' = Append(events, Job(kind, h, now.ver, now.eph))
      /\ row' = row /\ setting' = setting /\ work' = work
      /\ unsure \subseteq unsure' /\ (kind = "people" => now.in \/ h \in unsure')
  BY <1>3 DEF Change, cacheVars
<1>5. server'[h] = now /\ \A g \in Groups : g # h => server'[g] = server[g] BY <1>4 DEF Truth
<1>6. Truth' BY ServerChangesKeep
<1>7. server'[h].ver \in Nat BY <1>6 DEF Truth
<1> DEFINE e == Job(kind, h, now.ver, now.eph)
<1>8. e \in EventJobs
  <2>1. events' \in Seq(EventJobs) /\ events \in Seq(EventJobs) BY <1>6 DEF Truth
  <2>2. events' = Append(events, e) BY <1>4
  <2> HIDE DEF e
  <2>3. Len(events') = Len(events) + 1 /\ events'[Len(events) + 1] = e /\ Len(events) \in Nat
    BY <2>1, <2>2
  <2>4. \A k \in 1 .. Len(events') : events'[k] \in EventJobs BY <2>1
  <2>5. Len(events) + 1 \in 1 .. Len(events') BY <2>3
  <2> QED BY <2>3, <2>4, <2>5
<1>9. e.g = h /\ e.kind = kind /\ e.ver = now.ver /\ e.eph = now.eph BY DEF Job
<1>10. events' = Append(events, e) BY <1>4
<1>11. is = server[h] OBVIOUS
<1> HIDE DEF e, is
<1>12. \/ kind = "joined" /\ now.in /\ now.ver = is.ver /\ now.eph = is.eph
       \/ kind = "left" /\ ~now.in /\ now.ver = is.ver /\ now.eph = is.eph
       \/ kind = "people" /\ is.in /\ now.ver = is.ver + 1 /\ now.eph = is.eph
       \/ kind = "eph" /\ is.in /\ now.in /\ now.ver = is.ver
  BY <1>2, <1>3
<1>13. is.ver \in Nat BY <1>2
<1> QED BY <1>4, <1>5, <1>7, <1>8, <1>9, <1>10, <1>11, <1>12, <1>13

\* Event i leads to what WhatsApp has.
LeadsOn(g, i) ==
    /\ events[i].kind \in InOut /\ ~Later(g, InOut, i) => (events[i].kind = "joined" <=> server[g].in)
    /\ \A ver \in events[i].ver + 1 .. server[g].ver : Comes(g, i, ver)
    /\ ~Later(g, {"eph"}, i) => events[i].eph = server[g].eph

LEMMA ChangesQueue ==
    ASSUME Truth, QueueTrue, ServerChanges
    PROVE  QueueTrue'
<1>1. PICK h \in Groups, e \in EventJobs :
        /\ events' = Append(events, e) /\ e.g = h
        /\ \A g \in Groups : g # h => server'[g] = server[g]
        /\ server[h].ver \in Nat /\ server'[h].ver \in Nat /\ e.ver = server'[h].ver
        /\ e.eph = server'[h].eph
        /\ unsure \subseteq unsure'
        /\ \/ /\ e.kind = "joined" /\ server'[h].in
              /\ server'[h].ver = server[h].ver /\ server'[h].eph = server[h].eph
           \/ /\ e.kind = "left" /\ ~server'[h].in
              /\ server'[h].ver = server[h].ver /\ server'[h].eph = server[h].eph
           \/ /\ e.kind = "people" /\ server[h].in /\ (server'[h].in \/ h \in unsure')
              /\ server'[h].ver = server[h].ver + 1 /\ server'[h].eph = server[h].eph
           \/ /\ e.kind = "eph" /\ server[h].in /\ server'[h].in
              /\ server'[h].ver = server[h].ver
  BY ChangeCases
<1>2. /\ \A k \in DOMAIN events : k \in DOMAIN events' /\ events'[k] = events[k] /\ k \in 0 .. Len(events)
      /\ \A k \in DOMAIN events' : k \in DOMAIN events \/ (k = Len(events) + 1 /\ events'[k] = e)
      /\ \A g, kinds : \A i \in 0 .. Len(events) :
           Later(g, kinds, i)' <=> Later(g, kinds, i) \/ (e.g = g /\ e.kind \in kinds)
      /\ \A g, ver : \A i \in 0 .. Len(events) :
           Comes(g, i, ver)' <=> Comes(g, i, ver) \/ (e.g = g /\ e.kind = "people" /\ e.ver = ver)
      /\ \A g, kinds, i : i = Len(events) + 1 => ~Later(g, kinds, i)'
  BY <1>1, QueueAppend
<1> SUFFICES ASSUME NEW g \in Groups \ unsure', NEW i \in DOMAIN events', events'[i].g = g
             PROVE  LeadsOn(g, i)'
  BY <1>1 DEF QueueTrue, LeadsOn
<1>3. CASE i \in DOMAIN events
  <2>1. LeadsOn(g, i) /\ events'[i] = events[i] /\ i \in 0 .. Len(events)
    BY <1>1, <1>2, <1>3 DEF QueueTrue, LeadsOn
  <2>2. /\ \A kinds : Later(g, kinds, i)' <=> Later(g, kinds, i) \/ (h = g /\ e.kind \in kinds)
        /\ \A ver : Comes(g, i, ver)' <=> Comes(g, i, ver) \/ (h = g /\ e.kind = "people" /\ e.ver = ver)
    BY <1>1, <1>2, <2>1
  <2>3. CASE g # h BY <1>1, <2>1, <2>2, <2>3 DEF LeadsOn
  <2>4. CASE g = h
    <3>1. events'[i].kind \in InOut /\ ~Later(g, InOut, i)' => (events'[i].kind = "joined" <=> server'[g].in)
      <4> SUFFICES ASSUME events'[i].kind \in InOut, ~Later(g, InOut, i)'
                   PROVE  events'[i].kind = "joined" <=> server'[g].in
        OBVIOUS
      <4>1. e.kind \notin InOut /\ ~Later(g, InOut, i) BY <2>2, <2>4
      <4>2. server'[g].in /\ server[g].in BY <1>1, <2>4, <4>1 DEF InOut
      <4> QED BY <2>1, <4>1, <4>2 DEF LeadsOn
    <3>2. ASSUME NEW ver \in events'[i].ver + 1 .. server'[g].ver PROVE Comes(g, i, ver)'
      <4>1. events[i].ver \in Nat BY <1>3 DEF Truth, EventJobs, TrueJobs, Jobs
      <4>2. CASE ver \in events[i].ver + 1 .. server[g].ver BY <2>1, <2>2, <4>2 DEF LeadsOn
      <4>3. CASE ver \notin events[i].ver + 1 .. server[g].ver
        <5>1. server'[g].ver = server[g].ver + 1 /\ e.kind = "people"
          BY <1>1, <2>1, <2>4, <3>2, <4>3
        <5>2. ver = server'[g].ver BY <1>1, <2>1, <2>4, <3>2, <4>1, <4>3, <5>1
        <5> QED BY <1>1, <2>2, <2>4, <5>1, <5>2
      <4> QED BY <4>2, <4>3
    <3>3. ~Later(g, {"eph"}, i)' => events'[i].eph = server'[g].eph
      <4> SUFFICES ASSUME ~Later(g, {"eph"}, i)' PROVE events'[i].eph = server'[g].eph OBVIOUS
      <4>1. e.kind # "eph" /\ ~Later(g, {"eph"}, i) BY <2>2, <2>4
      <4>2. server'[g].eph = server[g].eph BY <1>1, <2>4, <4>1
      <4> QED BY <2>1, <4>1, <4>2 DEF LeadsOn
    <3> QED BY <3>1, <3>2, <3>3 DEF LeadsOn
  <2> QED BY <2>3, <2>4
<1>4. CASE i = Len(events) + 1 /\ events'[i] = e
  <2>1. g = h BY <1>1, <1>4
  <2>2. e.kind \in InOut => (e.kind = "joined" <=> server'[g].in) BY <1>1, <2>1 DEF InOut
  <2>3. \A ver \in e.ver + 1 .. server'[g].ver : FALSE BY <1>1, <2>1
  <2> QED BY <1>1, <1>4, <2>1, <2>2, <2>3 DEF LeadsOn
<1> QED BY <1>2, <1>3, <1>4

LEMMA RequestQueue ==
    ASSUME Truth, QueueTrue, NEW w \in Workers, Request(w)
    PROVE  QueueTrue'
<1>1. PICK job \in TrueJobs, calls \in Seq(Calls), tangled \in BOOLEAN : Opens(w, job, calls, tangled)
  BY RequestCases
<1>2. server' = server /\ (unsure' = Groups \/ (unsure' = unsure /\ ~tangled)) BY <1>1, RequestWork
<1> SUFFICES ASSUME unsure' = unsure, ~tangled, NEW g \in Groups \ unsure, NEW k \in DOMAIN events',
                    events'[k].g = g
             PROVE  LeadsOn(g, k)'
  BY <1>2 DEF QueueTrue, LeadsOn
<1>3. CASE events' = events BY <1>2, <1>3 DEF QueueTrue, LeadsOn, Later, Comes
<1>4. CASE events' # events
  <2>1. PICK i \in DOMAIN events :
          /\ tangled = \E j \in 1 .. i - 1 : events[j].g = events[i].g
          /\ events' = [j \in 1 .. Len(events) - 1 |-> events[IF j < i THEN j ELSE j + 1]]
    <3>1. job.kind \in EventKinds BY <1>1, <1>4 DEF Opens
    <3> QED BY <1>1, <3>1 DEF Opens
  <2>2. events[i].g = g => \A j \in 1 .. i - 1 : events[j].g # g BY <2>1
  <2>3. PICK m \in DOMAIN events :
          /\ events'[k] = events[m]
          /\ events[m].g = g =>
               /\ \A kinds : Later(g, kinds, k)' => Later(g, kinds, m)
               /\ \A kinds : Later(g, kinds, m) => Later(g, kinds, k)'
               /\ \A ver : Comes(g, m, ver) => Comes(g, k, ver)'
    BY <2>1, <2>2, QueueRemoval
  <2>4. LeadsOn(g, m) /\ events[m].g = g BY <2>3 DEF QueueTrue, LeadsOn
  <2>5. ~Later(g, InOut, k)' => ~Later(g, InOut, m) BY <2>3, <2>4
  <2>6. ~Later(g, {"eph"}, k)' => ~Later(g, {"eph"}, m) BY <2>3, <2>4
  <2> QED BY <1>2, <2>3, <2>4, <2>5, <2>6 DEF LeadsOn
<1> QED BY <1>3, <1>4

LEMMA StepKeepsQueue == Truth /\ QueueTrue /\ [Next]_vars => QueueTrue'
<1> SUFFICES ASSUME Truth, QueueTrue, [Next]_vars PROVE QueueTrue' OBVIOUS
<1>1. ASSUME NEW w \in Workers, Request(w) PROVE QueueTrue' BY <1>1, RequestQueue
<1>2. ASSUME NEW w \in Workers, Lock(w) \/ Statement(w) PROVE QueueTrue'
  <2>1. events' = events /\ server' = server BY <1>2, StatementWork
  <2>2. ASSUME NEW g \in Groups \ unsure', NEW i \in DOMAIN events, events[i].g = g PROVE g \notin unsure
    <3> SUFFICES ASSUME g \in unsure PROVE FALSE OBVIOUS
    <3>1. g \notin Due(w) BY <1>2, UnsureAfter
    <3> QED BY <2>2, <3>1 DEF Due
  <2> QED BY <2>1, <2>2 DEF QueueTrue, Later, Comes
<1>3. CASE ServerChanges BY <1>3, ChangesQueue
<1>4. CASE Age \/ UNCHANGED vars
  <2>1. events' = events /\ server' = server /\ unsure' = unsure BY <1>4 DEF Age, vars, serverVars
  <2> QED BY <2>1 DEF QueueTrue, Later, Comes
<1>5. CASE Restart BY <1>5 DEF Restart, QueueTrue
<1> QED BY <1>1, <1>2, <1>3, <1>4, <1>5 DEF Next

LEMMA InitQueue == Init => QueueTrue
BY DEF Init, QueueTrue

\* A group as WhatsApp has it.
ServerRow(g) == IF server[g].in THEN RowAt(g, server[g].ver, server[g].eph) ELSE NoRow

\* Worker w has what WhatsApp reported, and has not written all of it.
Listed(w) == Calling(w, "existing") \/ Refreshing(w)

\* Inductive, given the discipline: what WhatsApp reported is still so, or an event about it
\* is due.
Snapshot ==
    \A w \in Workers, g \in Groups :
        work[w].alone /\ Listed(w) /\ Reported(w) # {} =>
            work[w].got[g] = ServerRow(g) \/ g \in Due(w)

LEMMA ExistingFrom ==
    ASSUME Truth, Forms, NEW w \in Workers, Lock(w) \/ Statement(w), Calling(w, "existing")'
    PROVE  GetJoinedGroups(w) /\ work'[w].job = work[w].job
<1> DEFINE s == work'[w].calls
<1>1. s # <<>> /\ Head(s).op = "existing" BY DEF Calling
<1>2. s \in Seq(Calls)
  <2>1. Truth' BY StepKeepsTruth DEF Next
  <2> QED BY <2>1 DEF Truth, TrueWorks
<1> HIDE DEF s
<1>3. Head(s) \in Left(s) BY <1>1, <1>2, LeftTail
<1>4. \/ Head(s).op # "existing" \/ GetJoinedGroups(w)
      \/ Head(s) = Call("put", work[w].job.g, Renewed(w))
      \/ Head(s) = Call("put", work[w].job.g, row[work[w].job.g])
  BY <1>1, <1>3, WritesAfter DEF s
<1>5. GetJoinedGroups(w) BY <1>1, <1>4, CallFields
<1> QED BY <1>5, JoinedWork

\* A worker that has what WhatsApp reported neither waits nor has nothing to do.
LEMMA ListedWorks ==
    ASSUME NEW w \in Workers, Listed(w)
    PROVE  work[w].calls \notin {<<>>, Waiting}
<1>1. CASE Calling(w, "existing") BY <1>1, WaitingHead DEF Calling
<1>2. CASE Refreshing(w)
  <2>1. PICK c \in Left(work[w].calls) : c.op \in {"mark", "del"} BY <1>2 DEF Refreshing, Marking
  <2> QED BY <2>1, NothingToWrite
<1> QED BY <1>1, <1>2 DEF Listed

\* Next to a worker at work that is alone, or while a group is sure, others can at most take
\* the lock.
LEMMA OthersWait ==
    ASSUME Discipline, NEW v \in Workers, work[v].calls \notin {<<>>, Waiting},
           work[v].alone \/ \E g \in Groups : g \notin unsure,
           NEW w \in Workers \ {v}, Lock(w) \/ Statement(w)
    PROVE  /\ Lock(w) /\ work[w].calls = Waiting
           /\ row' = row /\ setting' = setting /\ unsure' = unsure
           /\ work'[w].job = work[w].job /\ work'[w].got = work[w].got
           /\ work'[w].calls \in {<<Do("load"), Do("unlock")>>, <<Do("joined"), Do("unlock")>>}
<1>0. Truth /\ Sections /\ Forms /\ Held /\ Apart /\ Sure BY DEF Discipline
<1>1. work[w].calls \in {<<>>, Waiting} BY <1>0, Quiet
<1>2. work[w].calls # <<>> BY <1>0, StatementWork
<1>3. work[w].calls = Waiting /\ Head(work[w].calls).op = "lock" BY <1>1, <1>2, WaitingHead
<1>4. ~Statement(w)
  BY StatementCases, <1>3 DEF Unlock, GetJoinedGroups, GetAllGroups, GetGroupToUpdate, GetGroupToShare,
              UpdateSetting, PutGroup, DeleteSetting, DeleteGroup, MarkFresh, CallSkipped, Skip, CallAborts,
              Aborts, Calling, This
<1>5. Lock(w) BY <1>4
<1> DEFINE x == Do("lock")
           y == Do("load")
           z == Do("unlock")
           j == Do("joined")
           calls == IF fresh THEN Rest(w) ELSE <<j, z>>
<1>6. Rest(w) = Tail(<<x, y, z>>) BY <1>3 DEF Rest, Waiting
<1>7. Continue(w, calls) /\ row' = row /\ setting' = setting /\ unsure' = unsure
  BY <1>5 DEF Lock, cacheVars
<1> HIDE DEF x, y, z, j
<1>8. Tail(<<x, y, z>>) = <<y, z>> OBVIOUS
<1>9. calls \in {<<y, z>>, <<j, z>>} /\ calls # <<>> BY <1>6, <1>8
<1> HIDE DEF calls
<1>10. work'[w].calls = calls /\ work'[w].job = work[w].job /\ work'[w].got = work[w].got
  BY <1>0, <1>7, <1>9, ContinueWork
<1> QED BY <1>3, <1>5, <1>7, <1>9, <1>10 DEF y, z, j

LEMMA StatementSnapshot ==
    ASSUME Discipline, Snapshot, NEW w \in Workers, Lock(w) \/ Statement(w)
    PROVE  Snapshot'
<1>0. Truth /\ Sections /\ Forms /\ Held /\ Apart /\ Sure BY DEF Discipline
<1>1. /\ \A v \in Workers \ {w} : work'[v] = work[v]
      /\ events' = events /\ server' = server
  BY <1>0, StatementWork
<1> SUFFICES ASSUME NEW v \in Workers, NEW g \in Groups, work'[v].alone, Listed(v)', Reported(v)' # {}
             PROVE  work'[v].got[g] = ServerRow(g)' \/ g \in Due(v)'
  BY DEF Snapshot
<1>2. ServerRow(g)' = ServerRow(g) BY <1>1 DEF ServerRow
<1>3. CASE v # w
  <2>1. work'[v] = work[v] BY <1>1, <1>3
  <2>2. Listed(v) /\ work[v].alone /\ Reported(v) # {}
    BY <2>1 DEF Listed, Refreshing, Calling, Reported
  <2>3. work[v].calls \notin {<<>>, Waiting} BY <2>2, ListedWorks
  <2>4. work'[w].job = work[w].job BY <1>3, <2>2, <2>3, OthersWait
  <2>5. \A u \in Workers : work'[u].job = work[u].job BY <1>1, <2>4
  <2>6. Due(v)' = Due(v) BY <1>1, <2>5 DEF Due
  <2> QED BY <1>2, <2>1, <2>2, <2>6 DEF Snapshot
<1>4. CASE v = w
  <2>1. Due(w)' = Due(w) BY <1>1 DEF Due
  <2>2. CASE Calling(w, "existing")'
    <3>1. GetJoinedGroups(w) BY <1>0, <2>2, ExistingFrom
    <3>2. PICK none \in BOOLEAN :
            work'[w].got = [h \in Groups |-> IF server[h].in /\ ~none
                                              THEN RowAt(h, server[h].ver, server[h].eph) ELSE NoRow]
      BY <1>0, <3>1, JoinedWork
    <3>3. ~none
      <4>1. none => \A h \in Groups : work'[w].got[h] = NoRow BY <3>2
      <4> QED BY <1>4, <4>1 DEF Reported
    <3> QED BY <1>2, <1>4, <3>2, <3>3 DEF ServerRow
  <2>3. CASE Refreshing(w)'
    <3>1. /\ work'[w].got = work[w].got /\ work'[w].job = work[w].job
          /\ Refreshing(w) \/ GetAllGroups(w)
      BY <1>0, <2>3, RefreshFrom
    <3>2. Listed(w) BY <3>1 DEF Listed, GetAllGroups
    <3>3. work'[w] # Idle
      <4>1. Idle.calls = <<>> /\ Left(<<>>) = {} BY ShortSequences DEF Idle
      <4> QED BY <2>3, <4>1 DEF Refreshing, Marking
    <3>4. work[w].alone BY <1>0, <1>4, <3>3, StatementWork
    <3>5. Reported(w) # {} BY <1>4, <3>1 DEF Reported
    <3> QED BY <1>2, <1>4, <2>1, <3>1, <3>2, <3>4, <3>5 DEF Snapshot
  <2> QED BY <1>4, <2>2, <2>3 DEF Listed
<1> QED BY <1>3, <1>4

\* An event becomes a job.
LEMMA EventStaysDue ==
    ASSUME Truth, NEW w \in Workers, NEW job \in TrueJobs, NEW calls \in Seq(Calls),
           NEW tangled \in BOOLEAN, Opens(w, job, calls, tangled), NEW m \in DOMAIN events
    PROVE  events[m] = job \/ \E k \in DOMAIN events' : events'[k] = events[m]
<1>1. CASE events' = events BY <1>1
<1>2. CASE events' # events
  <2>1. PICK i \in DOMAIN events :
          /\ job = events[i]
          /\ events' = [j \in 1 .. Len(events) - 1 |-> events[IF j < i THEN j ELSE j + 1]]
    <3>1. job.kind \in EventKinds BY <1>2 DEF Opens
    <3> QED BY <3>1 DEF Opens
  <2>2. Len(events) \in Nat /\ DOMAIN events = 1 .. Len(events) BY DEF Truth
  <2> DEFINE k == IF m < i THEN m ELSE m - 1
  <2>3. CASE m = i BY <2>1, <2>3
  <2>4. CASE m # i
    <3>1. k \in 1 .. Len(events) - 1 /\ (IF k < i THEN k ELSE k + 1) = m BY <2>1, <2>2, <2>4
    <3> HIDE DEF k
    <3>2. k \in DOMAIN events' /\ events'[k] = events[m] BY <2>1, <3>1
    <3> QED BY <3>2
  <2> QED BY <2>3, <2>4
<1> QED BY <1>1, <1>2

LEMMA RequestSnapshot ==
    ASSUME Discipline, Snapshot, NEW w \in Workers, Request(w)
    PROVE  Snapshot'
<1>0. Truth BY DEF Discipline
<1>1. PICK job \in TrueJobs, calls \in Seq(Calls), tangled \in BOOLEAN : Opens(w, job, calls, tangled)
  BY <1>0, RequestCases
<1>2. /\ work[w] = Idle /\ work'[w].job = job /\ work'[w].calls = calls
      /\ \A v \in Workers \ {w} :
           /\ work'[v].job = work[v].job /\ work'[v].calls = work[v].calls
           /\ work'[v].got = work[v].got /\ (work'[v].alone => work[v].alone)
      /\ server' = server
      /\ ~(job.kind # "left" /\ Marking(calls))
      /\ Head(calls).op # "existing"
  BY <1>0, <1>1, RequestWork
<1> SUFFICES ASSUME NEW v \in Workers, NEW g \in Groups, work'[v].alone, Listed(v)', Reported(v)' # {}
             PROVE  work'[v].got[g] = ServerRow(g)' \/ g \in Due(v)'
  BY DEF Snapshot
<1>3. v # w BY <1>2 DEF Listed, Calling, Refreshing
<1>4. Listed(v) /\ work[v].alone /\ Reported(v) # {} /\ work'[v].got = work[v].got
  BY <1>2, <1>3 DEF Listed, Calling, Refreshing, Reported
<1>5. ServerRow(g)' = ServerRow(g) BY <1>2 DEF ServerRow
<1>6. ASSUME g \in Due(v) PROVE g \in Due(v)'
  <2>1. CASE \E m \in DOMAIN events : g = events[m].g
    <3>1. PICK m \in DOMAIN events : g = events[m].g BY <2>1
    <3>2. events[m] = job \/ \E k \in DOMAIN events' : events'[k] = events[m]
      BY <1>0, <1>1, EventStaysDue
    <3>3. CASE events[m] = job
      <4>1. work'[w].job.g = g /\ w \in Workers \ {v} BY <1>2, <1>3, <3>1, <3>3
      <4> QED BY <4>1 DEF Due
    <3>4. CASE \E k \in DOMAIN events' : events'[k] = events[m] BY <3>1, <3>4 DEF Due
    <3> QED BY <3>2, <3>3, <3>4
  <2>2. CASE \E u \in Workers \ {v} : g = work[u].job.g
    <3>1. PICK u \in Workers \ {v} : g = work[u].job.g BY <2>2
    <3>2. u # w
      <4>1. Idle.job.g = None BY DEF Idle, Job
      <4> QED BY <1>2, <3>1, <4>1, CacheAssumption
    <3>3. work'[u].job.g = g BY <1>2, <3>1, <3>2
    <3> QED BY <3>1, <3>3 DEF Due
  <2> QED BY <1>6, <2>1, <2>2 DEF Due
<1> QED BY <1>4, <1>5, <1>6 DEF Snapshot

LEMMA StepKeepsSnapshot == Discipline /\ Snapshot /\ [Next]_vars => Snapshot'
<1> SUFFICES ASSUME Discipline, Snapshot, [Next]_vars PROVE Snapshot' OBVIOUS
<1>0. Truth BY DEF Discipline
<1>1. ASSUME NEW w \in Workers, Request(w) PROVE Snapshot' BY <1>1, RequestSnapshot
<1>2. ASSUME NEW w \in Workers, Lock(w) \/ Statement(w) PROVE Snapshot' BY <1>2, StatementSnapshot
<1>3. CASE ServerChanges
  <2>1. PICK h \in Groups, e \in EventJobs :
          /\ events' = Append(events, e) /\ e.g = h
          /\ \A g \in Groups : g # h => server'[g] = server[g]
          /\ work' = work
    BY <1>0, <1>3, ChangeCases
  <2>2. /\ \A k \in DOMAIN events : k \in DOMAIN events' /\ events'[k] = events[k]
        /\ Later(h, {e.kind}, 0)'
    BY <1>0, <2>1, QueueAppend
  <2>3. ASSUME NEW w \in Workers PROVE h \in Due(w)' /\ Due(w) \subseteq Due(w)'
    BY <2>1, <2>2 DEF Due, Later
  <2>4. \A w \in Workers : Listed(w)' = Listed(w) /\ Reported(w)' = Reported(w)
    BY <2>1 DEF Listed, Calling, Refreshing, Reported
  <2>5. \A g \in Groups : g # h => ServerRow(g)' = ServerRow(g) BY <2>1 DEF ServerRow
  <2> QED BY <2>1, <2>3, <2>4, <2>5 DEF Snapshot
<1>4. CASE Age \/ UNCHANGED vars
  <2>1. work' = work /\ server' = server /\ events' = events BY <1>4 DEF Age, vars, serverVars
  <2>2. \A w \in Workers : Listed(w)' = Listed(w) /\ Reported(w)' = Reported(w) /\ Due(w)' = Due(w)
    BY <2>1 DEF Listed, Calling, Refreshing, Reported, Due
  <2>3. \A g \in Groups : ServerRow(g)' = ServerRow(g) BY <2>1 DEF ServerRow
  <2> QED BY <2>1, <2>2, <2>3 DEF Snapshot
<1>5. CASE Restart
  <2>1. work' = [w \in Workers |-> Idle] BY <1>5 DEF Restart
  <2>2. Left(<<>>) = {} /\ Idle.calls = <<>> BY ShortSequences DEF Idle
  <2> QED BY <2>1, <2>2 DEF Snapshot, Listed, Calling, Refreshing, Marking
<1> QED BY <1>1, <1>2, <1>3, <1>4, <1>5 DEF Next

LEMMA InitSnapshot == Init => Snapshot
<1> SUFFICES ASSUME Init PROVE Snapshot OBVIOUS
<1>1. work = [w \in Workers |-> Idle] BY DEF Init
<1>2. Left(<<>>) = {} /\ Idle.calls = <<>> BY ShortSequences DEF Idle
<1> QED BY <1>1, <1>2 DEF Snapshot, Listed, Calling, Refreshing, Marking

-----------------------------------------------------------------------------
(* What is on its way *)

\* Worker v has an update to do, in its own attempt or by a refresh.
Undone(v) == work[v].calls # <<>> /\ Head(work[v].calls).op # "unlock"

\* The updates of group g that workers other than w have to do.
Pend(g, w) ==
    {work[v].job : v \in {u \in Workers \ {w} :
        work[u].job.g = g /\ work[u].job.kind \in {"people", "eph"} /\ Undone(u)}}

\* With row r and the updates D, the events lead to what WhatsApp has of group g: every
\* version that is missing comes, and so does the ephemeral parameter.
Follows(g, r, D) ==
    ~Later(g, InOut, 0) =>
      /\ r # NoRow <=> server[g].in
      /\ server[g].in =>
           \A ver \in r.ver + 1 .. server[g].ver :
             Comes(g, 0, ver) \/ \E j \in D : j.kind = "people" /\ j.ver = ver
      /\ server[g].in /\ ~Later(g, {"eph"}, 0) =>
           /\ \A j \in D : j.kind = "eph" => j.eph = server[g].eph
           /\ (\A j \in D : j.kind # "eph") => r.eph = server[g].eph

\* The rows that a worker may leave behind.
Outcomes(w, g) ==
    {c.row : c \in {d \in Left(work[w].calls) : d.op = "put" /\ d.g = g}}
      \cup (IF \E c \in Left(work[w].calls) : c.op = "del" /\ c.g = g THEN {NoRow} ELSE {})
      \cup (IF Listed(w) THEN {work[w].got[g]} ELSE {})

Writer(g) == \E w \in Workers : work[w].job.kind \in InOut /\ work[w].job.g = g

\* Inductive, given the discipline, for groups that are sure.
RowFollows == \A g \in Groups \ unsure : Writer(g) \/ Follows(g, row[g], Pend(g, None))
OutcomesFollow ==
    \A g \in Groups \ unsure, w \in Workers : \A r \in Outcomes(w, g) : Follows(g, r, Pend(g, w))

\* An update that a worker has yet to do besides does not lead elsewhere.
LEMMA FollowsMore ==
    ASSUME NEW g, NEW r, NEW s, NEW D, NEW j, Follows(g, r, D), Follows(g, s, D \cup {j})
    PROVE  Follows(g, r, D \cup {j})
BY DEF Follows

\* An update that a worker need not do any more.
LEMMA FollowsLess ==
    ASSUME NEW g, NEW r, r.ver \in Nat, NEW D, NEW E, Follows(g, r, D), E \subseteq D,
           \A j \in D \ E : j.kind = "people" /\ j.ver \in Nat /\ j.ver <= r.ver
    PROVE  Follows(g, r, E)
<1> SUFFICES ASSUME ~Later(g, InOut, 0) PROVE Follows(g, r, E) BY DEF Follows
<1>1. /\ r # NoRow <=> server[g].in
      /\ server[g].in =>
           \A ver \in r.ver + 1 .. server[g].ver :
             Comes(g, 0, ver) \/ \E j \in D : j.kind = "people" /\ j.ver = ver
      /\ server[g].in /\ ~Later(g, {"eph"}, 0) =>
           /\ \A j \in D : j.kind = "eph" => j.eph = server[g].eph
           /\ (\A j \in D : j.kind # "eph") => r.eph = server[g].eph
  BY DEF Follows
<1>2. ASSUME NEW ver \in r.ver + 1 .. server[g].ver, NEW j \in D, j.kind = "people", j.ver = ver
      PROVE  j \in E
  <2>1. ~(ver <= r.ver) OBVIOUS
  <2> QED BY <1>2, <2>1
<1>3. (\A j \in E : j.kind # "eph") => \A j \in D : j.kind # "eph" OBVIOUS
<1> QED BY <1>1, <1>2, <1>3 DEF Follows

\* The oldest update of a row.
LEMMA FollowsUpdate ==
    ASSUME NEW g, NEW r, NEW s, r.ver \in Nat, s.ver \in Nat, r # NoRow, s # NoRow,
           NEW D, NEW j, Follows(g, r, D \cup {j}),
           \/ j.kind = "people" /\ j.ver = r.ver + 1 /\ s.ver = j.ver /\ s.eph = r.eph
           \/ j.kind = "eph" /\ s.ver = r.ver /\ s.eph = j.eph
    PROVE  Follows(g, s, D)
<1> SUFFICES ASSUME ~Later(g, InOut, 0) PROVE Follows(g, s, D) BY DEF Follows
<1>1. /\ server[g].in
      /\ \A ver \in r.ver + 1 .. server[g].ver :
           Comes(g, 0, ver) \/ \E i \in D \cup {j} : i.kind = "people" /\ i.ver = ver
      /\ ~Later(g, {"eph"}, 0) =>
           /\ \A i \in D \cup {j} : i.kind = "eph" => i.eph = server[g].eph
           /\ (\A i \in D \cup {j} : i.kind # "eph") => r.eph = server[g].eph
  BY DEF Follows
<1>2. ASSUME NEW ver \in s.ver + 1 .. server[g].ver
      PROVE  Comes(g, 0, ver) \/ \E i \in D : i.kind = "people" /\ i.ver = ver
  <2>1. ver \in r.ver + 1 .. server[g].ver BY <1>2
  <2>2. ~(j.kind = "people" /\ j.ver = ver) BY <1>2
  <2> QED BY <1>1, <2>1, <2>2
<1>3. ~Later(g, {"eph"}, 0) =>
        /\ \A i \in D : i.kind = "eph" => i.eph = server[g].eph
        /\ (\A i \in D : i.kind # "eph") => s.eph = server[g].eph
  BY <1>1
<1> QED BY <1>1, <1>2, <1>3 DEF Follows

\* What WhatsApp has needs no update.
LEMMA FollowsServer ==
    ASSUME Truth, NEW g \in Groups, NEW D,
           ~Later(g, InOut, 0) /\ server[g].in /\ ~Later(g, {"eph"}, 0) =>
             \A j \in D : j.kind = "eph" => j.eph = server[g].eph
    PROVE  Follows(g, ServerRow(g), D)
<1>1. server[g].ver \in Versions(g) /\ server[g].ver \in Nat /\ server[g].eph \in BOOLEAN BY DEF Truth
<1> DEFINE r == RowAt(g, server[g].ver, server[g].eph)
<1>2. r # NoRow /\ r.ver = server[g].ver /\ r.eph = server[g].eph
  BY <1>1, RowAtIsTrue, TrueRowIsStored DEF RowAt
<1>3. server[g].ver + 1 .. server[g].ver = {} BY <1>1
<1> HIDE DEF r
<1>4. ServerRow(g) = IF server[g].in THEN r ELSE NoRow BY DEF ServerRow, r
<1>5. CASE server[g].in BY <1>2, <1>3, <1>4, <1>5 DEF Follows
<1>6. CASE ~server[g].in BY <1>4, <1>6 DEF Follows
<1> QED BY <1>5, <1>6

\* Statements neither handle events nor send any.
LEMMA FollowsOn ==
    ASSUME events' = events, server' = server, NEW g, NEW r, NEW D
    PROVE  Follows(g, r, D)' <=> Follows(g, r, D)
BY DEF Follows, Later, Comes

\* What WhatsApp changes, an event tells.
LEMMA FollowsChanges ==
    ASSUME Truth, ServerChanges, NEW g \in Groups \ unsure', NEW r, NEW D, Follows(g, r, D)
    PROVE  Follows(g, r, D)'
<1>1. PICK h \in Groups, e \in EventJobs :
        /\ events' = Append(events, e) /\ e.g = h
        /\ \A x \in Groups : x # h => server'[x] = server[x]
        /\ server[h].ver \in Nat /\ server'[h].ver \in Nat /\ e.ver = server'[h].ver
        /\ e.eph = server'[h].eph
        /\ \/ /\ e.kind = "joined" /\ server'[h].in
              /\ server'[h].ver = server[h].ver /\ server'[h].eph = server[h].eph
           \/ /\ e.kind = "left" /\ ~server'[h].in
              /\ server'[h].ver = server[h].ver /\ server'[h].eph = server[h].eph
           \/ /\ e.kind = "people" /\ server[h].in /\ (server'[h].in \/ h \in unsure')
              /\ server'[h].ver = server[h].ver + 1 /\ server'[h].eph = server[h].eph
           \/ /\ e.kind = "eph" /\ server[h].in /\ server'[h].in
              /\ server'[h].ver = server[h].ver
  BY ChangeCases
<1>2. /\ 0 \in 0 .. Len(events)
      /\ \A x, kinds : \A i \in 0 .. Len(events) :
           Later(x, kinds, i)' <=> Later(x, kinds, i) \/ (e.g = x /\ e.kind \in kinds)
      /\ \A x, ver : \A i \in 0 .. Len(events) :
           Comes(x, i, ver)' <=> Comes(x, i, ver) \/ (e.g = x /\ e.kind = "people" /\ e.ver = ver)
  BY <1>1, QueueAppend
<1>3. /\ \A kinds : Later(g, kinds, 0)' <=> Later(g, kinds, 0) \/ (h = g /\ e.kind \in kinds)
      /\ \A ver : Comes(g, 0, ver)' <=> Comes(g, 0, ver) \/ (h = g /\ e.kind = "people" /\ e.ver = ver)
  BY <1>1, <1>2
<1> SUFFICES ASSUME ~Later(g, InOut, 0)' PROVE Follows(g, r, D)' BY DEF Follows
<1>4. ~Later(g, InOut, 0) /\ ~(h = g /\ e.kind \in InOut) BY <1>3
<1>5. /\ r # NoRow <=> server[g].in
      /\ server[g].in =>
           \A ver \in r.ver + 1 .. server[g].ver :
             Comes(g, 0, ver) \/ \E j \in D : j.kind = "people" /\ j.ver = ver
      /\ server[g].in /\ ~Later(g, {"eph"}, 0) =>
           /\ \A j \in D : j.kind = "eph" => j.eph = server[g].eph
           /\ (\A j \in D : j.kind # "eph") => r.eph = server[g].eph
  BY <1>4 DEF Follows
<1>6. CASE h # g
  <2>1. server'[g] = server[g] BY <1>1, <1>6
  <2> QED BY <1>3, <1>5, <1>6, <2>1 DEF Follows
<1>7. CASE h = g /\ e.kind = "people"
  <2>1. /\ server[g].in /\ server'[g].in /\ server'[g].ver = server[g].ver + 1
        /\ server'[g].eph = server[g].eph /\ e.ver = server[g].ver + 1 /\ server[g].ver \in Nat
    BY <1>1, <1>7
  <2>2. ASSUME NEW ver \in r.ver + 1 .. server'[g].ver
        PROVE  Comes(g, 0, ver)' \/ \E j \in D : j.kind = "people" /\ j.ver = ver
    <3>1. ver \in r.ver + 1 .. server[g].ver \/ ver = e.ver BY <2>1, <2>2
    <3> QED BY <1>3, <1>5, <1>7, <2>1, <3>1
  <2>3. "people" \notin {"eph"} OBVIOUS
  <2> QED BY <1>3, <1>5, <1>7, <2>1, <2>2, <2>3 DEF Follows
<1>8. CASE h = g /\ e.kind = "eph"
  <2>1. server[g].in /\ server'[g].in /\ server'[g].ver = server[g].ver BY <1>1, <1>8
  <2>2. Later(g, {"eph"}, 0)' BY <1>3, <1>8
  <2> QED BY <1>3, <1>5, <2>1, <2>2 DEF Follows
<1> QED BY <1>1, <1>4, <1>6, <1>7, <1>8 DEF InOut

\* An update is at work instead of due.
LEMMA FollowsEvent ==
    ASSUME Truth, QueueTrue, NEW g \in Groups \ unsure, NEW i \in DOMAIN events, server' = server,
           events' = [j \in 1 .. Len(events) - 1 |-> events[IF j < i THEN j ELSE j + 1]],
           ~(\E j \in 1 .. i - 1 : events[j].g = events[i].g),
           NEW job, job = events[i], NEW r, NEW D, Follows(g, r, D),
           job.g = g => /\ job.kind \in {"people", "eph"}
                        /\ job.kind = "eph" => \A j \in D : j.kind # "eph",
           NEW E, E = IF job.g = g THEN D \cup {job} ELSE D
    PROVE  Follows(g, r, E)'
<1>1. /\ \A kinds : /\ Later(g, kinds, 0)
                    /\ ~(events[i].g = g /\ events[i].kind \in kinds)
                    => Later(g, kinds, 0)'
      /\ \A ver : Comes(g, 0, ver) /\ ~(events[i].g = g /\ events[i].kind = "people" /\ events[i].ver = ver)
                    => Comes(g, 0, ver)'
      /\ events[i].g = g => \A kinds : Later(g, kinds, i) => Later(g, kinds, 0)'
  BY QueueRemoval
<1> SUFFICES ASSUME ~Later(g, InOut, 0)' PROVE Follows(g, r, E)' BY DEF Follows
<1>2. ~Later(g, InOut, 0)
  <2>1. ~(events[i].g = g /\ events[i].kind \in InOut) BY DEF InOut
  <2> QED BY <1>1, <2>1
<1>3. /\ r # NoRow <=> server[g].in
      /\ server[g].in =>
           \A ver \in r.ver + 1 .. server[g].ver :
             Comes(g, 0, ver) \/ \E j \in D : j.kind = "people" /\ j.ver = ver
      /\ server[g].in /\ ~Later(g, {"eph"}, 0) =>
           /\ \A j \in D : j.kind = "eph" => j.eph = server[g].eph
           /\ (\A j \in D : j.kind # "eph") => r.eph = server[g].eph
  BY <1>2 DEF Follows
<1>4. ASSUME server[g].in, NEW ver \in r.ver + 1 .. server[g].ver
      PROVE  Comes(g, 0, ver)' \/ \E j \in E : j.kind = "people" /\ j.ver = ver
  BY <1>1, <1>3, <1>4
<1>5. ASSUME server[g].in, ~Later(g, {"eph"}, 0)'
      PROVE  /\ \A j \in E : j.kind = "eph" => j.eph = server[g].eph
             /\ (\A j \in E : j.kind # "eph") => r.eph = server[g].eph
  <2>1. CASE job.g = g /\ job.kind = "eph"
    <3>1. ~Later(g, {"eph"}, i) BY <1>1, <1>5, <2>1
    <3>2. job.eph = server[g].eph BY <2>1, <3>1 DEF QueueTrue
    <3> QED BY <2>1, <3>2
  <2>2. CASE ~(job.g = g /\ job.kind = "eph")
    <3>1. ~Later(g, {"eph"}, 0) BY <1>1, <1>5, <2>2
    <3> QED BY <1>3, <1>5, <2>2, <3>1
  <2> QED BY <2>1, <2>2
<1> QED BY <1>3, <1>4, <1>5 DEF Follows

\* The updates that other workers have to do, when worker w begins a job.
LEMMA PendOpens ==
    ASSUME Truth, NEW w \in Workers, NEW job \in TrueJobs, NEW calls \in Seq(Calls),
           NEW tangled \in BOOLEAN, Opens(w, job, calls, tangled), NEW g, NEW u, u # w
    PROVE  Pend(g, u)' = IF job.g = g /\ job.kind \in {"people", "eph"}
                           THEN Pend(g, u) \cup {job} ELSE Pend(g, u)
<1>1. /\ work[w] = Idle
      /\ work'[w].job = job /\ work'[w].calls = calls
      /\ \A v \in Workers \ {w} : work'[v].job = work[v].job /\ work'[v].calls = work[v].calls
  BY RequestWork
<1> DEFINE Of(v) == work[v].job.g = g /\ work[v].job.kind \in {"people", "eph"} /\ Undone(v)
<1>2. \A v \in Workers \ {w} : Of(v)' = Of(v) BY <1>1 DEF Undone
<1>3. ~Of(w) BY <1>1 DEF Idle, Undone
<1>4. Of(w)' <=> job.g = g /\ job.kind \in {"people", "eph"}
  <2>1. job.kind \in {"people", "eph"} => Undone(w)'
    <3> SUFFICES ASSUME job.kind \in {"people", "eph"} PROVE Undone(w)' OBVIOUS
    <3>1. calls = Plan(job) /\ Plan(job) = Waiting BY DEF Opens, Plan, Waiting
    <3> QED BY <1>1, <3>1, WaitingHead DEF Undone
  <2> QED BY <1>1, <2>1
<1>5. Pend(g, u) = {work[v].job : v \in {x \in Workers \ {u} : Of(x)}} BY DEF Pend
<1>6. Pend(g, u)' = {work'[v].job : v \in {x \in Workers \ {u} : Of(x)'}} BY DEF Pend
<1> HIDE DEF Of
<1>7. \A v \in {x \in Workers \ {u} : Of(x)'} : v # w => v \in {x \in Workers \ {u} : Of(x)} /\ work'[v].job = work[v].job
  BY <1>1, <1>2
<1>8. \A v \in {x \in Workers \ {u} : Of(x)} : v \in {x \in Workers \ {u} : Of(x)'} /\ work'[v].job = work[v].job
  BY <1>1, <1>2, <1>3
<1>9. CASE job.g = g /\ job.kind \in {"people", "eph"}
  <2>1. w \in {x \in Workers \ {u} : Of(x)'} BY <1>4, <1>9
  <2>2. ASSUME NEW j \in Pend(g, u)' PROVE j \in Pend(g, u) \cup {job} BY <1>1, <1>5, <1>6, <1>7, <2>2
  <2>3. ASSUME NEW j \in Pend(g, u) \cup {job} PROVE j \in Pend(g, u)' BY <1>1, <1>5, <1>6, <1>8, <2>1, <2>3
  <2> QED BY <1>9, <2>2, <2>3
<1>10. CASE ~(job.g = g /\ job.kind \in {"people", "eph"})
  <2>1. w \notin {x \in Workers \ {u} : Of(x)'} BY <1>4, <1>10
  <2>2. ASSUME NEW j \in Pend(g, u)' PROVE j \in Pend(g, u) BY <1>5, <1>6, <1>7, <2>1, <2>2
  <2>3. ASSUME NEW j \in Pend(g, u) PROVE j \in Pend(g, u)' BY <1>5, <1>6, <1>8, <2>3
  <2> QED BY <1>10, <2>2, <2>3
<1> QED BY <1>9, <1>10

\* Whoever has an update to do is busy.
LEMMA PendBusy ==
    ASSUME NEW g, NEW u, NEW j \in Pend(g, u)
    PROVE  \E v \in Busy : v # u /\ work[v].job = j /\ j.g = g /\ j.kind \in {"people", "eph"}
<1>1. PICK v \in Workers \ {u} : work[v].job = j /\ work[v].job.g = g
                                 /\ work[v].job.kind \in {"people", "eph"} /\ Undone(v)
  BY DEF Pend
<1>2. work[v] # Idle BY <1>1 DEF Undone, Idle
<1> QED BY <1>1, <1>2 DEF Busy

\* What the row that an event brings leads to.
LEMMA FollowsFirst ==
    ASSUME Truth, QueueTrue, NEW g \in Groups \ unsure, NEW i \in DOMAIN events, server' = server,
           events' = [j \in 1 .. Len(events) - 1 |-> events[IF j < i THEN j ELSE j + 1]],
           ~(\E j \in 1 .. i - 1 : events[j].g = events[i].g),
           events[i].g = g, events[i].kind \in InOut, NEW r,
           events[i].kind = "joined" => /\ r # NoRow /\ r.ver = events[i].ver
                                        /\ r.eph = events[i].eph,
           events[i].kind = "left" => r = NoRow
    PROVE  Follows(g, r, {})'
<1>1. /\ \A kinds : Later(g, kinds, i) => Later(g, kinds, 0)'
      /\ \A ver : Comes(g, i, ver) => Comes(g, 0, ver)'
  BY QueueRemoval
<1> SUFFICES ASSUME ~Later(g, InOut, 0)' PROVE Follows(g, r, {})' BY DEF Follows
<1>2. /\ events[i].kind = "joined" <=> server[g].in
      /\ \A ver \in events[i].ver + 1 .. server[g].ver : Comes(g, i, ver)
      /\ ~Later(g, {"eph"}, i) => events[i].eph = server[g].eph
  BY <1>1 DEF QueueTrue
<1>3. r # NoRow <=> server[g].in BY <1>2 DEF InOut
<1> QED BY <1>1, <1>2, <1>3 DEF Follows

LEMMA RequestFollows ==
    ASSUME Discipline, QueueTrue, RowFollows, OutcomesFollow, NEW w \in Workers, Request(w)
    PROVE  RowFollows' /\ OutcomesFollow'
<1>0. Truth BY DEF Discipline
<1>1. PICK job \in TrueJobs, calls \in Seq(Calls), tangled \in BOOLEAN : Opens(w, job, calls, tangled)
  BY <1>0, RequestCases
<1>2. /\ work[w] = Idle /\ work'[w].job = job /\ work'[w].calls = calls
      /\ \A v \in Workers \ {w} :
           /\ work'[v].job = work[v].job /\ work'[v].calls = work[v].calls
           /\ work'[v].got = work[v].got
      /\ row' = row /\ server' = server
      /\ \/ unsure' = Groups
         \/ /\ unsure' = unsure
            /\ ~tangled
            /\ \A v \in Busy : ~Conflict(job, work[v].job)
      /\ ~(job.kind # "left" /\ Marking(calls))
      /\ calls # <<>> /\ Head(calls).op # "existing"
  BY <1>0, <1>1, RequestWork
<1>3. CASE unsure' = Groups BY <1>3 DEF RowFollows, OutcomesFollow
<1>4. CASE unsure' # Groups
  <2>1. unsure' = unsure /\ ~tangled /\ \A v \in Busy : ~Conflict(job, work[v].job) BY <1>2, <1>4
  <2>2. job.kind \in InOut => Busy = {} BY <2>1 DEF Conflict, Unlocked, InOut
  <2> DEFINE Mine(g) == job.kind \in InOut /\ job.g = g
  <2>3. ASSUME NEW g \in Groups \ unsure, ~Mine(g), NEW u, u # w, NEW r,
               Follows(g, r, Pend(g, u)), NEW D, D = Pend(g, u)'
        PROVE  Follows(g, r, D)'
    <3>1. D = IF job.g = g /\ job.kind \in {"people", "eph"} THEN Pend(g, u) \cup {job} ELSE Pend(g, u)
      BY <1>0, <1>1, <2>3, PendOpens
    <3>2. CASE job.kind \in EventKinds
      <4>1. PICK i \in DOMAIN events :
              /\ job = events[i]
              /\ tangled = \E j \in 1 .. i - 1 : events[j].g = events[i].g
              /\ events' = [j \in 1 .. Len(events) - 1 |-> events[IF j < i THEN j ELSE j + 1]]
        BY <1>1, <3>2 DEF Opens
      <4>2. ~(\E j \in 1 .. i - 1 : events[j].g = events[i].g) BY <2>1, <4>1
      <4>3. job.g = g => job.kind \in {"people", "eph"} BY <2>3, <3>2 DEF EventKinds, InOut
      <4>4. ASSUME job.g = g, job.kind = "eph", NEW j \in Pend(g, u) PROVE j.kind # "eph"
        <5>1. PICK v \in Busy : work[v].job = j /\ j.g = g BY PendBusy
        <5>2. ~Conflict(job, j) BY <2>1, <5>1
        <5> QED BY <4>4, <5>1, <5>2 DEF Conflict
      <4>5. D = IF job.g = g THEN Pend(g, u) \cup {job} ELSE Pend(g, u) BY <3>1, <4>3
      <4>6. PICK P : P = Pend(g, u) OBVIOUS
      <4>7. Follows(g, r, P) /\ (job.g = g /\ job.kind = "eph" => \A j \in P : j.kind # "eph")
        BY <2>3, <4>4, <4>6
      <4>8. D = IF job.g = g THEN P \cup {job} ELSE P BY <4>5, <4>6
      <4> HIDE DEF Mine
      <4> QED BY <1>0, <1>2, <4>1, <4>2, <4>3, <4>7, <4>8, FollowsEvent
    <3>3. CASE job.kind \notin EventKinds
      <4>1. events' = events BY <1>1, <3>3 DEF Opens
      <4>2. D = Pend(g, u) BY <3>1, <3>3 DEF EventKinds
      <4>3. Follows(g, r, D) BY <2>3, <4>2
      <4> QED BY <1>2, <4>1, <4>3, FollowsOn
    <3> QED BY <3>2, <3>3
  <2>4. ASSUME NEW g \in Groups \ unsure', NEW r, r = row'[g], NEW D, D = Pend(g, None)'
        PROVE  Writer(g)' \/ Follows(g, r, D)'
    <3>1. CASE Mine(g)
      <4>1. Writer(g)' BY <1>2, <3>1 DEF Writer
      <4> QED BY <4>1
    <3>2. CASE ~Mine(g) /\ Writer(g)
      <4>1. PICK v \in Workers : work[v].job.kind \in InOut /\ work[v].job.g = g BY <3>2 DEF Writer
      <4>2. v # w BY <1>2, <4>1 DEF Idle, Job, InOut
      <4>3. Writer(g)' BY <1>2, <4>1, <4>2 DEF Writer
      <4> QED BY <4>3
    <3>3. CASE ~Mine(g) /\ ~Writer(g)
      <4>1. g \in Groups \ unsure /\ r = row[g] BY <1>2, <2>1, <2>4
      <4>2. Follows(g, r, Pend(g, None)) BY <3>3, <4>1 DEF RowFollows
      <4>3. None # w BY CacheAssumption
      <4> HIDE DEF Mine
      <4> QED BY <2>3, <2>4, <3>3, <4>1, <4>2, <4>3
    <3> QED BY <3>1, <3>2, <3>3
  <2>5. RowFollows' BY <2>4 DEF RowFollows, Follows
  <2>6. ASSUME NEW g \in Groups \ unsure', NEW v \in Workers, NEW r \in Outcomes(v, g)',
               NEW D, D = Pend(g, v)'
        PROVE  Follows(g, r, D)'
    <3>1. g \in Groups \ unsure BY <2>1
    <3>2. CASE v # w
      <4>1. r \in Outcomes(v, g) BY <1>2, <2>6, <3>2 DEF Outcomes, Listed, Calling, Refreshing
      <4>2. v \in Busy
        <5>1. Left(<<>>) = {} /\ Idle.calls = <<>> BY ShortSequences DEF Idle
        <5>2. work[v] # Idle BY <4>1, <5>1 DEF Outcomes, Listed, Calling, Refreshing, Marking
        <5> QED BY <5>2 DEF Busy
      <4>3. ~Mine(g) BY <2>2, <4>2
      <4>4. Follows(g, r, Pend(g, v)) BY <3>1, <4>1 DEF OutcomesFollow
      <4> HIDE DEF Mine
      <4> QED BY <2>3, <2>6, <3>1, <3>2, <4>3, <4>4
    <3>3. CASE v = w
      <4>1. ~Listed(w)' BY <1>2 DEF Listed, Calling, Refreshing
      <4>2. PICK c \in Left(calls) : /\ c.g = g /\ c.op \in {"put", "del"}
                                     /\ c.op = "put" => r = c.row
                                     /\ c.op = "del" => r = NoRow
        BY <1>2, <2>6, <3>3, <4>1 DEF Outcomes
      <4>3. \/ job.kind = "joined" /\ c = Call("put", job.g, RowAt(job.g, job.ver, job.eph))
            \/ job.kind = "left" /\ c = Call("del", job.g, NoRow)
        BY <1>1, <4>2, OpeningWrites DEF Opens
      <4>4. Mine(g) /\ job.kind \in EventKinds BY <4>2, <4>3, CallFields DEF InOut, EventKinds
      <4>5. PICK i \in DOMAIN events :
              /\ job = events[i]
              /\ tangled = \E j \in 1 .. i - 1 : events[j].g = events[i].g
              /\ events' = [j \in 1 .. Len(events) - 1 |-> events[IF j < i THEN j ELSE j + 1]]
        BY <1>1, <4>4 DEF Opens
      <4>6. ~(\E j \in 1 .. i - 1 : events[j].g = events[i].g) BY <2>1, <4>5
      <4>7. job.kind = "joined" => /\ r # NoRow /\ r.ver = job.ver /\ r.eph = job.eph
        <5> SUFFICES ASSUME job.kind = "joined" PROVE r # NoRow /\ r.ver = job.ver /\ r.eph = job.eph
          OBVIOUS
        <5>1. r = RowAt(job.g, job.ver, job.eph) BY <4>2, <4>3, CallFields
        <5>2. job.g \in Groups /\ job.ver \in Versions(job.g) /\ job.eph \in BOOLEAN
          BY DEF TrueJobs, Jobs, EventKinds
        <5>3. r # NoRow BY <5>1, <5>2, RowAtIsTrue, TrueRowIsStored
        <5> QED BY <5>1, <5>3 DEF RowAt
      <4>8. job.kind = "left" => r = NoRow BY <4>2, <4>3, CallFields
      <4>9. D = {}
        <5>1. ASSUME NEW u \in Workers \ {w} PROVE ~Undone(u)'
          <6>1. u \notin Busy BY <2>2, <4>4
          <6>2. work[u].calls = <<>> BY <6>1 DEF Busy, Idle
          <6> QED BY <1>2, <6>2 DEF Undone
        <5> QED BY <2>6, <3>3, <5>1 DEF Pend
      <4>10. Follows(g, r, {})'
        BY <1>0, <1>2, <3>1, <4>4, <4>5, <4>6, <4>7, <4>8, FollowsFirst
      <4> QED BY <4>9, <4>10
    <3> QED BY <3>2, <3>3
  <2>7. OutcomesFollow' BY <2>6 DEF OutcomesFollow, Follows
  <2> QED BY <2>5, <2>7
<1> QED BY <1>3, <1>4

-----------------------------------------------------------------------------
(* The end of a job *)

\* Inductive, given Truth and Forms: outside of a refresh an update puts its own group.
Own ==
    \A w \in Workers :
        work[w].job.kind \in {"people", "eph"} /\ ~Marking(work[w].calls) =>
            \A c \in Left(work[w].calls) : c.op = "put" => c.g = work[w].job.g

LEMMA StatementOwn ==
    ASSUME Truth, Forms, Own, NEW w \in Workers, Lock(w) \/ Statement(w)
    PROVE  Own'
<1>1. /\ \A v \in Workers \ {w} : work'[v] = work[v]
      /\ work'[w] = Idle \/ work'[w].job = work[w].job
      /\ work[w].calls # <<>>
  BY StatementWork
<1> SUFFICES ASSUME work'[w].job.kind \in {"people", "eph"}, ~Marking(work'[w].calls),
                    NEW c \in Left(work'[w].calls), c.op = "put"
             PROVE  c.g = work'[w].job.g
  BY <1>1 DEF Own
<1>2. work'[w].job = work[w].job BY <1>1 DEF Idle, Job
<1>3. CASE c \in Left(Rest(w)) /\ work'[w].calls = Rest(w)
  <2>1. /\ Left(work[w].calls) = {This(w)} \cup Left(Rest(w))
        /\ Before(This(w), c)
    BY <1>1, <1>3, HeadForm
  <2>2. This(w).op \notin {"mark", "del"} BY <2>1 DEF Before
  <2>3. ~Marking(work[w].calls) BY <1>3, <2>1, <2>2 DEF Marking
  <2> QED BY <1>2, <1>3, <2>1, <2>3 DEF Own
<1>4. CASE GetAllGroups(w) /\ c.g \in Reported(w)
  <2> DEFINE got == work[w].got
             stale == {h \in Groups : row[h] # NoRow} \ Reported(w)
             sets == {Call("set", h, got[h]) : h \in Reported(w)}
             puts == {Call("put", h, got[h]) : h \in Reported(w)}
             unsets == {Call("unset", h, NoRow) : h \in stale}
             dels == {Call("del", h, NoRow) : h \in stale}
             mark == IF Reported(w) = {} THEN {} ELSE {Do("mark")}
  <2>1. PICK calls : /\ Continue(w, calls)
                     /\ Left(calls) = sets \cup puts \cup unsets \cup dels \cup mark \cup Left(Rest(w))
    BY <1>4, RefreshedWork
  <2>2. Do("mark") \in Left(calls) BY <1>4, <2>1
  <2>3. work'[w].calls = calls BY <2>1, ContinueCalls
  <2> HIDE DEF sets, puts, unsets, dels, mark, stale
  <2> QED BY <2>2, <2>3, DoFacts DEF Marking
<1>5. CASE c = Call("put", work[w].job.g, Renewed(w)) BY <1>2, <1>5, CallFields
<1>6. \/ c \in Left(Rest(w)) /\ work'[w].calls = Rest(w)
      \/ GetAllGroups(w) /\ c.g \in Reported(w)
      \/ c = Call("put", work[w].job.g, Renewed(w))
      \/ work[w].job.kind = "share"
  BY WritesAfter
<1> QED BY <1>2, <1>3, <1>4, <1>5, <1>6

LEMMA StepKeepsOwn == Truth /\ Forms /\ Own /\ [Next]_vars => Own'
<1> SUFFICES ASSUME Truth, Forms, Own, [Next]_vars PROVE Own' OBVIOUS
<1>1. ASSUME NEW w \in Workers, Request(w) PROVE Own'
  <2>1. PICK job \in TrueJobs, calls \in Seq(Calls), tangled \in BOOLEAN : Opens(w, job, calls, tangled)
    BY <1>1, RequestCases
  <2>2. /\ work'[w].job = job /\ work'[w].calls = calls
        /\ \A v \in Workers \ {w} : work'[v].job = work[v].job /\ work'[v].calls = work[v].calls
    BY <2>1, RequestWork
  <2>3. ASSUME NEW c \in Left(calls), c.op = "put" PROVE job.kind = "joined"
    <3>1. job.kind = "joined" \/ c = Call("del", job.g, NoRow) BY <2>1, <2>3, OpeningWrites DEF Opens
    <3> QED BY <2>3, <3>1, CallFields
  <2> QED BY <2>2, <2>3 DEF Own
<1>2. ASSUME NEW w \in Workers, Lock(w) \/ Statement(w) PROVE Own' BY <1>2, StatementOwn
<1>3. CASE ServerChanges \/ Age \/ UNCHANGED vars
  <2>1. work' = work BY <1>3, ChangeCases DEF Age, vars
  <2> QED BY <2>1 DEF Own
<1>4. CASE Restart
  <2>1. work' = [w \in Workers |-> Idle] BY <1>4 DEF Restart
  <2>2. Left(<<>>) = {} /\ Idle.calls = <<>> BY ShortSequences DEF Idle
  <2> QED BY <2>1, <2>2 DEF Own
<1> QED BY <1>1, <1>2, <1>3, <1>4 DEF Next

LEMMA InitOwn == Init => Own
<1> SUFFICES ASSUME Init PROVE Own OBVIOUS
<1>1. work = [w \in Workers |-> Idle] BY DEF Init
<1>2. Left(<<>>) = {} /\ Idle.calls = <<>> BY ShortSequences DEF Idle
<1> QED BY <1>1, <1>2 DEF Own

\* Who is done does not write any more.
LEMMA DoneAfter ==
    ASSUME Truth, Forms, NEW w \in Workers, Lock(w) \/ Statement(w), ~Undone(w)'
    PROVE  \A c \in Left(work'[w].calls) : c.op \in {"unlock", "peek"}
<1> DEFINE s == work'[w].calls
<1>1. Truth' /\ Forms'
  <2>1. Next BY DEF Next
  <2> QED BY <2>1, StepKeepsTruth, StepKeepsForms
<1>2. s \in Seq(Calls)
  <2>1. work'[w].calls \in Seq(Calls) BY <1>1 DEF Truth, TrueWorks
  <2> QED BY <2>1
<1>3. s # <<>> => Ordered(s) /\ Head(s).op = "unlock"
  BY <1>1 DEF Forms, Form, Undone
<1> HIDE DEF s
<1>4. CASE s = <<>> BY <1>4, ShortSequences DEF s
<1>5. CASE s # <<>>
  <2>1. Left(s) = {Head(s)} \cup Left(Tail(s)) BY <1>2, <1>5, LeftTail
  <2>2. \A c \in Left(Tail(s)) : Before(Head(s), c) BY <1>2, <1>3, <1>5, OrderedTail
  <2>3. \A c \in Left(Tail(s)) : c.op = "peek" BY <1>3, <1>5, <2>2 DEF Before
  <2>4. \A c \in Left(s) : c.op \in {"unlock", "peek"} BY <1>3, <1>5, <2>1, <2>3
  <2> QED BY <2>4 DEF s
<1> QED BY <1>4, <1>5

\* The setting of a row comes before the row.
LEMMA SettingLeads ==
    ASSUME Truth, Forms, NEW w \in Workers, work[w].calls # <<>>, work[w].job.kind # "chat",
           This(w).op \in {"set", "unset"}
    PROVE  /\ Rest(w) # <<>> /\ Head(Rest(w)) \in Left(Rest(w))
           /\ This(w).op = "set" => Head(Rest(w)) = Call("put", This(w).g, This(w).row)
           /\ This(w).op = "unset" => Head(Rest(w)) = Call("del", This(w).g, NoRow)
<1> DEFINE s == work[w].calls
           t == Rest(w)
<1>1. s \in Seq(Calls) /\ t \in Seq(Calls) /\ Paired(s)
  BY HeadForm DEF Form
<1>2. s # <<>> /\ This(w) = Head(s) /\ t = Tail(s) BY DEF This, Rest
<1> HIDE DEF s, t
<1>3. /\ Len(s) \in Nat \ {0} /\ Head(s) = s[1] /\ Len(t) = Len(s) - 1
      /\ \A i \in 1 .. Len(t) : t[i] = s[i + 1]
  BY <1>1, <1>2, HeadTail
<1>4. /\ s[1].op = "set" => 1 < Len(s) /\ s[1 + 1] = Call("put", s[1].g, s[1].row)
      /\ s[1].op = "unset" => 1 < Len(s) /\ s[1 + 1] = Call("del", s[1].g, NoRow)
  BY <1>1, <1>3 DEF Paired
<1>5. 1 < Len(s) BY <1>2, <1>3, <1>4
<1>6. t # <<>> /\ 1 \in 1 .. Len(t) /\ Head(t) = t[1] /\ t[1] = s[1 + 1]
  BY <1>1, <1>3, <1>5
<1>7. Head(t) \in Left(t) BY <1>6 DEF Left
<1> QED BY <1>2, <1>3, <1>4, <1>6, <1>7 DEF t

\* How the last call of an update ends it: with the row that was reported, with the row that
\* it puts, or given up when the row is not older.
LEMMA DoneCases ==
    ASSUME Discipline, Progress, Own, NEW w \in Workers, Lock(w) \/ Statement(w),
           NEW g \in Groups \ unsure, g \notin unsure',
           work[w].job.kind \in {"people", "eph"}, work[w].job.g = g,
           Undone(w), ~Undone(w)'
    PROVE  \/ /\ Listed(w) /\ row'[g] = work[w].got[g]
              /\ \/ work[w].got[g] = NoRow
                 \/ Refreshing(w) /\ work'[w].calls = Rest(w) /\ (Plain(w) \/ CallSkipped(w))
           \/ PutGroup(w) /\ This(w).g = g
           \/ row' = row /\ work[w].job.kind = "people" /\ row[g].ver >= work[w].job.ver
<1>0. Truth /\ Sections /\ Forms BY DEF Discipline
<1>1. /\ work[w].calls # <<>> /\ This(w).op # "unlock" BY DEF Undone, This
<1>2. ~Owed(work'[w].calls, g) BY <1>0, DoneAfter DEF Owed
<1>3. ASSUME work'[w].calls = Rest(w) PROVE This(w).op \notin {"set", "unset"}
  <2> SUFFICES ASSUME This(w).op \in {"set", "unset"} PROVE FALSE OBVIOUS
  <2>1. /\ Rest(w) # <<>>
        /\ Head(Rest(w)) = Call("put", This(w).g, This(w).row) \/ Head(Rest(w)) = Call("del", This(w).g, NoRow)
    BY <1>0, <1>1, SettingLeads
  <2>2. Head(Rest(w)).op # "unlock" BY <2>1, CallFields
  <2> QED BY <1>3, <2>1, <2>2 DEF Undone
<1>4. ASSUME Plain(w) \/ CallSkipped(w) PROVE work'[w].calls = Rest(w)
  <2>1. CASE Plain(w) BY <1>0, <2>1, PlainFacts, ContinueCalls
  <2>2. CASE CallSkipped(w)
    <3>1. Idle.calls = <<>> BY DEF Idle
    <3> QED BY <1>0, <2>2, <3>1, SkippedWork
  <2> QED BY <1>4, <2>1, <2>2
<1>5. ASSUME Refreshing(w), Plain(w) \/ (CallSkipped(w) /\ g # This(w).g)
      PROVE  Listed(w) /\ row'[g] = work[w].got[g] /\ work'[w].calls = Rest(w)
  <2>1. Owed(Rest(w), g) \/ row'[g] = work[w].got[g] BY <1>5, RefreshGoesOn
  <2> QED BY <1>2, <1>4, <1>5, <2>1 DEF Listed
<1>6. ASSUME This(w).op \in {"mark", "del"} PROVE Refreshing(w)
  <2>1. This(w) \in Left(work[w].calls) BY <1>0, <1>1, HeadForm
  <2> QED BY <1>6, <2>1 DEF Refreshing, Marking
<1>7. CASE Lock(w)
  <2>1. This(w).op = "lock" BY <1>7 DEF Lock, Calling, This
  <2>2. work[w].calls = Waiting
    <3>1. InOrder(work[w].calls, lock = w) BY <1>0 DEF Sections
    <3>2. work[w].calls \in Seq(Calls) BY <1>0, WorkFacts
    <3>3. ~Inside(work[w].calls) BY <1>1, <2>1, <3>2, TailFacts DEF This
    <3>4. ~Outside(work[w].calls)
      <4>1. Outside(work[w].calls) => Outer(Head(work[w].calls)) BY <1>1, <3>2, TailFacts
      <4> QED BY <2>1, <4>1 DEF Outer, This
    <3> QED BY <3>1, <3>3, <3>4 DEF InOrder
  <2> DEFINE x == Do("lock")
             y == Do("load")
             z == Do("unlock")
             j == Do("joined")
             calls == IF fresh THEN Rest(w) ELSE <<j, z>>
  <2>3. Rest(w) = Tail(<<x, y, z>>) BY <2>2 DEF Rest, Waiting
  <2>4. Continue(w, calls) BY <1>7 DEF Lock
  <2>5. y.op = "load" /\ j.op = "joined" BY DoFacts
  <2> HIDE DEF x, y, z, j
  <2>6. Tail(<<x, y, z>>) = <<y, z>> OBVIOUS
  <2>7. calls # <<>> /\ Head(calls).op # "unlock" BY <2>3, <2>5, <2>6
  <2> HIDE DEF calls
  <2>8. work'[w].calls = calls BY <1>0, <2>4, ContinueCalls
  <2> QED BY <2>7, <2>8 DEF Undone
<1>8. CASE GetJoinedGroups(w)
  <2> DEFINE c == Do("existing")
             rest == Rest(w)
  <2>1. work'[w].calls = <<c>> \o rest BY <1>0, <1>8, JoinedWork
  <2>2. rest \in Seq(Calls) /\ c.op = "existing" BY <1>0, <1>1, HeadForm, DoFacts
  <2> HIDE DEF c, rest
  <2>3. <<c>> \o rest # <<>> /\ Head(<<c>> \o rest) = c BY <2>2
  <2> QED BY <2>1, <2>2, <2>3 DEF Undone
<1>9. CASE GetAllGroups(w)
  <2>1. /\ Owed(work'[w].calls, g) \/ (row[g] = work[w].got[g] /\ row[g] = NoRow)
        /\ row' = row /\ Calling(w, "existing")
    BY <1>0, <1>9, RefreshBegins
  <2> QED BY <1>2, <2>1 DEF Listed
<1>10. CASE GetGroupToUpdate(w)
  <2> DEFINE c == Call("put", g, Renewed(w))
             d == Call("set", g, Renewed(w))
             rest == Rest(w)
  <2>1. /\ work'[w].calls = Renewing(w) \o rest
        /\ rest \in Seq(Calls)
    BY <1>0, <1>1, <1>10, RenewedRow, HeadForm
  <2>2. Renewing(w) = <<c>> \/ Renewing(w) = <<d, c>> BY DEF Renewing
  <2>3. c.op = "put" /\ d.op = "set" BY CallFields
  <2> HIDE DEF c, d, rest
  <2>4. /\ <<c>> \o rest # <<>> /\ Head(<<c>> \o rest) = c
        /\ <<d, c>> \o rest # <<>> /\ Head(<<d, c>> \o rest) = d
    BY <2>1
  <2> QED BY <2>1, <2>2, <2>3, <2>4 DEF Undone
<1>11. CASE GetGroupToShare(w)
  <2>1. This(w).op = "peek" BY <1>11 DEF GetGroupToShare, Calling, This
  <2> QED BY <1>0, <1>1, <2>1, HeadFacts DEF CallsOf
<1>12. CASE PutGroup(w)
  <2>1. CASE Refreshing(w) BY <1>5, <1>12, <2>1 DEF Plain
  <2>2. CASE ~Refreshing(w)
    <3>1. This(w) \in Left(work[w].calls) /\ This(w).op = "put" BY <1>0, <1>12, PutFacts
    <3>2. ~Marking(work[w].calls) BY <2>2 DEF Refreshing
    <3> QED BY <1>12, <3>1, <3>2 DEF Own
  <2> QED BY <2>1, <2>2
<1>13. CASE DeleteGroup(w) \/ MarkFresh(w)
  <2>1. This(w).op \in {"mark", "del"} BY <1>13 DEF DeleteGroup, MarkFresh, Calling, This
  <2> QED BY <1>5, <1>6, <1>13, <2>1 DEF Plain
<1>14. CASE UpdateSetting(w) \/ DeleteSetting(w)
  <2>1. This(w).op \in {"set", "unset"} BY <1>14 DEF UpdateSetting, DeleteSetting, Calling, This
  <2> QED BY <1>3, <1>4, <1>14, <2>1 DEF Plain
<1>15. CASE CallSkipped(w)
  <2>1. This(w).op \in {"set", "unset", "del"} /\ g # This(w).g BY <1>15 DEF CallSkipped, Skip
  <2>2. This(w).op = "del" BY <1>3, <1>4, <1>15, <2>1
  <2> QED BY <1>5, <1>6, <1>15, <2>1, <2>2
<1>16. CASE CallAborts(w)
  <2>1. ~Again(w)
    <3>1. Again(w) => work'[w].calls = Waiting BY <1>0, <1>16, AbortedWork
    <3> QED BY <3>1, WaitingHead DEF Undone
  <2>2. row' = row /\ unsure' = unsure \cup Missed(w) BY <1>16 DEF CallAborts, cacheVars
  <2>3. ~(work[w].job.kind = "eph" \/ (work[w].job.kind = "people" /\ row[g].ver < work[w].job.ver))
    BY <2>1, <2>2 DEF Missed
  <2>4. row[g].ver \in Nat BY <1>0, VersionFacts
  <2>5. work[w].job.ver \in Nat
    <3>1. work[w].job \in TrueJobs BY <1>0, WorkFacts
    <3> QED BY <3>1 DEF TrueJobs, Jobs
  <2>6. work[w].job.kind = "people" /\ ~(row[g].ver < work[w].job.ver) BY <2>3
  <2>7. \A m, n \in Nat : ~(m < n) => m >= n OBVIOUS
  <2>8. row[g].ver >= work[w].job.ver BY <2>4, <2>5, <2>6, <2>7
  <2> QED BY <2>2, <2>6, <2>8
<1>17. CASE Unlock(w)
  <2>1. This(w).op = "unlock" BY <1>17 DEF Unlock, Calling, This
  <2> QED BY <1>1, <2>1
<1> QED BY StatementCases, <1>7, <1>8, <1>9, <1>10, <1>11, <1>12, <1>13, <1>14, <1>15, <1>16, <1>17

-----------------------------------------------------------------------------
(* What a statement leads to *)

LEMMA PendStays ==
    ASSUME Truth, NEW w \in Workers, Lock(w) \/ Statement(w), NEW g
    PROVE  Pend(g, w)' = Pend(g, w)
<1>1. \A v \in Workers \ {w} : work'[v] = work[v] BY StatementWork
<1> QED BY <1>1 DEF Pend, Undone

\* The updates of a group, those of worker w apart.
LEMMA PendSplit ==
    ASSUME NEW w \in Workers, NEW g
    PROVE  Pend(g, None) = Pend(g, w) \cup
             (IF work[w].job.g = g /\ work[w].job.kind \in {"people", "eph"} /\ Undone(w)
                THEN {work[w].job} ELSE {})
<1> DEFINE Of(v) == work[v].job.g = g /\ work[v].job.kind \in {"people", "eph"} /\ Undone(v)
<1>1. /\ Pend(g, None) = {work[v].job : v \in {x \in Workers \ {None} : Of(x)}}
      /\ Pend(g, w) = {work[v].job : v \in {x \in Workers \ {w} : Of(x)}}
  BY DEF Pend
<1> HIDE DEF Of
<1>2. None \notin Workers BY CacheAssumption
<1>3. Pend(g, None) = Pend(g, w) \cup (IF Of(w) THEN {work[w].job} ELSE {}) BY <1>1, <1>2
<1> QED BY <1>3 DEF Of

\* While a group is sure, nobody joins or leaves one next to another worker.
LEMMA OneWriter ==
    ASSUME Discipline, NEW g \in Groups \ unsure, NEW w \in Workers, work[w].calls # <<>>,
           NEW v \in Workers \ {w}
    PROVE  work[v].job.kind \notin InOut
<1> SUFFICES ASSUME work[v].job.kind \in InOut PROVE FALSE OBVIOUS
<1>1. v \in Busy /\ w \in Busy BY DEF Busy, Idle, Job, InOut
<1> QED BY <1>1 DEF Discipline, Sure, Unlocked, InOut

LEMMA RowFollowsFor ==
    ASSUME Discipline, RowFollows, NEW g \in Groups \ unsure, NEW w \in Workers,
           work[w].calls # <<>>, ~(work[w].job.kind \in InOut /\ work[w].job.g = g)
    PROVE  Follows(g, row[g], Pend(g, None))
<1>1. \A v \in Workers \ {w} : work[v].job.kind \notin InOut BY OneWriter
<1>2. ~Writer(g) BY <1>1 DEF Writer
<1> QED BY <1>2 DEF RowFollows

\* Who waits or has nothing left leaves no row behind.
LEMMA NoOutcomes ==
    ASSUME NEW w \in Workers, work[w].calls \in {<<>>, Waiting}, NEW g
    PROVE  Outcomes(w, g) = {}
<1>1. ~Listed(w) BY ListedWorks
<1>2. \A c \in Left(work[w].calls) : c.op \in {"lock", "load", "unlock"} BY NothingToWrite
<1> QED BY <1>1, <1>2 DEF Outcomes

LEMMA OutcomeFacts ==
    ASSUME NEW w \in Workers, NEW g
    PROVE  /\ \A c \in Left(work[w].calls) : c.op = "put" /\ c.g = g => c.row \in Outcomes(w, g)
           /\ \A c \in Left(work[w].calls) : c.op = "del" /\ c.g = g => NoRow \in Outcomes(w, g)
           /\ Listed(w) => work[w].got[g] \in Outcomes(w, g)
BY DEF Outcomes

\* The rows that a worker may leave behind after a statement.
LEMMA NewOutcomes ==
    ASSUME Discipline, RowFollows, OutcomesFollow, NEW w \in Workers, Lock(w) \/ Statement(w),
           NEW g \in Groups \ unsure, g \notin unsure', NEW r \in Outcomes(w, g)'
    PROVE  Follows(g, r, Pend(g, w))
<1>0. Truth /\ Forms BY DEF Discipline
<1>1. work[w].calls # <<>> BY <1>0, StatementWork
<1>2. \A s \in Outcomes(w, g) : Follows(g, s, Pend(g, w)) BY DEF OutcomesFollow
<1>3. Left(work[w].calls) = {This(w)} \cup Left(Rest(w)) BY <1>0, <1>1, HeadForm
<1>4. \/ \E c \in Left(work'[w].calls) : c.op = "put" /\ c.g = g /\ r = c.row
      \/ \E c \in Left(work'[w].calls) : c.op = "del" /\ c.g = g /\ r = NoRow
      \/ Listed(w)' /\ r = work'[w].got[g]
  BY DEF Outcomes
<1>5. ASSUME NEW c \in Left(work'[w].calls), c.op \in {"put", "del"}, c.g = g,
             r = IF c.op = "put" THEN c.row ELSE NoRow
      PROVE  Follows(g, r, Pend(g, w))
  <2>1. CASE c \in Left(Rest(w))
    <3>1. r \in Outcomes(w, g) BY <1>3, <1>5, <2>1, OutcomeFacts
    <3> QED BY <1>2, <3>1
  <2>2. CASE /\ GetAllGroups(w)
             /\ c.op = "put" => c.g \in Reported(w) /\ c = Call("put", c.g, work[w].got[c.g])
             /\ c.op = "del" => c.g \notin Reported(w) /\ c.g \in Groups /\ row[c.g] # NoRow
    <3>1. c.op = "put" => c.row = work[w].got[g]
      <4> DEFINE d == Call("put", c.g, work[w].got[c.g])
      <4>1. d.row = work[w].got[c.g] BY CallFields
      <4> HIDE DEF d
      <4>2. c.op = "put" => c = d BY <2>2 DEF d
      <4> QED BY <1>5, <4>1, <4>2
    <3>2. c.op = "del" => work[w].got[g] = NoRow BY <1>5, <2>2 DEF Reported
    <3>3. r = work[w].got[g] BY <1>5, <3>1, <3>2
    <3>4. Listed(w) BY <2>2 DEF Listed, GetAllGroups
    <3>5. r \in Outcomes(w, g) BY <3>3, <3>4, OutcomeFacts
    <3> QED BY <1>2, <3>5
  <2>3. CASE GetGroupToUpdate(w) /\ c = Call("put", work[w].job.g, Renewed(w))
    <3> DEFINE job == work[w].job
    <3>1. c.op = "put" /\ c.g = job.g /\ c.row = Renewed(w) BY <2>3, CallFields
    <3>2. job.g = g /\ r = Renewed(w) BY <1>5, <3>1
    <3>3. /\ job.kind \in {"people", "eph"}
          /\ row[g] # NoRow /\ TrueRow(g, row[g]) /\ TrueRow(g, r)
          /\ job.kind = "people" => job.ver = row[g].ver + 1 /\ r = RowAt(g, job.ver, row[g].eph)
          /\ job.kind = "eph" => r = RowAt(g, row[g].ver, job.eph)
          /\ This(w).op = "load"
      BY <1>0, <2>3, <3>2, RenewedRow
    <3>4. Follows(g, row[g], Pend(g, None)) BY <1>1, <3>3, RowFollowsFor DEF InOut
    <3>5. Undone(w) BY <1>1, <3>3 DEF Undone, This
    <3>6. Pend(g, None) = Pend(g, w) \cup {job} BY <3>2, <3>3, <3>5, PendSplit
    <3>7. r # NoRow /\ r.ver \in Nat /\ row[g].ver \in Nat BY <3>3, TrueRowIsStored DEF Rows
    <3>8. \/ job.kind = "people" /\ job.ver = row[g].ver + 1 /\ r.ver = job.ver /\ r.eph = row[g].eph
          \/ job.kind = "eph" /\ r.ver = row[g].ver /\ r.eph = job.eph
      BY <3>3 DEF RowAt
    <3>9. Follows(g, row[g], Pend(g, w) \cup {job}) BY <3>4, <3>6
    <3> HIDE DEF job
    <3> QED BY <3>3, <3>7, <3>8, <3>9, FollowsUpdate
  <2>4. CASE /\ GetGroupToShare(w) /\ work[w].job.kind = "share"
             /\ c = Call("put", work[w].job.g, row[work[w].job.g])
    <3>1. r = row[g] BY <1>5, <2>4, CallFields
    <3>2. Follows(g, row[g], Pend(g, None)) BY <1>1, <2>4, RowFollowsFor DEF InOut
    <3>3. Pend(g, None) = Pend(g, w) BY <2>4, PendSplit
    <3> QED BY <3>1, <3>2, <3>3
  <2> QED BY <1>0, <1>5, <2>1, <2>2, <2>3, <2>4, WritesAfter
<1>6. ASSUME Listed(w)', r = work'[w].got[g] PROVE Follows(g, r, Pend(g, w))
  <2>1. CASE Calling(w, "existing")'
    <3>1. GetJoinedGroups(w) BY <1>0, <2>1, ExistingFrom
    <3>2. PICK none \in BOOLEAN :
            /\ work'[w].got = [h \in Groups |-> IF server[h].in /\ ~none
                                                 THEN RowAt(h, server[h].ver, server[h].eph) ELSE NoRow]
            /\ unsure' = IF none THEN Groups ELSE unsure
      BY <1>0, <3>1, JoinedWork
    <3>3. ~none BY <3>2
    <3>4. r = ServerRow(g) BY <1>6, <3>2, <3>3 DEF ServerRow
    <3>5. This(w).op = "joined" BY <3>1 DEF GetJoinedGroups, Calling, This
    <3>6. work[w].job.kind \notin InOut BY <1>0, <1>1, <3>5, HeadForm DEF InOut
    <3>7. Follows(g, row[g], Pend(g, None)) BY <1>1, <3>6, RowFollowsFor
    <3>8. Pend(g, w) \subseteq Pend(g, None) BY PendSplit
    <3>9. ~Later(g, InOut, 0) /\ server[g].in /\ ~Later(g, {"eph"}, 0) =>
            \A j \in Pend(g, w) : j.kind = "eph" => j.eph = server[g].eph
      BY <3>7, <3>8 DEF Follows
    <3> QED BY <1>0, <3>4, <3>9, FollowsServer
  <2>2. CASE Refreshing(w)'
    <3>1. /\ work'[w].got = work[w].got
          /\ Refreshing(w) \/ GetAllGroups(w)
      BY <1>0, <2>2, RefreshFrom
    <3>2. Listed(w) BY <3>1 DEF Listed, GetAllGroups
    <3>3. r \in Outcomes(w, g) BY <1>6, <3>1, <3>2, OutcomeFacts
    <3> QED BY <1>2, <3>3
  <2> QED BY <1>6, <2>1, <2>2 DEF Listed
<1>7. CASE \E c \in Left(work'[w].calls) : c.op = "put" /\ c.g = g /\ r = c.row BY <1>5, <1>7
<1>8. CASE \E c \in Left(work'[w].calls) : c.op = "del" /\ c.g = g /\ r = NoRow BY <1>5, <1>8
<1> QED BY <1>4, <1>6, <1>7, <1>8

LEMMA PendSplitNext ==
    ASSUME NEW w \in Workers, NEW g
    PROVE  Pend(g, None)' = Pend(g, w)' \cup
             (IF work'[w].job.g = g /\ work'[w].job.kind \in {"people", "eph"} /\ Undone(w)'
                THEN {work'[w].job} ELSE {})
<1> DEFINE Of(v) == work[v].job.g = g /\ work[v].job.kind \in {"people", "eph"} /\ Undone(v)
<1>1. /\ Pend(g, None)' = {work'[v].job : v \in {x \in Workers \ {None} : Of(x)'}}
      /\ Pend(g, w)' = {work'[v].job : v \in {x \in Workers \ {w} : Of(x)'}}
  BY DEF Pend
<1>2. Of(w)' <=> work'[w].job.g = g /\ work'[w].job.kind \in {"people", "eph"} /\ Undone(w)'
  OBVIOUS
<1> HIDE DEF Of
<1>3. None \notin Workers BY CacheAssumption
<1>4. Pend(g, None)' = Pend(g, w)' \cup (IF Of(w)' THEN {work'[w].job} ELSE {}) BY <1>1, <1>3
<1> QED BY <1>2, <1>4

\* A group becomes sure when it is stored as WhatsApp has it, and nobody is about to change
\* that.
LEMMA NewlySure ==
    ASSUME Discipline, Progress, Snapshot, NEW w \in Workers, Lock(w) \/ Statement(w),
           NEW g \in Groups, g \in unsure, g \notin unsure'
    PROVE  /\ MarkFresh(w) /\ work[w].alone /\ Refreshing(w) /\ row' = row /\ row[g] = ServerRow(g)
           /\ work[w].got[g] = row[g] /\ ~Owed(work[w].calls, g)
           /\ \A i \in DOMAIN events : events[i].g # g
           /\ \A v \in Workers \ {w} : /\ work[v].job.g # g
                                       /\ work[v].calls \in {<<>>, Waiting}
           /\ \A c \in Left(work'[w].calls) : c.op \in {"unlock", "peek"}
           /\ ~Listed(w)'
           /\ Pend(g, None)' = {}
<1>0. Truth /\ Sections /\ Forms /\ Held /\ Apart /\ Sure BY DEF Discipline
<1>1. MarkFresh(w) /\ work[w].alone /\ g \notin Due(w) BY <1>0, UnsureAfter
<1>2. work[w].calls # <<>> /\ This(w).op = "mark" BY <1>1 DEF MarkFresh, Calling, This
<1>3. /\ Left(work[w].calls) = {This(w)} \cup Left(Rest(w))
      /\ \A c \in Left(Rest(w)) : Before(This(w), c)
      /\ work[w].job.kind \notin {"joined", "left", "chat"}
      /\ Form(work[w].job, work[w].calls, work[w].got)
      /\ Rest(w) \in Seq(Calls)
  BY <1>0, <1>2, HeadForm
<1>4. \A c \in Left(Rest(w)) : c.op \in {"unlock", "peek"} BY <1>2, <1>3 DEF Before
<1>5. ~Owed(work[w].calls, g) BY <1>2, <1>3, <1>4 DEF Owed
<1>6. Refreshing(w) BY <1>2, <1>3 DEF Refreshing, Marking
<1>7. row[g] = work[w].got[g] BY <1>1, <1>5, <1>6 DEF Progress
<1>8. Reported(w) # {}
  <2>1. \E h \in Groups : work[w].got[h] # NoRow BY <1>2, <1>3 DEF Form
  <2> QED BY <2>1 DEF Reported
<1>9. work[w].got[g] = ServerRow(g) BY <1>1, <1>6, <1>8 DEF Snapshot, Listed
<1>10. work'[w].calls = Rest(w) BY <1>0, <1>1, ContinueCalls DEF MarkFresh
<1>11. ~Listed(w)'
  <2>1. ~Refreshing(w)' BY <1>4, <1>10 DEF Refreshing, Marking
  <2>2. ~Calling(w, "existing")'
    <3>1. Rest(w) # <<>> => Head(Rest(w)) \in Left(Rest(w)) BY <1>3, LeftTail
    <3> QED BY <1>4, <1>10, <3>1 DEF Calling
  <2> QED BY <2>1, <2>2 DEF Listed
<1>12. work[w].calls # Waiting BY <1>2, WaitingHead DEF This
<1>13. \A v \in Workers \ {w} : /\ work[v].job.g # g
                                /\ work[v].calls \in {<<>>, Waiting}
  BY <1>0, <1>1, <1>2, <1>12, Quiet DEF Due
<1>14. Pend(g, None)' = {}
  <2>1. \A v \in Workers \ {w} : work'[v] = work[v] BY <1>0, StatementWork
  <2>2. Pend(g, w)' = {} BY <1>13, <2>1 DEF Pend
  <2>3. ~(work'[w].job.kind \in {"people", "eph"} /\ Undone(w)')
    <3> SUFFICES ASSUME work'[w].job.kind \in {"people", "eph"}, Undone(w)' PROVE FALSE OBVIOUS
    <3>1. Rest(w) # <<>> /\ Head(Rest(w)).op # "unlock" BY <1>10 DEF Undone
    <3>2. Head(Rest(w)) \in Left(Rest(w)) BY <1>3, <3>1, LeftTail
    <3>3. Head(Rest(w)).op = "peek" BY <1>4, <3>1, <3>2
    <3>4. work'[w].job = work[w].job
      <4>1. work'[w] = Idle \/ work'[w].job = work[w].job BY <1>0, StatementWork
      <4>2. Idle.job.kind = "none" BY DEF Idle, Job
      <4> QED BY <4>1, <4>2
    <3>5. Head(Rest(w)) \in Left(work[w].calls) BY <1>3, <3>2
    <3>6. Head(Rest(w)) \in CallsOf(work[w].job.kind) BY <1>0, <3>5, CallFacts
    <3> QED BY <3>3, <3>4, <3>6 DEF CallsOf
  <2> QED BY <2>2, <2>3, PendSplitNext
<1>15. \A i \in DOMAIN events : events[i].g # g BY <1>1 DEF Due
<1> QED BY <1>1, <1>4, <1>5, <1>6, <1>7, <1>9, <1>10, <1>11, <1>13, <1>14, <1>15 DEF MarkFresh

LEMMA StatementOutcomes ==
    ASSUME Discipline, Progress, Snapshot, RowFollows, OutcomesFollow,
           NEW w \in Workers, Lock(w) \/ Statement(w)
    PROVE  OutcomesFollow'
<1>0. Truth BY DEF Discipline
<1>1. /\ \A v \in Workers \ {w} : work'[v] = work[v]
      /\ events' = events /\ server' = server
  BY <1>0, StatementWork
<1>2. \A v \in Workers \ {w} : \A g : Outcomes(v, g)' = Outcomes(v, g)
  BY <1>1 DEF Outcomes, Listed, Calling, Refreshing
<1>3. ASSUME NEW g \in Groups \ unsure', NEW v \in Workers, NEW r \in Outcomes(v, g)',
             NEW D, D = Pend(g, v)'
      PROVE  Follows(g, r, D)
  <2>1. CASE g \in unsure
    <3>1. /\ \A u \in Workers \ {w} : work[u].calls \in {<<>>, Waiting}
          /\ \A c \in Left(work'[w].calls) : c.op \in {"unlock", "peek"}
          /\ ~Listed(w)'
      BY <1>3, <2>1, NewlySure
    <3>2. CASE v = w BY <1>3, <3>1, <3>2 DEF Outcomes
    <3>3. CASE v # w
      <4>1. Outcomes(v, g) = {} BY <3>1, <3>3, NoOutcomes
      <4> QED BY <1>2, <1>3, <3>3, <4>1
    <3> QED BY <3>2, <3>3
  <2>2. CASE g \notin unsure /\ v = w
    <3>1. D = Pend(g, w) BY <1>0, <1>3, <2>2, PendStays
    <3> QED BY <1>3, <2>2, <3>1, NewOutcomes
  <2>3. CASE g \notin unsure /\ v # w
    <3>1. r \in Outcomes(v, g) BY <1>2, <1>3, <2>3
    <3>2. work[v].calls \notin {<<>>, Waiting} BY <3>1, NoOutcomes
    <3>3. /\ work[w].calls = Waiting /\ work'[w].job = work[w].job
          /\ work'[w].calls \in {<<Do("load"), Do("unlock")>>, <<Do("joined"), Do("unlock")>>}
      BY <2>3, <3>2, OthersWait
    <3>4. Undone(w) BY <3>3, WaitingHead DEF Undone
    <3>5. Undone(w)'
      <4> DEFINE x == Do("load")
                 y == Do("unlock")
                 z == Do("joined")
      <4>1. x.op = "load" /\ z.op = "joined" BY DoFacts
      <4>2. work'[w].calls \in {<<x, y>>, <<z, y>>} BY <3>3
      <4> HIDE DEF x, y, z
      <4>3. work'[w].calls # <<>> /\ Head(work'[w].calls) \in {x, z} BY <4>2
      <4> QED BY <4>1, <4>3 DEF Undone
    <3>6. \A u \in Workers : Undone(u)' = Undone(u) /\ work'[u].job = work[u].job
      BY <1>1, <3>3, <3>4, <3>5 DEF Undone
    <3>7. D = Pend(g, v) BY <1>3, <3>6 DEF Pend
    <3> QED BY <1>3, <2>3, <3>1, <3>7 DEF OutcomesFollow
  <2> QED BY <2>1, <2>2, <2>3
<1>4. ASSUME NEW g \in Groups \ unsure', NEW v \in Workers, NEW r \in Outcomes(v, g)',
             NEW D, D = Pend(g, v)'
      PROVE  Follows(g, r, D)'
  <2>1. Follows(g, r, D) BY <1>3, <1>4
  <2> QED BY <1>1, <2>1, FollowsOn
<1> QED BY <1>4 DEF OutcomesFollow, Follows

\* A worker of an event that we joined or left a group writes that group.
LEMMA InOutCalls ==
    ASSUME Truth, Forms, NEW w \in Workers, work[w].calls # <<>>, work[w].job.kind \in InOut
    PROVE  This(w).op \in {"set", "put", "unset", "del"} /\ This(w).g = work[w].job.g
<1> DEFINE job == work[w].job
           a == Call("set", job.g, RowAt(job.g, job.ver, job.eph))
           b == Call("put", job.g, RowAt(job.g, job.ver, job.eph))
           c == Call("unset", job.g, NoRow)
           d == Call("del", job.g, NoRow)
<1>1. work[w].calls = Plan(job) \/ work[w].calls = Tail(Plan(job)) BY HeadForm DEF Form, InOut
<1>2. job.kind = "joined" \/ job.kind = "left" BY DEF InOut
<1>3. job.kind = "joined" => Plan(job) = <<a, b>> BY DEF Plan
<1>4. job.kind = "left" => Plan(job) = <<c, d>> BY DEF Plan
<1>5. \A x \in {a, b, c, d} : x.op \in {"set", "put", "unset", "del"} /\ x.g = job.g BY CallFields
<1>6. This(w) = Head(work[w].calls) BY DEF This
<1> HIDE DEF a, b, c, d, job
<1>7. /\ Head(<<a, b>>) = a /\ Head(Tail(<<a, b>>)) = b
      /\ Head(<<c, d>>) = c /\ Head(Tail(<<c, d>>)) = d
  OBVIOUS
<1>8. This(w) \in {a, b, c, d} BY <1>1, <1>2, <1>3, <1>4, <1>6, <1>7
<1> QED BY <1>5, <1>8 DEF job

\* How such a worker ends.
LEMMA InOutEnds ==
    ASSUME Truth, Forms, NEW w \in Workers, Lock(w) \/ Statement(w),
           work[w].job.kind \in InOut, NEW g, g = work[w].job.g, g \notin unsure', work'[w] = Idle
    PROVE  /\ PutGroup(w) \/ DeleteGroup(w)
           /\ This(w).g = g
<1>1. work[w].calls # <<>> BY StatementWork
<1>2. This(w).op \in {"set", "put", "unset", "del"} /\ This(w).g = g BY <1>1, InOutCalls
<1>3. ~(UpdateSetting(w) \/ DeleteSetting(w))
  <2> SUFFICES ASSUME UpdateSetting(w) \/ DeleteSetting(w) PROVE FALSE OBVIOUS
  <2>1. This(w).op \in {"set", "unset"} BY DEF UpdateSetting, DeleteSetting, Calling, This
  <2>2. Rest(w) # <<>> BY <1>1, <2>1, SettingLeads DEF InOut
  <2>3. work'[w].calls = Rest(w) BY PlainFacts, ContinueCalls DEF Plain
  <2> QED BY <2>2, <2>3 DEF Idle
<1>4. ~CallSkipped(w) BY <1>2 DEF CallSkipped, Skip
<1>5. ~CallAborts(w)
  <2> SUFFICES ASSUME CallAborts(w) PROVE FALSE OBVIOUS
  <2>1. This(w).op = "put" BY <1>2 DEF CallAborts, Aborts
  <2>2. ~Again(w) BY DEF Again, InOut
  <2>3. g \in Missed(w) BY <1>2, <2>1, <2>2 DEF Missed
  <2> QED BY <2>3 DEF CallAborts
<1>6. PutGroup(w) \/ DeleteGroup(w)
  BY StatementCases, <1>2, <1>3, <1>4, <1>5
     DEF Lock, Unlock, GetJoinedGroups, GetAllGroups, GetGroupToUpdate, GetGroupToShare,
         MarkFresh, Calling, This
<1> QED BY <1>2, <1>6

LEMMA StatementRow ==
    ASSUME Discipline, Progress, Own, Snapshot, RowFollows, OutcomesFollow,
           NEW w \in Workers, Lock(w) \/ Statement(w)
    PROVE  RowFollows'
<1>0. Truth /\ Forms BY DEF Discipline
<1>1. /\ \A v \in Workers \ {w} : work'[v] = work[v]
      /\ events' = events /\ server' = server
      /\ work[w].calls # <<>>
      /\ work'[w] = Idle \/ work'[w].job = work[w].job
  BY <1>0, StatementWork
<1>2. ASSUME NEW g \in Groups \ unsure', NEW r, r = row'[g], NEW D, D = Pend(g, None)'
      PROVE  Writer(g)' \/ Follows(g, r, D)
  <2> DEFINE job == work[w].job
             mine == job.g = g /\ job.kind \in {"people", "eph"} /\ Undone(w)
             still == work'[w].job.g = g /\ work'[w].job.kind \in {"people", "eph"} /\ Undone(w)'
  <2>1. CASE g \in unsure
    <3>1. /\ row' = row /\ row[g] = ServerRow(g) /\ D = {}
          /\ \A i \in DOMAIN events : events[i].g # g
      BY <1>2, <2>1, NewlySure
    <3>2. Follows(g, ServerRow(g), {}) BY <1>0, FollowsServer
    <3> QED BY <1>2, <3>1, <3>2
  <2>2. CASE g \notin unsure /\ job.kind \in InOut /\ job.g = g
    <3>1. CASE work'[w].job = job BY <2>2, <3>1 DEF Writer
    <3>2. CASE work'[w] = Idle
      <4>1. (PutGroup(w) \/ DeleteGroup(w)) /\ This(w).g = g BY <1>0, <1>2, <2>2, <3>2, InOutEnds
      <4>2. r \in Outcomes(w, g)
        <5>1. CASE PutGroup(w)
          <6>1. This(w) \in Left(work[w].calls) /\ This(w).op = "put" /\ row'[This(w).g] = This(w).row
            BY <1>0, <5>1, PutFacts
          <6> QED BY <1>2, <4>1, <6>1, OutcomeFacts
        <5>2. CASE DeleteGroup(w)
          <6>1. This(w) \in Left(work[w].calls) /\ This(w).op = "del" /\ row'[This(w).g] = NoRow
            BY <1>0, <5>2, DeleteFacts
          <6> QED BY <1>2, <4>1, <6>1, OutcomeFacts
        <5> QED BY <4>1, <5>1, <5>2
      <4>3. Follows(g, r, Pend(g, w)) BY <1>2, <2>2, <4>2 DEF OutcomesFollow
      <4>4. ~still BY <3>2 DEF Idle, Job
      <4>5. D = Pend(g, w)'
        <5>1. D = Pend(g, w)' \cup (IF still THEN {work'[w].job} ELSE {}) BY <1>2, PendSplitNext
        <5> HIDE DEF still
        <5> QED BY <4>4, <5>1
      <4>6. Pend(g, w)' = Pend(g, w) BY <1>0, PendStays
      <4> QED BY <4>3, <4>5, <4>6
    <3> QED BY <1>1, <3>1, <3>2
  <2>3. CASE g \notin unsure /\ ~(job.kind \in InOut /\ job.g = g)
    <3>1. Follows(g, row[g], Pend(g, None)) BY <1>1, <1>2, <2>3, RowFollowsFor
    <3>2. Pend(g, None) = Pend(g, w) \cup (IF mine THEN {job} ELSE {}) BY PendSplit
    <3>3. D = Pend(g, w) \cup (IF still THEN {work'[w].job} ELSE {})
      <4>1. Pend(g, w)' = Pend(g, w) BY <1>0, PendStays
      <4> QED BY <1>2, <4>1, PendSplitNext
    <3>4. still => work'[w].job = job /\ mine
      <4> SUFFICES ASSUME still PROVE work'[w].job = job /\ mine OBVIOUS
      <4>1. work'[w].job = job BY <1>1 DEF Idle, Job
      <4>2. Undone(w)
        <5> SUFFICES ASSUME Head(work[w].calls).op = "unlock" PROVE FALSE BY <1>1 DEF Undone
        <5>1. Unlock(w) BY StatementCases DEF Lock, Unlock, GetJoinedGroups, GetAllGroups, GetGroupToUpdate,
                             GetGroupToShare, UpdateSetting, PutGroup, DeleteSetting, DeleteGroup,
                             MarkFresh, CallSkipped, Skip, CallAborts, Aborts, Calling, This
        <5>2. work'[w] = Idle BY <1>0, <4>1, <5>1, LastUnlock
        <5> QED BY <5>2 DEF Idle, Undone
      <4> QED BY <4>1, <4>2
    <3>5. \A s \in Outcomes(w, g) : Follows(g, s, Pend(g, w)) BY <1>2, <2>3 DEF OutcomesFollow
    <3>6. ASSUME r \in Outcomes(w, g) PROVE Follows(g, r, D)
      <4>1. Follows(g, r, Pend(g, w)) BY <3>5, <3>6
      <4>2. CASE ~still
        <5>1. D = Pend(g, w) BY <3>3, <4>2
        <5> QED BY <4>1, <5>1
      <4>3. CASE still
        <5>1. D = Pend(g, w) \cup {job} /\ Pend(g, None) = Pend(g, w) \cup {job} BY <3>2, <3>3, <3>4, <4>3
        <5>2. Follows(g, row[g], Pend(g, w) \cup {job}) BY <3>1, <5>1
        <5> HIDE DEF job, mine, still
        <5>3. Follows(g, r, Pend(g, w) \cup {job}) BY <4>1, <5>2, FollowsMore
        <5> QED BY <5>1, <5>3
      <4> QED BY <4>2, <4>3
    <3>7. CASE PutGroup(w) /\ This(w).g = g
      <4>1. This(w) \in Left(work[w].calls) /\ This(w).op = "put" /\ row'[This(w).g] = This(w).row
        BY <1>0, <3>7, PutFacts
      <4>2. r \in Outcomes(w, g) BY <1>2, <3>7, <4>1, OutcomeFacts
      <4> QED BY <3>6, <4>2
    <3>8. CASE DeleteGroup(w) /\ This(w).g = g
      <4>1. This(w) \in Left(work[w].calls) /\ This(w).op = "del" /\ row'[This(w).g] = NoRow
        BY <1>0, <3>8, DeleteFacts
      <4>2. r \in Outcomes(w, g) BY <1>2, <3>8, <4>1, OutcomeFacts
      <4> QED BY <3>6, <4>2
    <3>9. CASE ~((PutGroup(w) \/ DeleteGroup(w)) /\ This(w).g = g)
      <4>1. r = row[g] BY <1>0, <1>2, <3>9, RowAfter, PutFacts, DeleteFacts
      <4>2. CASE mine /\ ~still
        <5>1. ~Undone(w)' BY <1>1, <4>2 DEF Undone, Idle
        <5>2. \/ Listed(w) /\ row'[g] = work[w].got[g]
              \/ PutGroup(w) /\ This(w).g = g
              \/ row' = row /\ job.kind = "people" /\ row[g].ver >= job.ver
          BY <1>2, <2>3, <4>2, <5>1, DoneCases
        <5>3. CASE Listed(w) /\ row'[g] = work[w].got[g]
          <6>1. r \in Outcomes(w, g) BY <1>2, <5>3, OutcomeFacts
          <6> QED BY <3>6, <6>1
        <5>4. CASE row' = row /\ job.kind = "people" /\ row[g].ver >= job.ver
          <6>1. row[g].ver \in Nat BY <1>0, <1>2, VersionFacts
          <6>2. job.ver \in Nat
            <7>1. job \in TrueJobs BY <1>0, WorkFacts
            <7> QED BY <7>1 DEF TrueJobs, Jobs
          <6>3. D = Pend(g, w) /\ Pend(g, None) = D \cup {job} BY <3>2, <3>3, <4>2
          <6>4. Follows(g, r, D \cup {job}) BY <3>1, <4>1, <6>3
          <6>5. r.ver \in Nat /\ job.ver <= r.ver BY <4>1, <5>4, <6>1, <6>2
          <6> HIDE DEF job, mine, still
          <6>6. \A j \in (D \cup {job}) \ D : j.kind = "people" /\ j.ver \in Nat /\ j.ver <= r.ver
            BY <5>4, <6>2, <6>5
          <6>7. D \subseteq D \cup {job} OBVIOUS
          <6>8. Follows(g, r, D) BY <6>4, <6>5, <6>6, <6>7, FollowsLess
          <6> QED BY <6>8
        <5> QED BY <3>9, <5>2, <5>3, <5>4
      <4>3. CASE mine <=> still
        <5>1. D = Pend(g, None) BY <3>2, <3>3, <3>4, <4>3
        <5> QED BY <3>1, <4>1, <5>1
      <4> QED BY <3>4, <4>2, <4>3
    <3> QED BY <3>7, <3>8, <3>9
  <2> QED BY <2>1, <2>2, <2>3
<1>3. ASSUME NEW g \in Groups \ unsure', NEW r, r = row'[g], NEW D, D = Pend(g, None)'
      PROVE  Writer(g)' \/ Follows(g, r, D)'
  <2>1. Writer(g)' \/ Follows(g, r, D) BY <1>2, <1>3
  <2> QED BY <1>1, <2>1, FollowsOn
<1> QED BY <1>3 DEF RowFollows, Follows

LEMMA StepKeepsFollows ==
    /\ Discipline /\ Progress /\ Own /\ QueueTrue /\ Snapshot /\ RowFollows /\ OutcomesFollow
    /\ [Next]_vars
    => RowFollows' /\ OutcomesFollow'
<1> SUFFICES ASSUME Discipline, Progress, Own, QueueTrue, Snapshot, RowFollows, OutcomesFollow,
                    [Next]_vars
             PROVE  RowFollows' /\ OutcomesFollow'
  OBVIOUS
<1>0. Truth BY DEF Discipline
<1>1. ASSUME NEW w \in Workers, Request(w) PROVE RowFollows' /\ OutcomesFollow' BY <1>1, RequestFollows
<1>2. ASSUME NEW w \in Workers, Lock(w) \/ Statement(w) PROVE RowFollows' /\ OutcomesFollow'
  BY <1>2, StatementRow, StatementOutcomes
<1>3. CASE ServerChanges \/ Age \/ UNCHANGED vars
  <2>1. row' = row /\ work' = work /\ unsure \subseteq unsure'
    BY <1>0, <1>3, ChangeCases DEF Age, vars, cacheVars
  <2>2. /\ \A g, u : Pend(g, u)' = Pend(g, u)
        /\ \A g : Writer(g)' = Writer(g)
        /\ \A g : \A w \in Workers : Outcomes(w, g)' = Outcomes(w, g)
    BY <2>1 DEF Pend, Undone, Writer, Outcomes, Listed, Calling, Refreshing
  <2>3. ASSUME NEW g \in Groups \ unsure', NEW r, NEW D, Follows(g, r, D) PROVE Follows(g, r, D)'
    <3>1. CASE ServerChanges BY <1>0, <2>3, <3>1, FollowsChanges
    <3>2. CASE Age \/ UNCHANGED vars
      <4>1. events' = events /\ server' = server BY <3>2 DEF Age, vars, serverVars
      <4> QED BY <2>3, <4>1, FollowsOn
    <3> QED BY <1>3, <3>1, <3>2
  <2>4. ASSUME NEW g \in Groups \ unsure', NEW r, r = row'[g], NEW D, D = Pend(g, None)'
        PROVE  Writer(g)' \/ Follows(g, r, D)'
    <3>1. Writer(g) \/ Follows(g, r, D) BY <2>1, <2>2, <2>4 DEF RowFollows
    <3> QED BY <2>2, <2>3, <3>1
  <2>5. ASSUME NEW g \in Groups \ unsure', NEW w \in Workers, NEW r \in Outcomes(w, g)',
               NEW D, D = Pend(g, w)'
        PROVE  Follows(g, r, D)'
    <3>1. Follows(g, r, D) BY <2>1, <2>2, <2>5 DEF OutcomesFollow
    <3> QED BY <2>3, <3>1
  <2>6. RowFollows' BY <2>4 DEF RowFollows, Follows
  <2>7. OutcomesFollow' BY <2>5 DEF OutcomesFollow, Follows
  <2> QED BY <2>6, <2>7
<1>4. CASE Restart
  <2>1. unsure' = Groups BY <1>4 DEF Restart
  <2> QED BY <2>1 DEF RowFollows, OutcomesFollow
<1> QED BY <1>1, <1>2, <1>3, <1>4 DEF Next

LEMMA InitFollows == Init => RowFollows /\ OutcomesFollow
<1> SUFFICES ASSUME Init PROVE RowFollows /\ OutcomesFollow OBVIOUS
<1>0. Truth BY InitIsTrue
<1>1. work = [w \in Workers |-> Idle] /\ events = <<>> BY DEF Init
<1>2. OutcomesFollow
  <2>1. \A w \in Workers : work[w].calls = <<>> BY <1>1 DEF Idle
  <2>2. \A w \in Workers : \A g : Outcomes(w, g) = {} BY <2>1, NoOutcomes
  <2> QED BY <2>2 DEF OutcomesFollow
<1>3. ASSUME NEW g \in Groups \ unsure PROVE Follows(g, row[g], Pend(g, None))
  <2>1. fresh BY <1>3 DEF Init
  <2>2. server[g].ver = 1 /\ server[g].eph = FALSE
    <3> DEFINE V == {1}
               E == {FALSE}
    <3>1. server \in [Groups -> [in : BOOLEAN, ver : V, eph : E]] BY DEF Init
    <3> HIDE DEF V, E
    <3>2. server[g].ver \in V /\ server[g].eph \in E BY <1>3, <3>1
    <3> QED BY <3>2 DEF V, E
  <2>3. row[g] = IF server[g].in THEN RowAt(g, 1, FALSE) ELSE NoRow BY <1>3, <2>1 DEF Init
  <2>4. row[g] = ServerRow(g) BY <2>2, <2>3 DEF ServerRow
  <2>5. Pend(g, None) = {} BY <1>1 DEF Pend, Undone, Idle
  <2>6. Follows(g, ServerRow(g), {}) BY <1>0, <1>3, FollowsServer
  <2> QED BY <2>4, <2>5, <2>6
<1> QED BY <1>2, <1>3 DEF RowFollows

-----------------------------------------------------------------------------
(* Ephemeral settings *)

\* The ephemeral setting of group g is that of row r.
SetAs(g, r) == g \in setting <=> r.eph

\* Nothing is on its way that brings another ephemeral parameter of group g.
Calm(g) ==
    /\ ~Later(g, InOut \cup {"eph"}, 0)
    /\ \A w \in Workers : work[w].job.g = g =>
         work[w].job.kind \notin InOut /\ ~(work[w].job.kind = "eph" /\ Undone(w))

\* Inductive, given what is above, for groups that are sure, and for workers that are alone.
SettingsFollow == \A g \in Groups \ unsure : Calm(g) /\ server[g].in => (g \in setting <=> server[g].eph)
SettingsDone ==
    \A w \in Workers, g \in Groups :
        Refreshing(w) /\ (work[w].alone \/ g \notin unsure) =>
            Owed(work[w].calls, g) \/ work[w].got[g] = NoRow \/ SetAs(g, work[w].got[g])
PutsMatch ==
    \A w \in Workers :
        /\ Calling(w, "put")
        /\ This(w).g \notin unsure \/ work[w].alone
        /\ work[w].job.kind = "people" => Refreshing(w)
        => SetAs(This(w).g, This(w).row)

\* A row that is put next has its setting already, but for the rows of participant updates.
LEMMA PutNext ==
    ASSUME Truth, Forms, NEW w \in Workers, Lock(w) \/ Statement(w),
           work'[w].calls # <<>>, NEW c, c = Head(work'[w].calls), c.op = "put"
    PROVE  \/ /\ UpdateSetting(w) \/ CallSkipped(w)
              /\ This(w) = Call("set", c.g, c.row) /\ work'[w].calls = Rest(w) /\ Rest(w) # <<>>
           \/ work[w].job.kind = "people" /\ ~Refreshing(w)' /\ work'[w].job = work[w].job
<1>1. work[w].calls # <<>> BY StatementWork
<1>2. c \in Left(work'[w].calls)
  <2>1. Truth' BY StepKeepsTruth DEF Next
  <2>2. work'[w].calls \in Seq(Calls) BY <2>1 DEF Truth, TrueWorks
  <2> DEFINE s == work'[w].calls
  <2>3. s \in Seq(Calls) /\ s # <<>> /\ c = Head(s) BY <2>2
  <2> HIDE DEF s
  <2>4. c \in Left(s) BY <2>3, LeftTail
  <2> QED BY <2>4 DEF s
<1>3. CASE work'[w].calls = Rest(w) /\ (Plain(w) \/ CallSkipped(w))
  <2> DEFINE s == work[w].calls
             t == Rest(w)
  <2>1. s \in Seq(Calls) /\ t \in Seq(Calls) /\ Form(work[w].job, s, work[w].got) BY <1>1, HeadForm
  <2>2. This(w) = Head(s) /\ t = Tail(s) /\ t # <<>> /\ c = Head(t) BY <1>3 DEF This, Rest
  <2>3. work[w].job.kind # "chat"
    <3> SUFFICES ASSUME work[w].job.kind = "chat" PROVE FALSE OBVIOUS
    <3> DEFINE x == Call("set", work[w].job.g, [NoRow EXCEPT !.eph = work[w].job.eph])
    <3>1. s = <<x>> BY <2>1 DEF Form, Plan
    <3> HIDE DEF x, s, t
    <3> QED BY <2>2, <3>1
  <2>4. Paired(s) BY <2>1, <2>3 DEF Form
  <2> HIDE DEF s, t
  <2>5. /\ Len(s) \in Nat \ {0} /\ Head(s) = s[1] /\ Len(t) = Len(s) - 1
        /\ \A i \in 1 .. Len(t) : t[i] = s[i + 1]
    BY <1>1, <2>1, <2>2, HeadTail DEF s
  <2>6. 1 \in 1 .. Len(t) /\ c = t[1] BY <2>1, <2>2, <2>5
  <2>7. 2 \in 1 .. Len(s) /\ c = s[2] BY <2>5, <2>6
  <2>8. This(w) = Call("set", c.g, c.row)
    <3>1. s[2].op = "put" /\ 2 > 1 => s[2 - 1] = Call("set", s[2].g, s[2].row) BY <2>4, <2>7 DEF Paired
    <3> QED BY <2>2, <2>5, <2>7, <3>1
  <2>9. This(w).op = "set" BY <2>8, CallFields
  <2>10. UpdateSetting(w) \/ CallSkipped(w)
    BY <1>3, <2>9 DEF Plain, Unlock, PutGroup, DeleteSetting, DeleteGroup, MarkFresh, Calling, This
  <2> QED BY <1>3, <2>2, <2>8, <2>10 DEF t
<1>4. CASE GetAllGroups(w)
  <2>1. PICK calls \in Seq(Calls) : Continue(w, calls) /\ Leading(calls) BY <1>4, RefreshedWork
  <2>2. work'[w].calls = calls BY <2>1, ContinueCalls
  <2>3. c = calls[1] BY <2>1, <2>2
  <2> QED BY <2>1, <2>2, <2>3 DEF Leading
<1>5. CASE GetGroupToUpdate(w)
  <2> DEFINE job == work[w].job
  <2>1. /\ job.kind \in {"people", "eph"} /\ work'[w].calls = Renewing(w) \o Rest(w)
        /\ work'[w].job = job /\ Rest(w) \in Seq(Calls)
    BY <1>1, <1>5, RenewedRow, HeadForm
  <2>2. ~Marking(Renewing(w) \o Rest(w)) BY <1>5, RenewedForm
  <2>3. CASE job.kind = "people" BY <2>1, <2>2, <2>3 DEF Refreshing
  <2>4. CASE job.kind = "eph"
    <3> DEFINE x == Call("set", job.g, Renewed(w))
               y == Call("put", job.g, Renewed(w))
               t == Rest(w)
    <3>1. Renewing(w) = <<x, y>> /\ x.op = "set" BY <2>4, CallFields DEF Renewing
    <3>2. work'[w].calls = <<x, y>> \o t /\ t \in Seq(Calls) BY <2>1, <3>1
    <3> HIDE DEF x, y, t
    <3>3. c = x BY <3>2
    <3> QED BY <3>1, <3>3
  <2> QED BY <2>1, <2>3, <2>4
<1>6. CASE GetGroupToShare(w)
  <2> DEFINE g == work[w].job.g
             x == Call("set", g, row[g])
             y == Call("put", g, row[g])
             calls == <<x, y>>
  <2>1. Continue(w, calls) BY <1>6 DEF GetGroupToShare
  <2>2. x.op = "set" BY CallFields
  <2> HIDE DEF x, y
  <2>3. calls # <<>> /\ Head(calls) = x OBVIOUS
  <2> HIDE DEF calls
  <2>4. work'[w].calls = calls BY <2>1, ContinueCalls
  <2> QED BY <2>2, <2>3, <2>4
<1> QED BY <1>2, <1>3, <1>4, <1>5, <1>6, WritesAfter

LEMMA StatementPuts ==
    ASSUME Discipline, Progress, Snapshot, PutsMatch, NEW w \in Workers, Lock(w) \/ Statement(w)
    PROVE  PutsMatch'
<1>0. Truth /\ Forms BY DEF Discipline
<1>1. \A v \in Workers \ {w} : work'[v] = work[v] BY <1>0, StatementWork
<1> SUFFICES ASSUME NEW v \in Workers, work'[v].calls # <<>>,
                    NEW c, c = Head(work'[v].calls), c.op = "put",
                    c.g \notin unsure' \/ work'[v].alone,
                    work'[v].job.kind = "people" => Refreshing(v)'
             PROVE  c.g \in setting' <=> c.row.eph
  BY DEF PutsMatch, Calling, This, SetAs
<1>2. CASE v # w
  <2>1. work'[v] = work[v] BY <1>1, <1>2
  <2>2. /\ work[v].calls # <<>> /\ c = This(v) /\ Calling(v, "put") /\ c.g \in Groups
        /\ work[v].job.kind = "people" => Refreshing(v)
    <3>1. work[v].calls # <<>> /\ c = This(v) /\ Calling(v, "put") BY <2>1 DEF This, Calling
    <3>2. c \in CallsOf(work[v].job.kind) BY <1>0, <3>1, HeadFacts
    <3> QED BY <2>1, <3>1, <3>2 DEF CallsOf, Refreshing
  <2>3. work[v].calls \notin {<<>>, Waiting} BY <2>2, WaitingHead DEF This
  <2>4. c.g \notin unsure \/ work[v].alone
    <3>1. ~(c.g \in unsure /\ c.g \notin unsure') BY <1>2, <2>2, <2>3, NewlySure
    <3> QED BY <2>1, <3>1
  <2>5. setting' = setting BY <1>2, <2>2, <2>3, <2>4, OthersWait
  <2>6. SetAs(c.g, c.row) BY <2>2, <2>4 DEF PutsMatch
  <2> QED BY <2>5, <2>6 DEF SetAs
<1>3. CASE v = w
  <2>1. \/ /\ UpdateSetting(w) \/ CallSkipped(w)
           /\ This(w) = Call("set", c.g, c.row) /\ work'[w].calls = Rest(w) /\ Rest(w) # <<>>
        \/ work[w].job.kind = "people" /\ ~Refreshing(w)' /\ work'[w].job = work[w].job
    BY <1>0, <1>3, PutNext
  <2>2. ~(work[w].job.kind = "people" /\ ~Refreshing(w)' /\ work'[w].job = work[w].job) BY <1>3
  <2>3. This(w).g = c.g /\ This(w).row = c.row BY <2>1, <2>2, CallFields
  <2>4. ~CallSkipped(w)
    <3> SUFFICES ASSUME CallSkipped(w) PROVE FALSE OBVIOUS
    <3>1. Rest(w) # <<>> BY <2>1, <2>2
    <3>2. ~work'[w].alone BY <1>0, <3>1, SkippedWork
    <3>3. unsure' = unsure \cup {This(w).g} BY DEF CallSkipped, Skip
    <3>4. c.g \in unsure' BY <2>1, <2>2, <2>3, <3>3
    <3> QED BY <1>3, <3>2, <3>4
  <2>5. UpdateSetting(w) BY <2>1, <2>2, <2>4
  <2> QED BY <2>3, <2>5 DEF UpdateSetting
<1> QED BY <1>2, <1>3

\* Settings of a refresh that goes on.
LEMMA SettingGoesOn ==
    ASSUME Discipline, SettingsDone, PutsMatch, NEW w \in Workers, NEW g \in Groups,
           Refreshing(w), work[w].alone \/ g \notin unsure,
           Plain(w) \/ CallSkipped(w), NEW r, r = work[w].got[g]
    PROVE  Owed(Rest(w), g) \/ r = NoRow \/ (g \in setting' <=> r.eph)
<1>0. Truth /\ Forms BY DEF Discipline
<1>1. work[w].calls # <<>> BY PlainFacts DEF CallSkipped, Skip
<1>2. /\ Left(work[w].calls) = {This(w)} \cup Left(Rest(w))
      /\ Form(work[w].job, work[w].calls, work[w].got)
  BY <1>0, <1>1, HeadForm
<1>3. work[w].job.kind # "left" /\ Marking(work[w].calls) BY DEF Refreshing
<1>4. work[w].job.kind # "chat"
  <2> SUFFICES ASSUME work[w].job.kind = "chat" PROVE FALSE OBVIOUS
  <2> DEFINE x == Call("set", work[w].job.g, [NoRow EXCEPT !.eph = work[w].job.eph])
  <2>1. work[w].calls = <<x>> BY <1>2 DEF Form, Plan
  <2>2. x.op = "set" BY CallFields
  <2> HIDE DEF x
  <2>3. Left(<<x>>) = {x} BY ShortSequences
  <2> QED BY <1>3, <2>1, <2>2, <2>3 DEF Marking
<1>6. Owed(work[w].calls, g) \/ work[w].got[g] = NoRow \/ SetAs(g, work[w].got[g])
  BY DEF SettingsDone
<1>7. ASSUME ~Owed(Rest(w), g), r # NoRow PROVE g \in setting' <=> r.eph
  <2>1. CASE This(w).op = "put" /\ This(w).g = g
    <3>1. This(w).row = r BY <1>2, <1>3, <2>1 DEF Form
    <3>2. Calling(w, "put") BY <1>1, <2>1 DEF Calling, This
    <3>3. g \in setting <=> r.eph BY <2>1, <3>1, <3>2 DEF PutsMatch, SetAs
    <3>4. setting' = setting
      BY <2>1 DEF Plain, Unlock, UpdateSetting, PutGroup, DeleteSetting, DeleteGroup, MarkFresh,
                  CallSkipped, Skip, cacheVars, Calling, This
    <3> QED BY <3>3, <3>4
  <2>2. CASE This(w).op \in {"set", "unset"} /\ This(w).g = g
    <3>1. /\ Head(Rest(w)) \in Left(Rest(w))
          /\ Head(Rest(w)) = Call("put", g, This(w).row) \/ Head(Rest(w)) = Call("del", g, NoRow)
      BY <1>0, <1>1, <1>4, <2>2, SettingLeads
    <3> QED BY <1>7, <3>1, CallFields DEF Owed
  <2>3. CASE ~(This(w).op \in {"put", "set", "unset"} /\ This(w).g = g)
    <3>1. ~(This(w).op = "del" /\ This(w).g = g) BY <1>2, <1>3, <1>7 DEF Form
    <3>2. ~Owed(work[w].calls, g) BY <1>2, <1>7, <2>3, <3>1 DEF Owed
    <3>3. g \in setting <=> r.eph BY <1>6, <1>7, <3>2 DEF SetAs
    <3>4. g \in setting' <=> g \in setting
      BY <2>3 DEF Plain, Unlock, UpdateSetting, PutGroup, DeleteSetting, DeleteGroup, MarkFresh,
                  CallSkipped, Skip, cacheVars, Calling, This
    <3> QED BY <3>3, <3>4
  <2> QED BY <2>1, <2>2, <2>3
<1> QED BY <1>7

LEMMA StatementDone ==
    ASSUME Discipline, Progress, Snapshot, SettingsDone, PutsMatch,
           NEW w \in Workers, Lock(w) \/ Statement(w)
    PROVE  SettingsDone'
<1>0. Truth /\ Forms BY DEF Discipline
<1>1. \A v \in Workers \ {w} : work'[v] = work[v] BY <1>0, StatementWork
<1> SUFFICES ASSUME NEW v \in Workers, NEW g \in Groups, Refreshing(v)',
                    work'[v].alone \/ g \notin unsure',
                    NEW r, r = work'[v].got[g]
             PROVE  Owed(work'[v].calls, g) \/ r = NoRow \/ (g \in setting' <=> r.eph)
  BY DEF SettingsDone, SetAs, Owed
<1>2. CASE v # w
  <2>1. work'[v] = work[v] /\ Refreshing(v) BY <1>1, <1>2 DEF Refreshing
  <2>2. work[v].calls \notin {<<>>, Waiting} BY <2>1, ListedWorks DEF Listed
  <2>3. g \notin unsure \/ work[v].alone
    <3>1. ~(g \in unsure /\ g \notin unsure') BY <1>2, <2>2, NewlySure
    <3> QED BY <2>1, <3>1
  <2>4. setting' = setting BY <1>2, <2>2, <2>3, OthersWait
  <2>5. Owed(work[v].calls, g) \/ r = NoRow \/ SetAs(g, r) BY <2>1, <2>3 DEF SettingsDone
  <2> QED BY <2>1, <2>4, <2>5 DEF SetAs
<1>3. CASE v = w
  <2>1. /\ work'[w].got = work[w].got
        /\ \/ Refreshing(w) /\ work'[w].calls = Rest(w) /\ (Plain(w) \/ CallSkipped(w))
           \/ GetAllGroups(w)
    BY <1>0, <1>3, RefreshFrom
  <2>2. CASE GetAllGroups(w) BY <1>0, <1>3, <2>1, <2>2, RefreshBegins
  <2>3. CASE Refreshing(w) /\ work'[w].calls = Rest(w) /\ (Plain(w) \/ CallSkipped(w))
    <3>1. PICK c \in Left(work'[w].calls) : c.op \in {"mark", "del"} BY <1>3 DEF Refreshing, Marking
    <3>2. work[w].alone \/ g \notin unsure
      <4>1. work'[w] # Idle
        <5>1. Idle.calls = <<>> /\ Left(<<>>) = {} BY ShortSequences DEF Idle
        <5> QED BY <3>1, <5>1
      <4>2. work'[w].alone => work[w].alone BY <1>0, <4>1, StatementWork
      <4>3. g \in unsure /\ g \notin unsure' => work[w].alone BY <1>0, UnsureAfter
      <4> QED BY <1>3, <4>2, <4>3
    <3>3. r = work[w].got[g] BY <1>3, <2>1
    <3>4. Owed(Rest(w), g) \/ r = NoRow \/ (g \in setting' <=> r.eph)
      BY <2>3, <3>2, <3>3, SettingGoesOn
    <3> QED BY <1>3, <2>3, <3>4
  <2> QED BY <2>1, <2>2, <2>3
<1> QED BY <1>2, <1>3

\* A row that a worker may leave behind has the ephemeral parameter that WhatsApp has, when
\* nobody else brings another one.
LEMMA CalmOutcome ==
    ASSUME OutcomesFollow, NEW w \in Workers, NEW g \in Groups \ unsure, NEW r \in Outcomes(w, g),
           ~Later(g, InOut \cup {"eph"}, 0), server[g].in,
           \A v \in Workers \ {w} : work[v].job.g = g => ~(work[v].job.kind = "eph" /\ Undone(v))
    PROVE  r # NoRow /\ r.eph = server[g].eph
<1>1. Follows(g, r, Pend(g, w)) BY DEF OutcomesFollow
<1>2. ~Later(g, InOut, 0) /\ ~Later(g, {"eph"}, 0) BY DEF Later
<1>3. \A j \in Pend(g, w) : j.kind # "eph" BY DEF Pend
<1> QED BY <1>1, <1>2, <1>3 DEF Follows

\* How the setting of a group is left by the last worker that brings its ephemeral parameter.
LEMMA SettingEnds ==
    ASSUME Discipline, Progress, Own, SettingsDone, PutsMatch, NEW w \in Workers, Lock(w) \/ Statement(w),
           NEW g \in Groups \ unsure, g \notin unsure', work[w].job.g = g,
           work[w].job.kind \in InOut \cup {"eph"},
           work[w].job.kind \in InOut => work'[w] = Idle,
           work[w].job.kind = "eph" => Undone(w) /\ ~Undone(w)'
    PROVE  NoRow \in Outcomes(w, g) \/ \E r \in Outcomes(w, g) : g \in setting' <=> r.eph
<1>0. Truth /\ Forms BY DEF Discipline
<1>1. ASSUME PutGroup(w), This(w).g = g
      PROVE  \E r \in Outcomes(w, g) : g \in setting' <=> r.eph
  <2>1. This(w) \in Left(work[w].calls) /\ This(w).op = "put" BY <1>0, <1>1, PutFacts
  <2>2. This(w).row \in Outcomes(w, g) BY <1>1, <2>1, OutcomeFacts
  <2>3. Calling(w, "put") BY <1>1 DEF PutGroup
  <2>4. work[w].job.kind # "people" BY DEF InOut
  <2>5. g \in setting <=> This(w).row.eph BY <1>1, <2>3, <2>4 DEF PutsMatch, SetAs
  <2>6. setting' = setting BY <1>1 DEF PutGroup
  <2> QED BY <2>2, <2>5, <2>6
<1>2. ASSUME DeleteGroup(w), This(w).g = g PROVE NoRow \in Outcomes(w, g)
  <2>1. This(w) \in Left(work[w].calls) /\ This(w).op = "del" BY <1>0, <1>2, DeleteFacts
  <2> QED BY <1>2, <2>1, OutcomeFacts
<1>3. CASE work[w].job.kind \in InOut
  <2>1. (PutGroup(w) \/ DeleteGroup(w)) /\ This(w).g = g BY <1>0, <1>3, InOutEnds
  <2> QED BY <1>1, <1>2, <2>1
<1>4. CASE work[w].job.kind = "eph"
  <2>1. \/ /\ Listed(w)
           /\ \/ work[w].got[g] = NoRow
              \/ Refreshing(w) /\ work'[w].calls = Rest(w) /\ (Plain(w) \/ CallSkipped(w))
        \/ PutGroup(w) /\ This(w).g = g
    BY <1>4, DoneCases
  <2>2. CASE Listed(w) /\ work[w].got[g] = NoRow BY <2>2, OutcomeFacts
  <2>3. CASE Listed(w) /\ Refreshing(w) /\ work'[w].calls = Rest(w) /\ (Plain(w) \/ CallSkipped(w))
    <3>1. ~Owed(Rest(w), g) BY <1>0, <1>4, <2>3, DoneAfter DEF Owed
    <3>2. PICK r : r = work[w].got[g] OBVIOUS
    <3>3. r = NoRow \/ (g \in setting' <=> r.eph) BY <2>3, <3>1, <3>2, SettingGoesOn
    <3>4. r \in Outcomes(w, g) BY <2>3, <3>2, OutcomeFacts
    <3> QED BY <3>3, <3>4
  <2> QED BY <1>1, <2>1, <2>2, <2>3
<1> QED BY <1>3, <1>4

LEMMA StatementSettings ==
    ASSUME Discipline, Progress, Own, Snapshot, OutcomesFollow, SettingsFollow, SettingsDone, PutsMatch,
           NEW w \in Workers, Lock(w) \/ Statement(w)
    PROVE  SettingsFollow'
<1>0. Truth /\ Forms /\ Sure BY DEF Discipline
<1>1. /\ \A v \in Workers \ {w} : work'[v] = work[v]
      /\ events' = events /\ server' = server
      /\ work[w].calls # <<>>
      /\ work'[w] = Idle \/ work'[w].job = work[w].job
  BY <1>0, StatementWork
<1> SUFFICES ASSUME NEW g \in Groups \ unsure', Calm(g)', server[g].in
             PROVE  g \in setting' <=> server[g].eph
  BY <1>1 DEF SettingsFollow
<1>2. ~Later(g, InOut \cup {"eph"}, 0) BY <1>1 DEF Calm, Later
<1>3. \A v \in Workers : work'[v].job.g = g =>
        work'[v].job.kind \notin InOut /\ ~(work'[v].job.kind = "eph" /\ Undone(v)')
  BY DEF Calm
<1>4. \A v \in Workers \ {w} : work[v].job.g = g =>
        work[v].job.kind \notin InOut /\ ~(work[v].job.kind = "eph" /\ Undone(v))
  BY <1>1, <1>3 DEF Undone
<1>5. CASE g \in unsure
  <2>1. /\ MarkFresh(w) /\ work[w].alone /\ Refreshing(w) /\ row[g] = ServerRow(g)
        /\ work[w].got[g] = row[g] /\ ~Owed(work[w].calls, g)
    BY <1>5, NewlySure
  <2>2. row[g] = NoRow \/ SetAs(g, row[g]) BY <2>1 DEF SettingsDone
  <2>3. row[g] = RowAt(g, server[g].ver, server[g].eph) BY <2>1 DEF ServerRow
  <2>4. row[g] # NoRow
    <3>1. server[g].ver \in Versions(g) /\ server[g].eph \in BOOLEAN BY <1>0 DEF Truth
    <3> QED BY <2>3, <3>1, RowAtIsTrue, TrueRowIsStored
  <2>5. row[g].eph = server[g].eph BY <2>3 DEF RowAt
  <2>6. setting' = setting BY <2>1 DEF MarkFresh
  <2> QED BY <2>2, <2>4, <2>5, <2>6 DEF SetAs
<1>6. CASE g \notin unsure
  <2>1. ASSUME NEW r \in Outcomes(w, g), r # NoRow => (g \in setting' <=> r.eph)
        PROVE  g \in setting' <=> server[g].eph
    <3>1. r # NoRow /\ r.eph = server[g].eph BY <1>2, <1>4, <1>6, CalmOutcome
    <3> QED BY <2>1, <3>1
  <2>2. work[w].job.kind # "chat"
    <3>1. w \in Busy BY <1>1 DEF Busy, Idle
    <3> QED BY <1>0, <1>6, <3>1 DEF Sure
  <2>3. CASE UpdateSetting(w) /\ This(w).g = g
    <3>1. This(w).op = "set" BY <2>3 DEF UpdateSetting, Calling, This
    <3>2. Call("put", g, This(w).row) \in Left(work[w].calls)
      <4>1. Head(Rest(w)) \in Left(Rest(w)) /\ Head(Rest(w)) = Call("put", g, This(w).row)
        BY <1>0, <1>1, <2>2, <2>3, <3>1, SettingLeads
      <4> QED BY <1>0, <1>1, <4>1, HeadForm
    <3>3. This(w).row \in Outcomes(w, g) BY <3>2, CallFields, OutcomeFacts
    <3>4. g \in setting' <=> This(w).row.eph BY <2>3 DEF UpdateSetting
    <3> QED BY <2>1, <3>3, <3>4
  <2>4. CASE DeleteSetting(w) /\ This(w).g = g
    <3>1. This(w).op = "unset" BY <2>4 DEF DeleteSetting, Calling, This
    <3>2. Call("del", g, NoRow) \in Left(work[w].calls)
      <4>1. Head(Rest(w)) \in Left(Rest(w)) /\ Head(Rest(w)) = Call("del", g, NoRow)
        BY <1>0, <1>1, <2>2, <2>4, <3>1, SettingLeads
      <4> QED BY <1>0, <1>1, <4>1, HeadForm
    <3>3. NoRow \in Outcomes(w, g) BY <3>2, CallFields, OutcomeFacts
    <3> QED BY <2>1, <3>3
  <2>5. CASE ~((UpdateSetting(w) \/ DeleteSetting(w)) /\ This(w).g = g)
    <3>1. g \in setting' <=> g \in setting
      <4>1. (UpdateSetting(w) \/ DeleteSetting(w)) => (g \in setting' <=> g \in setting)
        BY <1>0, <2>5 DEF UpdateSetting, DeleteSetting
      <4> QED BY <4>1, StatementCases DEF Lock, Unlock, GetJoinedGroups, GetAllGroups, GetGroupToUpdate,
                  GetGroupToShare, UpdateSetting, PutGroup, DeleteSetting, DeleteGroup, MarkFresh,
                  CallSkipped, Skip, CallAborts, cacheVars
    <3>2. CASE Calm(g) BY <1>6, <3>1, <3>2 DEF SettingsFollow
    <3>3. CASE ~Calm(g)
      <4> DEFINE kind == work[w].job.kind
      <4>1. work[w].job.g = g /\ (kind \in InOut \/ (kind = "eph" /\ Undone(w)))
        BY <1>2, <1>4, <3>3 DEF Calm
      <4>2. kind \in InOut => work'[w] = Idle BY <1>1, <1>3, <4>1
      <4>3. kind = "eph" => Undone(w) /\ ~Undone(w)'
        <5> SUFFICES ASSUME kind = "eph" PROVE Undone(w) /\ ~Undone(w)' OBVIOUS
        <5>1. Undone(w) BY <4>1 DEF InOut
        <5>2. CASE work'[w] = Idle BY <5>1, <5>2 DEF Undone, Idle
        <5>3. CASE work'[w].job = work[w].job BY <1>3, <4>1, <5>1, <5>3
        <5> QED BY <1>1, <5>2, <5>3
      <4>4. NoRow \in Outcomes(w, g) \/ \E r \in Outcomes(w, g) : g \in setting' <=> r.eph
        BY <1>6, <4>1, <4>2, <4>3, SettingEnds
      <4> HIDE DEF kind
      <4>5. CASE NoRow \in Outcomes(w, g) BY <2>1, <4>5
      <4>6. CASE \E r \in Outcomes(w, g) : g \in setting' <=> r.eph
        <5>1. PICK r \in Outcomes(w, g) : g \in setting' <=> r.eph BY <4>6
        <5> QED BY <2>1, <5>1
      <4> QED BY <4>4, <4>5, <4>6
    <3> QED BY <3>2, <3>3
  <2> QED BY <2>3, <2>4, <2>5
<1> QED BY <1>5, <1>6

LEMMA RequestSettings ==
    ASSUME Discipline, SettingsFollow, SettingsDone, PutsMatch, NEW w \in Workers, Request(w)
    PROVE  SettingsFollow' /\ SettingsDone' /\ PutsMatch'
<1>0. Truth BY DEF Discipline
<1>1. PICK job \in TrueJobs, calls \in Seq(Calls), tangled \in BOOLEAN : Opens(w, job, calls, tangled)
  BY <1>0, RequestCases
<1>2. /\ work[w] = Idle /\ work'[w].job = job /\ work'[w].calls = calls
      /\ \A v \in Workers \ {w} :
           /\ work'[v].job = work[v].job /\ work'[v].calls = work[v].calls
           /\ work'[v].got = work[v].got /\ (work'[v].alone => work[v].alone)
      /\ setting' = setting /\ server' = server
      /\ unsure' = Groups \/ (unsure' = unsure /\ ~tangled)
      /\ ~(job.kind # "left" /\ Marking(calls))
      /\ calls # <<>> /\ Head(calls).op # "put"
  BY <1>0, <1>1, RequestWork
<1>3. SettingsFollow'
  <2> SUFFICES ASSUME NEW g \in Groups \ unsure', Calm(g)', server[g].in
               PROVE  g \in setting <=> server[g].eph
    BY <1>2 DEF SettingsFollow
  <2>1. unsure' = unsure /\ ~tangled BY <1>2
  <2>2. \A v \in Workers : work'[v].job.g = g =>
          work'[v].job.kind \notin InOut /\ ~(work'[v].job.kind = "eph" /\ Undone(v)')
    BY DEF Calm
  <2> DEFINE K == InOut \cup {"eph"}
  <2>3. ~Later(g, K, 0)' BY DEF Calm
  <2>4. ~Later(g, K, 0)
    <3>1. CASE job.kind \in EventKinds
      <4>1. PICK i \in DOMAIN events :
              /\ job = events[i]
              /\ tangled = \E j \in 1 .. i - 1 : events[j].g = events[i].g
              /\ events' = [j \in 1 .. Len(events) - 1 |-> events[IF j < i THEN j ELSE j + 1]]
        BY <1>1, <3>1 DEF Opens
      <4>2. events[i].g = g => \A j \in 1 .. i - 1 : events[j].g # g BY <2>1, <4>1
      <4>3. \A kinds : /\ Later(g, kinds, 0)
                       /\ ~(events[i].g = g /\ events[i].kind \in kinds)
                       => Later(g, kinds, 0)'
        BY <1>0, <4>1, <4>2, QueueRemoval
      <4>4. ~(job.g = g /\ job.kind \in K)
        <5> SUFFICES ASSUME job.g = g, job.kind \in K PROVE FALSE OBVIOUS
        <5>1. job.kind = "eph" /\ ~Undone(w)' BY <1>2, <2>2
        <5>2. calls = Waiting BY <1>1, <5>1 DEF Opens, Plan, Waiting
        <5> QED BY <1>2, <5>1, <5>2, WaitingHead DEF Undone
      <4> HIDE DEF K
      <4> QED BY <2>3, <4>1, <4>3, <4>4
    <3>2. CASE job.kind \notin EventKinds
      <4>1. events' = events BY <1>1, <3>2 DEF Opens
      <4> QED BY <2>3, <4>1 DEF Later
    <3> QED BY <3>1, <3>2
  <2>5. Calm(g)
    <3> SUFFICES ASSUME NEW v \in Workers, work[v].job.g = g
                 PROVE  work[v].job.kind \notin InOut /\ ~(work[v].job.kind = "eph" /\ Undone(v))
      BY <2>4 DEF Calm
    <3>1. CASE v = w BY <1>2, <3>1 DEF Idle, Job, InOut
    <3>2. CASE v # w BY <1>2, <2>2, <3>2 DEF Undone
    <3> QED BY <3>1, <3>2
  <2> QED BY <2>1, <2>5 DEF SettingsFollow
<1>4. SettingsDone'
  <2> SUFFICES ASSUME NEW v \in Workers, NEW g \in Groups, Refreshing(v)',
                      work'[v].alone \/ g \notin unsure'
               PROVE  Owed(work'[v].calls, g) \/ work'[v].got[g] = NoRow \/ SetAs(g, work'[v].got[g])
    BY <1>2 DEF SettingsDone, SetAs, Owed
  <2>1. v # w BY <1>2 DEF Refreshing
  <2>2. Refreshing(v) /\ (work[v].alone \/ g \notin unsure) BY <1>2, <2>1 DEF Refreshing
  <2> QED BY <1>2, <2>1, <2>2 DEF SettingsDone
<1>5. PutsMatch'
  <2> SUFFICES ASSUME NEW v \in Workers, work'[v].calls # <<>>,
                      NEW c, c = Head(work'[v].calls), c.op = "put",
                      c.g \notin unsure' \/ work'[v].alone,
                      work'[v].job.kind = "people" => Refreshing(v)'
               PROVE  SetAs(c.g, c.row)
    BY <1>2 DEF PutsMatch, Calling, This, SetAs
  <2>1. v # w BY <1>2
  <2>2. work[v].calls # <<>> /\ c = This(v) /\ Calling(v, "put") BY <1>2, <2>1 DEF This, Calling
  <2>3. c.g \in Groups
    <3>1. c \in CallsOf(work[v].job.kind) BY <1>0, <2>2, HeadFacts
    <3> QED BY <3>1 DEF CallsOf
  <2>4. c.g \notin unsure \/ work[v].alone BY <1>2, <2>1, <2>3
  <2>5. work[v].job.kind = "people" => Refreshing(v) BY <1>2, <2>1 DEF Refreshing
  <2> QED BY <2>2, <2>4, <2>5 DEF PutsMatch
<1> QED BY <1>3, <1>4, <1>5

LEMMA ChangesSettings ==
    ASSUME Truth, SettingsFollow, ServerChanges
    PROVE  SettingsFollow' /\ work' = work /\ unsure \subseteq unsure' /\ setting' = setting
<1>1. PICK h \in Groups, e \in EventJobs :
        /\ events' = Append(events, e) /\ e.g = h
        /\ \A g \in Groups : g # h => server'[g] = server[g]
        /\ setting' = setting /\ work' = work /\ unsure \subseteq unsure'
        /\ \/ e.kind \in InOut \cup {"eph"}
           \/ server[h].in /\ server'[h].eph = server[h].eph
  BY ChangeCases DEF InOut
<1> SUFFICES ASSUME NEW g \in Groups \ unsure', Calm(g)', server'[g].in
             PROVE  g \in setting <=> server'[g].eph
  BY <1>1 DEF SettingsFollow
<1>2. \A kinds : Later(g, kinds, 0)' <=> Later(g, kinds, 0) \/ (e.g = g /\ e.kind \in kinds)
  BY <1>1, QueueAppend
<1> DEFINE K == InOut \cup {"eph"}
<1>3. ~Later(g, K, 0)' BY DEF Calm
<1>4. ~Later(g, K, 0) /\ ~(e.g = g /\ e.kind \in K)
  <2> HIDE DEF K
  <2> QED BY <1>2, <1>3
<1>5. Calm(g) BY <1>1, <1>4 DEF Calm, Undone
<1>6. server[g].in /\ server'[g].eph = server[g].eph
  <2>1. CASE g = h BY <1>1, <1>4, <2>1
  <2>2. CASE g # h BY <1>1, <2>2
  <2> QED BY <2>1, <2>2
<1> QED BY <1>1, <1>5, <1>6 DEF SettingsFollow

LEMMA StepKeepsSettings ==
    /\ Discipline /\ Progress /\ Own /\ Snapshot /\ OutcomesFollow
    /\ SettingsFollow /\ SettingsDone /\ PutsMatch
    /\ [Next]_vars
    => SettingsFollow' /\ SettingsDone' /\ PutsMatch'
<1> SUFFICES ASSUME Discipline, Progress, Own, Snapshot, OutcomesFollow,
                    SettingsFollow, SettingsDone, PutsMatch, [Next]_vars
             PROVE  SettingsFollow' /\ SettingsDone' /\ PutsMatch'
  OBVIOUS
<1>0. Truth BY DEF Discipline
<1>1. ASSUME NEW w \in Workers, Request(w) PROVE SettingsFollow' /\ SettingsDone' /\ PutsMatch'
  BY <1>1, RequestSettings
<1>2. ASSUME NEW w \in Workers, Lock(w) \/ Statement(w)
      PROVE  SettingsFollow' /\ SettingsDone' /\ PutsMatch'
  BY <1>2, StatementSettings, StatementDone, StatementPuts
<1>3. CASE ServerChanges \/ Age \/ UNCHANGED vars
  <2>1. work' = work /\ unsure \subseteq unsure' /\ setting' = setting
    BY <1>0, <1>3, ChangesSettings DEF Age, vars, cacheVars
  <2>2. SettingsDone' /\ PutsMatch'
    BY <2>1 DEF SettingsDone, PutsMatch, SetAs, Refreshing, Owed, Calling, This
  <2>3. SettingsFollow'
    <3>1. CASE ServerChanges BY <1>0, <3>1, ChangesSettings
    <3>2. CASE Age \/ UNCHANGED vars
      <4>1. events' = events /\ server' = server BY <3>2 DEF Age, vars, serverVars
      <4> QED BY <2>1, <4>1 DEF SettingsFollow, Calm, Later, Undone
    <3> QED BY <1>3, <3>1, <3>2
  <2> QED BY <2>2, <2>3
<1>4. CASE Restart
  <2>1. unsure' = Groups /\ work' = [w \in Workers |-> Idle] BY <1>4 DEF Restart
  <2>2. \A w \in Workers : work'[w].calls = <<>> BY <2>1 DEF Idle
  <2>3. Left(<<>>) = {} BY ShortSequences
  <2> QED BY <2>1, <2>2, <2>3 DEF SettingsFollow, SettingsDone, PutsMatch, Refreshing, Marking, Calling
<1> QED BY <1>1, <1>2, <1>3, <1>4 DEF Next

LEMMA InitSettings == Init => SettingsFollow /\ SettingsDone /\ PutsMatch
<1> SUFFICES ASSUME Init PROVE SettingsFollow /\ SettingsDone /\ PutsMatch OBVIOUS
<1>1. setting = {} /\ work = [w \in Workers |-> Idle] BY DEF Init
<1>2. \A w \in Workers : work[w].calls = <<>> BY <1>1 DEF Idle
<1>3. Left(<<>>) = {} BY ShortSequences
<1>4. ASSUME NEW g \in Groups PROVE server[g].eph = FALSE
  <2> DEFINE V == {1}
             E == {FALSE}
  <2>1. server \in [Groups -> [in : BOOLEAN, ver : V, eph : E]] BY DEF Init
  <2> HIDE DEF V, E
  <2>2. server[g].eph \in E BY <1>4, <2>1
  <2> QED BY <2>2 DEF E
<1> QED BY <1>1, <1>2, <1>3, <1>4 DEF SettingsFollow, SettingsDone, PutsMatch, Refreshing, Marking, Calling

\* Inductive.
Tracking ==
    /\ Discipline /\ Bounded /\ Progress /\ Own /\ QueueTrue /\ Snapshot
    /\ RowFollows /\ OutcomesFollow /\ SettingsFollow /\ SettingsDone /\ PutsMatch

LEMMA TrackingIsInvariant == Spec => []Tracking
<1>1. Init => Tracking
  BY InitDiscipline, InitBounded, InitProgress, InitOwn, InitQueue, InitSnapshot, InitFollows,
     InitSettings DEF Tracking
<1>2. Tracking /\ [Next]_vars => Tracking'
  <2> SUFFICES ASSUME Tracking, [Next]_vars PROVE Tracking' OBVIOUS
  <2>1. Truth /\ Forms BY DEF Tracking, Discipline
  <2>2. Discipline' /\ Bounded' /\ Progress' /\ Own' /\ QueueTrue' /\ Snapshot'
    BY <2>1, StepKeepsDiscipline, StepKeepsBounded, StepKeepsProgress, StepKeepsOwn, StepKeepsQueue,
       StepKeepsSnapshot DEF Tracking
  <2>3. RowFollows' /\ OutcomesFollow' BY StepKeepsFollows DEF Tracking
  <2>4. SettingsFollow' /\ SettingsDone' /\ PutsMatch' BY StepKeepsSettings DEF Tracking
  <2> QED BY <2>2, <2>3, <2>4 DEF Tracking
<1> QED BY <1>1, <1>2, PTL DEF Spec

LEMMA TrackedGroups ==
    ASSUME Tracking, NEW g \in Groups \ (unsure \cup Due(None))
    PROVE  /\ row[g] = IF server[g].in THEN RowAt(g, server[g].ver, server[g].eph) ELSE NoRow
           /\ row[g] # NoRow => (g \in setting <=> row[g].eph)
<1>0. Truth BY DEF Tracking, Discipline
<1>1. /\ \A i \in DOMAIN events : events[i].g # g
      /\ \A v \in Workers : work[v].job.g # g
  BY CacheAssumption DEF Due
<1>2. /\ \A kinds : ~Later(g, kinds, 0)
      /\ \A ver : ~Comes(g, 0, ver)
      /\ ~Writer(g) /\ Calm(g)
  BY <1>1 DEF Later, Comes, Writer, Calm
<1>3. Pend(g, None) = {} BY <1>1 DEF Pend
<1>4. Follows(g, row[g], {}) BY <1>2, <1>3 DEF Tracking, RowFollows
<1>5. row[g] # NoRow <=> server[g].in BY <1>2, <1>4 DEF Follows
<1>6. CASE ~server[g].in BY <1>5, <1>6
<1>7. CASE server[g].in
  <2>1. TrueRow(g, row[g]) BY <1>0, <1>5, <1>7 DEF Truth, Stored
  <2>2. row[g].ver \in Nat /\ server[g].ver \in Nat BY <1>0, VersionFacts
  <2>3. row[g].ver <= server[g].ver BY DEF Tracking, Bounded
  <2>4. \A ver \in row[g].ver + 1 .. server[g].ver : FALSE BY <1>2, <1>4, <1>7 DEF Follows
  <2>5. row[g].ver = server[g].ver
    <3>1. row[g].ver < server[g].ver => server[g].ver \in row[g].ver + 1 .. server[g].ver BY <2>2
    <3> QED BY <2>2, <2>3, <2>4, <3>1
  <2>6. row[g].eph = server[g].eph BY <1>2, <1>4, <1>7 DEF Follows
  <2>7. row[g] = [ver |-> row[g].ver, roster |-> row[g].roster, eph |-> row[g].eph]
    BY <2>1 DEF TrueRow, Rows
  <2>8. row[g] = RowAt(g, server[g].ver, server[g].eph) BY <2>1, <2>5, <2>6, <2>7 DEF TrueRow, RowAt
  <2>9. g \in setting <=> server[g].eph BY <1>2, <1>7 DEF Tracking, SettingsFollow
  <2> QED BY <1>7, <2>6, <2>8, <2>9
<1> QED BY <1>6, <1>7

\* Of a sure group with nothing due about it no update is missing: the row leads to what
\* WhatsApp has, and nothing is left that would change it.  Not sure is a group for the
\* reasons that CacheInSync lists, an own leave under @lid and a kept setting among them.
THEOREM StoredAsReported == Spec => []CacheInSync
<1>1. Tracking => CacheInSync BY TrackedGroups DEF CacheInSync
<1> QED BY <1>1, TrackingIsInvariant, PTL
=============================================================================
