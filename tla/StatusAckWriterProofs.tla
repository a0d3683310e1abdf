------------------------ MODULE StatusAckWriterProofs ------------------------
(***************************************************************************)
(* What the ack writer promises, for any producers, pairs and sizes: nothing *)
(* that is owed vanishes, and the table implements the abstract counter.     *)
(***************************************************************************)
EXTENDS StatusAckWriter, TLAPS

-----------------------------------------------------------------------------
(* Levels *)

LEMMA LevelOrder ==
    /\ \A a, b \in Levels : a <= b \/ b <= a
    /\ \A a, b, c \in Levels : a <= b /\ b <= c => a <= c
    /\ \A a \in Levels : 0 <= a /\ a <= a /\ (a <= 0 => a = 0)
    /\ \A a, b \in Levels : (a < b) <=> ~(b <= a)
    /\ \A a, b \in Levels : a <= b /\ b <= a => a = b
    /\ 0 \in Levels /\ Acks \subseteq Levels /\ \A a \in Acks : a # 0
BY DEF Levels, Acks

LEMMA HighestIsMax ==
    ASSUME NEW S \in SUBSET Levels
    PROVE  /\ Highest(S) \in S \cup {0} /\ Highest(S) \in Levels
           /\ \A m \in S : m <= Highest(S)
<1>1. \E n \in S \cup {0} : \A m \in S : m <= n
  <2>1. CASE 3 \in S BY <2>1 DEF Levels, Acks
  <2>2. CASE 3 \notin S /\ 2 \in S BY <2>2 DEF Levels, Acks
  <2>3. CASE 3 \notin S /\ 2 \notin S BY <2>3 DEF Levels, Acks
  <2> QED BY <2>1, <2>2, <2>3
<1>2. /\ Highest(S) \in S \cup {0}
      /\ \A m \in S : m <= Highest(S)
  BY <1>1 DEF Highest
<1> QED BY <1>2, LevelOrder

-----------------------------------------------------------------------------
(* The table *)

Tables == [AllPairs -> Levels]
Kept == [row : Tables, fresh : SUBSET AllPairs, cleaned : BOOLEAN, lost : SUBSET Pairs]

LEMMA AcksAreLevels ==
    ASSUME NEW recs \in SUBSET Records, NEW x
    PROVE  /\ AcksFor(recs, x) \in SUBSET Acks
           /\ \A n : n \in AcksFor(recs, x) <=> \E r \in recs : r.pair = x /\ r.ack = n
BY DEF AcksFor, Records

LEMMA RowsArePairs ==
    ASSUME NEW k \in Pairs
    PROVE  RowsOf(k) \subseteq AllPairs /\ k \in RowsOf(k)
BY DEF RowsOf, AllPairs

\* The level of a pair is that of one of its rows, and of none of them less.
LEMMA StoredIsMax ==
    ASSUME NEW table \in Tables, NEW k \in Pairs
    PROVE  /\ Stored(table, k) \in Levels
           /\ \A x \in RowsOf(k) : table[x] <= Stored(table, k)
           /\ \E x \in RowsOf(k) : table[x] = Stored(table, k)
<1> DEFINE S == {table[x] : x \in RowsOf(k)}
<1>1. S \in SUBSET Levels BY RowsArePairs DEF Tables
<1>2. Stored(table, k) = Highest(S) BY DEF Stored
<1>3. Highest(S) \in S \cup {0} /\ Highest(S) \in Levels /\ \A m \in S : m <= Highest(S)
  BY <1>1, HighestIsMax
<1>4. table[k] \in S BY RowsArePairs
<1>5. Highest(S) \in S
  <2>1. CASE Highest(S) = 0
    <3>1. table[k] \in Levels /\ table[k] <= 0 BY <1>1, <1>3, <1>4, <2>1
    <3>2. table[k] = 0 BY <3>1, LevelOrder
    <3> QED BY <1>4, <2>1, <3>2
  <2> QED BY <1>3, <2>1
<1> QED BY <1>2, <1>3, <1>5

\* An upsert takes each row to the highest of what it held and what it is given.
LEMMA UpsertRaises ==
    ASSUME NEW table \in Tables, NEW recs \in SUBSET Records
    PROVE  /\ Upserted(table, recs) \in Tables
           /\ \A x \in AllPairs :
                /\ table[x] <= Upserted(table, recs)[x]
                /\ Upserted(table, recs)[x] \in {table[x]} \cup AcksFor(recs, x)
           /\ \A r \in recs : r.ack <= Upserted(table, recs)[r.pair]
<1> DEFINE up(x) == Highest({table[x]} \cup AcksFor(recs, x))
<1>1. Upserted(table, recs) = [x \in AllPairs |-> up(x)] BY DEF Upserted
<1>2. ASSUME NEW x \in AllPairs
      PROVE  /\ up(x) \in {table[x]} \cup AcksFor(recs, x) /\ up(x) \in Levels
             /\ table[x] <= up(x) /\ \A a \in AcksFor(recs, x) : a <= up(x)
  <2> DEFINE S == {table[x]} \cup AcksFor(recs, x)
  <2>1. S \in SUBSET Levels /\ table[x] \in Levels BY AcksAreLevels, LevelOrder DEF Tables
  <2>2. up(x) \in S \cup {0} /\ up(x) \in Levels /\ \A m \in S : m <= up(x)
    BY <2>1, HighestIsMax
  <2>3. up(x) = 0 => table[x] = 0 BY <2>1, <2>2, LevelOrder
  <2> QED BY <2>2, <2>3
<1>3. ASSUME NEW r \in recs PROVE r.ack <= up(r.pair)
  <2>1. r.pair \in AllPairs /\ r.ack \in AcksFor(recs, r.pair)
    BY AcksAreLevels DEF Records, AllPairs
  <2> QED BY <1>2, <2>1
<1>4. \A r \in recs : r.pair \in AllPairs BY DEF Records, AllPairs
<1> HIDE DEF up
<1> QED BY <1>1, <1>2, <1>3, <1>4 DEF Tables

-----------------------------------------------------------------------------
(* The inductive invariant *)

Pending == Elements(queue) \cup Elements(batch)

\* A producer has the level of its receipt, and no view of our own.
Receipts ==
    \A p \in Producers :
        /\ prod[p].todo # {} => prod[p].ack \in Acks
        /\ prod[p].todo \cap OwnPairs = {}

\* What holds in which state of the writer and of GoWS.Stop.
Stages ==
    /\ writer \in {"off", "prune", "merge", "self"} =>
         queue = <<>> /\ batch = <<>> /\ \A p \in Producers : prod[p].todo = {}
    /\ writer \in {"drain", "done"} => stopping
    /\ stopping <=> stop # "idle"
    /\ stop = "closed" => writer = "done"
    /\ writer = "done" => batch = <<>> /\ \A k \in Pairs : owed[k] <= Stored(row, k)
    /\ writer \in {"prune", "merge", "self", "run", "drain"} => dbOpen

\* No level is above what a receipt has said.
Witnessed ==
    /\ \A k \in Pairs : Stored(row, k) <= seen[k]
    /\ \A r \in Pending : r.ack <= seen[r.pair] /\ r.pair \notin OwnPairs

TypeInv == TypeOK /\ Receipts
IInv == TypeInv /\ Stages /\ Witnessed /\ NothingVanishes /\ SelfViewsStayDeleted

\* The elements of a sequence, of what is left of one and of a longer one.
LEMMA ElementsOf ==
    ASSUME NEW S, NEW s \in Seq(S)
    PROVE  /\ Elements(s) \in SUBSET S
           /\ Elements(<<>>) = {}
           /\ s # <<>> => /\ Head(s) \in S /\ Tail(s) \in Seq(S)
                          /\ Elements(s) = {Head(s)} \cup Elements(Tail(s))
           /\ \A e \in S : Append(s, e) \in Seq(S) /\ Elements(Append(s, e)) = Elements(s) \cup {e}
<1>1. Elements(s) \in SUBSET S BY DEF Elements
<1>2. Elements(<<>>) = {} BY DEF Elements
<1>3. ASSUME s # <<>>
      PROVE  /\ Head(s) \in S /\ Tail(s) \in Seq(S)
             /\ Elements(s) = {Head(s)} \cup Elements(Tail(s))
  <2>1. Head(s) = s[1] /\ 1 \in 1 .. Len(s) /\ Len(s) \in Nat /\ DOMAIN s = 1 .. Len(s) BY <1>3
  <2>2. /\ Tail(s) \in Seq(S) /\ Len(Tail(s)) = Len(s) - 1
        /\ \A i \in 1 .. Len(s) - 1 : Tail(s)[i] = s[i + 1]
    BY <1>3
  <2>3. ASSUME NEW i \in DOMAIN s PROVE s[i] \in {Head(s)} \cup Elements(Tail(s))
    <3>1. CASE i = 1 BY <2>1, <3>1
    <3>2. CASE i # 1
      <4>1. i - 1 \in 1 .. Len(s) - 1 /\ (i - 1) + 1 = i BY <2>1, <3>2
      <4>2. i - 1 \in DOMAIN Tail(s) /\ Tail(s)[i - 1] = s[i] BY <2>1, <2>2, <4>1
      <4> QED BY <4>2 DEF Elements
    <3> QED BY <3>1, <3>2
  <2>4. ASSUME NEW i \in DOMAIN Tail(s) PROVE Tail(s)[i] \in Elements(s)
    <3>1. i \in 1 .. Len(s) - 1 /\ i + 1 \in 1 .. Len(s) BY <2>1, <2>2
    <3> QED BY <2>1, <2>2, <3>1 DEF Elements
  <2>5. Head(s) \in Elements(s) BY <2>1 DEF Elements
  <2> QED BY <2>1, <2>2, <2>3, <2>4, <2>5 DEF Elements
<1>4. ASSUME NEW e \in S
      PROVE  Append(s, e) \in Seq(S) /\ Elements(Append(s, e)) = Elements(s) \cup {e}
  <2> DEFINE t == Append(s, e)
  <2>1. /\ t \in Seq(S) /\ Len(t) = Len(s) + 1 /\ t[Len(s) + 1] = e
        /\ Len(s) \in Nat /\ DOMAIN s = 1 .. Len(s) /\ DOMAIN t = 1 .. Len(s) + 1
        /\ \A i \in 1 .. Len(s) : t[i] = s[i]
    OBVIOUS
  <2>2. \A i \in 1 .. Len(s) + 1 : i \in 1 .. Len(s) \/ i = Len(s) + 1 BY <2>1
  <2>3. Len(s) + 1 \in DOMAIN t /\ DOMAIN s \subseteq DOMAIN t BY <2>1
  <2> HIDE DEF t
  <2>4. Elements(t) \subseteq Elements(s) \cup {e} BY <2>1, <2>2 DEF Elements
  <2>5. Elements(s) \cup {e} \subseteq Elements(t) BY <2>1, <2>3 DEF Elements
  <2> QED BY <2>1, <2>4, <2>5 DEF t
<1> QED BY <1>1, <1>2, <1>3, <1>4

-----------------------------------------------------------------------------
(* What the store operations may do *)

\* The pairs with a row that has outlived the retention.
Outdated(table, young) == {k \in Pairs : \E x \in RowsOf(k) : table[x] # 0 /\ x \notin young}

\* An outcome in terms of rows: a row is as it was, at the level of a record, or deleted,
\* because it was outdated or our own.
RowsAdvance(o, recs) ==
    /\ o \in Kept
    /\ \A x \in AllPairs :
         /\ o.row[x] \in {row[x], 0} \cup AcksFor(recs, x)
         /\ o.row[x] # 0 /\ x \notin o.fresh => row[x] = o.row[x] /\ x \notin fresh
         /\ \/ row[x] <= o.row[x]
            \/ /\ o.row[x] = 0
               /\ \A k \in Pairs : x \in RowsOf(k) => k \in o.lost /\ (k \in OwnPairs \/ x \notin fresh)
    /\ \A r \in recs : r.ack <= o.row[r.pair] \/ r.pair \in o.lost
    /\ o.cleaned => \A k \in OwnPairs : \A x \in RowsOf(k) : o.row[x] = 0

\* An outcome in terms of levels.
Advances(o, recs) ==
    /\ o \in Kept
    /\ \A k \in Pairs : \/ Stored(row, k) <= Stored(o.row, k)
                        \/ k \in o.lost /\ (k \in OwnPairs \/ k \in Outdated(row, fresh))
    /\ \A r \in recs : r.ack <= Stored(o.row, r.pair) \/ r.pair \in o.lost
    /\ \A k \in Pairs : Stored(o.row, k) <= seen[k]
    /\ Outdated(o.row, o.fresh) \subseteq Outdated(row, fresh)
    /\ o.cleaned => \A k \in OwnPairs : Stored(o.row, k) = 0

LEMMA PendingRecords ==
    ASSUME TypeOK
    PROVE  /\ Elements(queue) \in SUBSET Records /\ Elements(batch) \in SUBSET Records
           /\ Pending \in SUBSET Records /\ row \in Tables
BY ElementsOf DEF TypeOK, Pending, Tables

LEMMA RecordFields ==
    ASSUME NEW r \in Records
    PROVE  r.pair \in Pairs /\ r.pair \in AllPairs /\ r.ack \in Acks /\ r.ack \in Levels
BY LevelOrder DEF Records, AllPairs

\* No row of one of our own pairs is named by a record.
LEMMA OwnRowsUnnamed ==
    ASSUME NEW recs \in SUBSET Records, \A r \in recs : r.pair \notin OwnPairs,
           NEW k \in OwnPairs, NEW x \in RowsOf(k)
    PROVE  AcksFor(recs, x) = {}
<1>1. ASSUME NEW r \in recs PROVE r.pair # x
  BY RecordFields, WriterAssumption DEF RowsOf
<1> QED BY <1>1 DEF AcksFor

LEMMA StartAdvances ==
    ASSUME IInv
    PROVE  RowsAdvance(Now, {})
<1>1. Now \in Kept BY DEF Now, Kept, IInv, TypeInv, TypeOK, Tables
<1>2. \A x \in AllPairs : row[x] <= row[x]
  BY LevelOrder DEF IInv, TypeInv, TypeOK
<1>3. cleaned => \A k \in OwnPairs : \A x \in RowsOf(k) : row[x] = 0
  <2> SUFFICES ASSUME cleaned, NEW k \in OwnPairs, NEW x \in RowsOf(k) PROVE row[x] = 0
    OBVIOUS
  <2>1. k \in Pairs /\ x \in AllPairs /\ row \in Tables
    BY RowsArePairs, WriterAssumption, PendingRecords DEF IInv, TypeInv
  <2>2. row[x] <= 0 BY <2>1, StoredIsMax DEF IInv, SelfViewsStayDeleted
  <2> QED BY <2>1, <2>2, LevelOrder DEF Tables
<1> QED BY <1>1, <1>2, <1>3 DEF RowsAdvance, Now

LEMMA FlushAdvances ==
    ASSUME IInv, NEW recs \in SUBSET Pending, NEW o \in Flushed(Now, recs)
    PROVE  RowsAdvance(o, recs)
<1> DEFINE table == Upserted(row, recs)
<1>1. /\ recs \in SUBSET Records /\ row \in Tables /\ fresh \in SUBSET AllPairs
      /\ cleaned \in BOOLEAN
  BY PendingRecords DEF IInv, TypeInv, TypeOK
<1>2. RowsAdvance(Now, {}) BY StartAdvances
<1>3. \A r \in recs : r.pair \in Pairs /\ r.pair \in AllPairs BY <1>1, RecordFields
<1>4. CASE o = [Now EXCEPT !.row = table, !.fresh = @ \cup Raised(row, table)]
  <2>1. /\ o.row = table /\ o.fresh = fresh \cup Raised(row, table)
        /\ o.cleaned = cleaned /\ o.lost = {} /\ o \in Kept
    BY <1>1, <1>4, UpsertRaises DEF Now, Kept, Raised
  <2>2. ASSUME NEW x \in AllPairs
        PROVE  /\ table[x] \in {row[x]} \cup AcksFor(recs, x) /\ row[x] <= table[x]
               /\ x \notin Raised(row, table) => row[x] = table[x]
    <3>1. row[x] \in Levels /\ table[x] \in Levels BY <1>1, UpsertRaises DEF Tables
    <3>2. table[x] \in {row[x]} \cup AcksFor(recs, x) /\ row[x] <= table[x]
      BY <1>1, UpsertRaises
    <3>3. x \notin Raised(row, table) => table[x] <= row[x] BY <3>1, LevelOrder DEF Raised
    <3> QED BY <3>1, <3>2, <3>3, LevelOrder
  <2>3. \A r \in recs : r.ack <= table[r.pair] BY <1>1, UpsertRaises
  <2>4. ASSUME cleaned, NEW k \in OwnPairs, NEW x \in RowsOf(k) PROVE table[x] = 0
    <3>1. k \in Pairs /\ x \in AllPairs BY RowsArePairs, WriterAssumption
    <3>2. row[x] = 0 BY <1>2, <2>4 DEF RowsAdvance, Now
    <3>3. AcksFor(recs, x) = {} BY <1>1, OwnRowsUnnamed DEF IInv, Witnessed
    <3> QED BY <2>2, <3>1, <3>2, <3>3
  <2> HIDE DEF table
  <2> QED BY <2>1, <2>2, <2>3, <2>4 DEF RowsAdvance
<1>5. CASE o = [Now EXCEPT !.lost = @ \cup {r.pair : r \in recs}]
  <2>1. /\ o.row = row /\ o.fresh = fresh /\ o.cleaned = cleaned
        /\ o.lost = {r.pair : r \in recs} /\ o \in Kept
    BY <1>1, <1>3, <1>5 DEF Now, Kept
  <2> QED BY <1>2, <2>1 DEF RowsAdvance, Now
<1> QED BY <1>4, <1>5 DEF Flushed, Now

\* Deleting rows that are outdated or our own.
LEMMA DeletionAdvances ==
    ASSUME NEW recs \in SUBSET Records, NEW o, RowsAdvance(o, recs), NEW xs \in SUBSET AllPairs,
           \A x \in xs, k \in Pairs : x \in RowsOf(k) => k \in OwnPairs \/ x \notin fresh
    PROVE  RowsAdvance(Without(o, xs), recs)
<1> DEFINE d == Without(o, xs)
<1>1. /\ d.row = Deleted(o.row, xs) /\ d.fresh = o.fresh \ xs /\ d.cleaned = o.cleaned
      /\ d.lost = o.lost \cup {k \in Pairs : RowsOf(k) \cap xs # {}} /\ d \in Kept
  <2>1. Deleted(o.row, xs) \in Tables
    BY LevelOrder DEF RowsAdvance, Kept, Tables, Deleted
  <2> QED BY <2>1 DEF RowsAdvance, Kept, Without
<1>2. \A x \in AllPairs : d.row[x] = IF x \in xs THEN 0 ELSE o.row[x] BY <1>1 DEF Deleted
<1> HIDE DEF d
<1>3. ASSUME NEW x \in AllPairs
      PROVE  /\ d.row[x] \in {row[x], 0} \cup AcksFor(recs, x)
             /\ d.row[x] # 0 /\ x \notin d.fresh => row[x] = d.row[x] /\ x \notin fresh
             /\ \/ row[x] <= d.row[x]
                \/ /\ d.row[x] = 0
                   /\ \A k \in Pairs : x \in RowsOf(k) => k \in d.lost /\ (k \in OwnPairs \/ x \notin fresh)
  BY <1>1, <1>2 DEF RowsAdvance
<1>4. ASSUME NEW r \in recs PROVE r.ack <= d.row[r.pair] \/ r.pair \in d.lost
  <2>1. r.pair \in Pairs /\ r.pair \in AllPairs /\ r.pair \in RowsOf(r.pair)
    BY RecordFields, RowsArePairs
  <2> QED BY <1>1, <1>2, <2>1 DEF RowsAdvance
<1>5. ASSUME d.cleaned, NEW k \in OwnPairs, NEW x \in RowsOf(k) PROVE d.row[x] = 0
  <2>1. x \in AllPairs BY RowsArePairs, WriterAssumption
  <2> QED BY <1>1, <1>2, <1>5, <2>1 DEF RowsAdvance
<1> QED BY <1>1, <1>3, <1>4, <1>5 DEF RowsAdvance, d

LEMMA PruneAdvances ==
    ASSUME NEW recs \in SUBSET Records, NEW o, RowsAdvance(o, recs), NEW p \in Pruned(o)
    PROVE  RowsAdvance(p, recs)
<1> DEFINE xs == {x \in AllPairs : o.row[x] # 0 /\ x \notin o.fresh}
<1>1. \A x \in xs : x \notin fresh BY DEF RowsAdvance
<1>2. RowsAdvance(Without(o, xs), recs) BY <1>1, DeletionAdvances
<1> QED BY <1>2 DEF Pruned

LEMMA SelfViewsAdvance ==
    ASSUME NEW recs \in SUBSET Records, NEW o, RowsAdvance(o, recs), NEW p \in SelfViewsDeleted(o)
    PROVE  RowsAdvance(p, recs)
<1> DEFINE d == Without(o, OwnRows)
<1>1. OwnRows \in SUBSET AllPairs BY WriterAssumption DEF OwnRows, AllPairs
<1>2. \A x \in OwnRows, k \in Pairs : x \in RowsOf(k) => k \in OwnPairs
  BY WriterAssumption DEF OwnRows, RowsOf
<1>3. RowsAdvance(d, recs) BY <1>1, <1>2, DeletionAdvances
<1>4. \A x \in AllPairs : d.row[x] = IF x \in OwnRows THEN 0 ELSE o.row[x]
  BY DEF Without, Deleted, RowsAdvance, Kept
<1>5. \A k \in OwnPairs : \A x \in RowsOf(k) : x \in OwnRows /\ x \in AllPairs
  BY WriterAssumption DEF OwnRows, RowsOf, AllPairs
<1> HIDE DEF d
<1>6. CASE p = [d EXCEPT !.cleaned = TRUE]
  <2>1. p \in Kept /\ p.row = d.row /\ p.fresh = d.fresh /\ p.lost = d.lost
    BY <1>3, <1>6 DEF RowsAdvance, Kept
  <2> QED BY <1>3, <1>4, <1>5, <2>1 DEF RowsAdvance
<1>7. CASE p = o BY <1>7
<1> QED BY <1>6, <1>7 DEF SelfViewsDeleted, d

LEMMA TypesOf ==
    ASSUME IInv
    PROVE  /\ row \in Tables /\ fresh \in SUBSET AllPairs /\ cleaned \in BOOLEAN
           /\ \A k \in Pairs : seen[k] \in Levels /\ owed[k] \in Levels
           /\ Pending \in SUBSET Records
BY PendingRecords DEF IInv, TypeInv, TypeOK

LEMMA LevelsAdvance ==
    ASSUME IInv, NEW recs \in SUBSET Pending, NEW o, RowsAdvance(o, recs)
    PROVE  Advances(o, recs)
<1> USE DEF Kept
<1>1. /\ recs \in SUBSET Records /\ row \in Tables /\ o.row \in Tables /\ o \in Kept
      /\ \A k \in Pairs : seen[k] \in Levels
  BY TypesOf DEF RowsAdvance
<1>2. ASSUME NEW k \in Pairs, ~(Stored(row, k) <= Stored(o.row, k))
      PROVE  k \in o.lost /\ (k \in OwnPairs \/ k \in Outdated(row, fresh))
  <2>1. PICK x \in RowsOf(k) : row[x] = Stored(row, k) BY <1>1, StoredIsMax
  <2>2. x \in AllPairs /\ row[x] \in Levels /\ o.row[x] \in Levels BY <1>1, RowsArePairs DEF Tables
  <2>3. Stored(o.row, k) \in Levels /\ o.row[x] <= Stored(o.row, k) BY <1>1, StoredIsMax
  <2>4. ~(row[x] <= o.row[x]) BY <1>2, <2>1, <2>2, <2>3, LevelOrder
  <2>5. k \in o.lost /\ (k \in OwnPairs \/ x \notin fresh) BY <2>2, <2>4 DEF RowsAdvance
  <2>6. row[x] # 0 BY <1>2, <2>1, <2>3, LevelOrder
  <2> QED BY <2>5, <2>6 DEF Outdated
<1>3. ASSUME NEW r \in recs PROVE r.ack <= Stored(o.row, r.pair) \/ r.pair \in o.lost
  <2>1. r.pair \in Pairs /\ r.pair \in AllPairs /\ r.ack \in Levels BY <1>1, RecordFields
  <2>2. r.ack <= o.row[r.pair] \/ r.pair \in o.lost BY DEF RowsAdvance
  <2>3. /\ o.row[r.pair] <= Stored(o.row, r.pair) /\ Stored(o.row, r.pair) \in Levels
        /\ o.row[r.pair] \in Levels
    BY <1>1, <2>1, StoredIsMax, RowsArePairs DEF Tables
  <2> QED BY <2>1, <2>2, <2>3, LevelOrder
<1>4. ASSUME NEW k \in Pairs PROVE Stored(o.row, k) <= seen[k]
  <2>1. PICK x \in RowsOf(k) : o.row[x] = Stored(o.row, k) BY <1>1, StoredIsMax
  <2>2. x \in AllPairs /\ row[x] \in Levels BY <1>1, RowsArePairs DEF Tables
  <2>3. row[x] <= Stored(row, k) /\ Stored(row, k) \in Levels BY <1>1, StoredIsMax
  <2>4. row[x] <= seen[k] BY <1>1, <2>2, <2>3, LevelOrder DEF IInv, Witnessed
  <2>5. 0 <= seen[k] BY <1>1, LevelOrder
  <2>6. ASSUME NEW n \in AcksFor(recs, x) PROVE n <= seen[k]
    <3>1. PICK r \in recs : r.pair = x /\ r.ack = n BY <1>1, <2>6, AcksAreLevels
    <3>2. x = k BY <1>1, <3>1, RecordFields, WriterAssumption DEF RowsOf
    <3> QED BY <3>1, <3>2 DEF IInv, Witnessed
  <2>7. o.row[x] \in {row[x], 0} \cup AcksFor(recs, x) BY <2>2 DEF RowsAdvance
  <2> QED BY <2>1, <2>4, <2>5, <2>6, <2>7
<1>5. Outdated(o.row, o.fresh) \subseteq Outdated(row, fresh)
  BY RowsArePairs DEF RowsAdvance, Outdated
<1>6. ASSUME o.cleaned, NEW k \in OwnPairs PROVE Stored(o.row, k) = 0
  <2>1. k \in Pairs BY WriterAssumption
  <2>2. \E x \in RowsOf(k) : o.row[x] = Stored(o.row, k) BY <1>1, <2>1, StoredIsMax
  <2> QED BY <1>6, <2>2 DEF RowsAdvance
<1> QED BY <1>1, <1>2, <1>3, <1>4, <1>5, <1>6 DEF Advances

LEMMA MergeAdvances ==
    ASSUME IInv, NEW o \in Merged(Now)
    PROVE  Advances(o, {})
<1> DEFINE folded == {d \in DevicePairs : row[d] # 0 /\ PersonOf[d] # None}
           recs == {[pair |-> PersonOf[d], ack |-> row[d]] : d \in folded}
           table == Upserted(row, recs)
           raised == Raised(row, table)
           m == [Now EXCEPT !.row = Deleted(table, DevicePairs),
                            !.fresh = (@ \ (DevicePairs \cup raised))
                                        \cup {k \in raised : \E d \in folded \cap @ : PersonOf[d] = k}]
<1>1. /\ row \in Tables /\ fresh \in SUBSET AllPairs /\ cleaned \in BOOLEAN
      /\ \A k \in Pairs : seen[k] \in Levels
  BY TypesOf
<1>2. o = Now \/ o = m BY DEF Merged, Now
<1>3. recs \in SUBSET Records
  BY <1>1, WriterAssumption DEF Tables, Levels, Records, AllPairs
<1>4. /\ table \in Tables /\ \A x \in AllPairs : row[x] <= table[x] /\ table[x] \in {row[x]} \cup AcksFor(recs, x)
      /\ \A r \in recs : r.ack <= table[r.pair]
  BY <1>1, <1>3, UpsertRaises
<1>5. /\ m.row = [x \in AllPairs |-> IF x \in DevicePairs THEN 0 ELSE table[x]]
      /\ m.fresh = (fresh \ (DevicePairs \cup raised))
                      \cup {k \in raised : \E d \in folded \cap fresh : PersonOf[d] = k}
      /\ m.cleaned = cleaned /\ m.lost = {}
  BY DEF Now, Deleted
<1>6. m.row \in Tables /\ m \in Kept
  <2> DEFINE young == (fresh \ (DevicePairs \cup raised))
                         \cup {k \in raised : \E d \in folded \cap fresh : PersonOf[d] = k}
  <2>1. m.row \in Tables
    <3> HIDE DEF table, m
    <3> QED BY <1>4, <1>5, LevelOrder DEF Tables
  <2>2. raised \subseteq AllPairs BY DEF Raised
  <2> HIDE DEF raised, folded
  <2>3. young \in SUBSET AllPairs BY <1>1, <2>2
  <2>4. m = [Now EXCEPT !.row = m.row, !.fresh = young] BY <1>5 DEF Now
  <2>5. Now \in [row : Tables, fresh : SUBSET AllPairs, cleaned : BOOLEAN, lost : SUBSET Pairs]
    BY <1>1 DEF Now
  <2> HIDE DEF young, m
  <2> QED BY <2>1, <2>3, <2>4, <2>5 DEF Kept
<1>7. raised = {x \in AllPairs : row[x] < table[x]} BY DEF Raised
<1>8. ASSUME NEW d \in folded PROVE \E r \in recs : r.pair = PersonOf[d] /\ r.ack = row[d]
  <2>1. [pair |-> PersonOf[d], ack |-> row[d]] \in recs OBVIOUS
  <2> QED BY <2>1
<1>9. \A r \in recs : \E d \in folded : r.pair = PersonOf[d] /\ r.ack = row[d] OBVIOUS
<1>10. \A d \in folded : d \in DevicePairs /\ row[d] # 0 /\ PersonOf[d] \in Pairs /\ d \in RowsOf(PersonOf[d])
  BY WriterAssumption DEF RowsOf
<1>11. \A d \in DevicePairs : row[d] # 0 /\ PersonOf[d] # None => d \in folded OBVIOUS
<1> HIDE DEF folded, recs, table, raised, m
\* What the merge stores for a pair is what was stored: each row that counted is at most it.
<1>12. ASSUME NEW k \in Pairs
       PROVE  /\ m.row[k] = table[k] /\ table[k] \in Levels /\ row[k] <= table[k]
              /\ \E x \in RowsOf(k) : row[x] = table[k]
              /\ \A x \in RowsOf(k) : row[x] <= table[k] /\ (x # k => m.row[x] = 0)
  <2>1. k \in AllPairs /\ k \notin DevicePairs /\ k \in RowsOf(k)
    BY RowsArePairs, WriterAssumption DEF AllPairs
  <2>2. m.row[k] = table[k] /\ table[k] \in Levels /\ row[k] <= table[k]
    BY <1>4, <1>5, <2>1 DEF Tables
  <2>3. \E x \in RowsOf(k) : row[x] = table[k]
    <3>1. CASE table[k] = row[k] BY <2>1, <3>1
    <3>2. CASE table[k] \in AcksFor(recs, k)
      <4>1. PICK r \in recs : r.pair = k /\ r.ack = table[k] BY <1>3, <3>2, AcksAreLevels
      <4>2. PICK d \in folded : r.pair = PersonOf[d] /\ r.ack = row[d] BY <1>9
      <4> QED BY <1>10, <4>1, <4>2
    <3> QED BY <1>4, <2>1, <3>1, <3>2
  <2>4. ASSUME NEW x \in RowsOf(k), x # k PROVE row[x] <= table[k] /\ m.row[x] = 0
    <3>1. x \in DevicePairs /\ PersonOf[x] = k /\ x \in AllPairs /\ k # None
      BY <2>4, WriterAssumption DEF RowsOf, AllPairs
    <3>2. CASE row[x] = 0 BY <1>5, <2>2, <3>1, <3>2, LevelOrder
    <3>3. CASE row[x] # 0
      <4>1. PICK r \in recs : r.pair = k /\ r.ack = row[x] BY <1>8, <1>11, <3>1, <3>3
      <4> QED BY <1>4, <1>5, <3>1, <4>1
    <3> QED BY <3>2, <3>3
  <2> QED BY <2>1, <2>2, <2>3, <2>4
<1>13. ASSUME NEW k \in Pairs PROVE Stored(m.row, k) = Stored(row, k) /\ Stored(row, k) = table[k]
  <2>1. Stored(row, k) = table[k]
    <3>1. /\ Stored(row, k) \in Levels /\ \A x \in RowsOf(k) : row[x] <= Stored(row, k)
          /\ \E x \in RowsOf(k) : row[x] = Stored(row, k)
      BY <1>1, StoredIsMax
    <3> QED BY <1>12, <3>1, LevelOrder
  <2>2. Stored(m.row, k) = table[k]
    <3>1. /\ Stored(m.row, k) \in Levels /\ \A x \in RowsOf(k) : m.row[x] <= Stored(m.row, k)
          /\ \E x \in RowsOf(k) : m.row[x] = Stored(m.row, k)
      BY <1>6, StoredIsMax
    <3>2. \A x \in RowsOf(k) : m.row[x] = table[k] \/ m.row[x] = 0 BY <1>12
    <3>3. table[k] <= Stored(m.row, k) BY <1>12, <3>1, RowsArePairs
    <3> QED BY <1>12, <3>1, <3>2, <3>3, LevelOrder
  <2> QED BY <2>1, <2>2
\* A raised row that is not fresh has its level from a device row that is not fresh.
<1>14. ASSUME NEW k \in Outdated(m.row, m.fresh) PROVE k \in Outdated(row, fresh)
  <2>1. k \in Pairs BY DEF Outdated
  <2>2. PICK x \in RowsOf(k) : m.row[x] # 0 /\ x \notin m.fresh BY DEF Outdated
  <2>3. x = k /\ k \in RowsOf(k) /\ k \in AllPairs /\ k \notin DevicePairs
    BY <1>12, <2>1, <2>2, RowsArePairs, WriterAssumption DEF AllPairs
  <2>4. CASE k \in raised
    <3>1. PICK y \in RowsOf(k) : row[y] = table[k] BY <1>12, <2>1
    <3>2. row[k] \in Levels /\ table[k] \in Levels /\ ~(table[k] <= row[k])
      BY <1>1, <1>4, <1>7, <2>3, <2>4, LevelOrder DEF Tables
    <3>3. y # k BY <3>1, <3>2, LevelOrder
    <3>4. row[y] # 0 BY <2>1, <2>2, <2>3, <3>1, <1>12
    <3>5. y \in DevicePairs /\ PersonOf[y] = k /\ y \in folded
      BY <1>11, <2>1, <3>3, <3>4, WriterAssumption DEF RowsOf
    <3>6. y \notin fresh BY <1>5, <2>2, <2>3, <2>4, <3>5
    <3> QED BY <2>1, <3>4, <3>6 DEF Outdated
  <2>5. CASE k \notin raised
    <3>1. k \notin fresh BY <1>5, <2>2, <2>3, <2>5
    <3>2. row[k] \in Levels /\ table[k] \in Levels /\ table[k] <= row[k] /\ row[k] <= table[k]
      BY <1>1, <1>4, <1>7, <2>3, <2>5, LevelOrder DEF Tables
    <3>3. row[k] # 0 BY <2>1, <2>2, <2>3, <3>2, <1>12, LevelOrder
    <3> QED BY <2>1, <2>3, <3>1, <3>3 DEF Outdated
  <2> QED BY <2>4, <2>5
<1>15. Advances(m, {})
  <2>1. \A k \in Pairs : Stored(row, k) <= Stored(m.row, k) BY <1>1, <1>13, StoredIsMax, LevelOrder
  <2>2. \A k \in Pairs : Stored(m.row, k) <= seen[k] BY <1>13 DEF IInv, Witnessed
  <2>3. m.cleaned => \A k \in OwnPairs : Stored(m.row, k) = 0
    BY <1>5, <1>13, WriterAssumption DEF IInv, SelfViewsStayDeleted
  <2> QED BY <1>6, <1>14, <2>1, <2>2, <2>3 DEF Advances
<1>16. Advances(Now, {}) BY StartAdvances, LevelsAdvance
<1> QED BY <1>2, <1>15, <1>16

-----------------------------------------------------------------------------
(* What taking over an outcome keeps *)

\* What an amount of records backs of a level, in the table or outside of it.
Backed(table, recs, k) == Highest({Stored(table, k)} \cup AcksFor(recs, k))

LEMMA BackedIsMax ==
    ASSUME NEW table \in Tables, NEW recs \in SUBSET Records, NEW k \in Pairs
    PROVE  /\ Backed(table, recs, k) \in Levels
           /\ Stored(table, k) <= Backed(table, recs, k)
           /\ \A r \in recs : r.pair = k => r.ack <= Backed(table, recs, k)
           /\ \/ Backed(table, recs, k) = Stored(table, k)
              \/ \E r \in recs : r.pair = k /\ r.ack = Backed(table, recs, k)
<1> DEFINE S == {Stored(table, k)} \cup AcksFor(recs, k)
<1>1. S \in SUBSET Levels /\ Stored(table, k) \in Levels
  BY StoredIsMax, AcksAreLevels, LevelOrder
<1>2. Highest(S) \in S \cup {0} /\ Highest(S) \in Levels /\ \A m \in S : m <= Highest(S)
  BY <1>1, HighestIsMax
<1>3. Highest(S) = 0 => Stored(table, k) = 0 BY <1>1, <1>2, LevelOrder
<1>4. \A r \in recs : r.pair = k => r.ack \in S BY AcksAreLevels
<1>5. \A n \in AcksFor(recs, k) : \E r \in recs : r.pair = k /\ r.ack = n BY AcksAreLevels
<1> QED BY <1>2, <1>3, <1>4, <1>5 DEF Backed

\* More records back no less.
LEMMA BackedGrows ==
    ASSUME NEW table \in Tables, NEW few \in SUBSET Records, NEW many \in SUBSET Records,
           few \subseteq many, NEW k \in Pairs
    PROVE  Backed(table, few, k) <= Backed(table, many, k)
BY BackedIsMax

LEMMA NothingVanishesIs ==
    NothingVanishes <=> \A k \in Pairs : owed[k] <= Backed(row, Pending, k)
BY DEF NothingVanishes, Backed, Pending

\* "recs" is what the outcome disposes of, "rest" what is left in memory.
Commits(recs, rest) == \E o \in Kept : Advances(o, recs) /\ Become(o, rest)

LEMMA CommitKeeps ==
    ASSUME IInv, NEW recs \in SUBSET Pending, NEW rest \in SUBSET Pending,
           Pending \subseteq recs \cup rest, Commits(recs, rest), seen' = seen
    PROVE  /\ row' \in Tables /\ fresh' \in SUBSET AllPairs /\ cleaned' \in BOOLEAN
           /\ owed' \in [Pairs -> Levels]
           /\ \A k \in Pairs : owed'[k] <= Backed(row', rest, k)
           /\ \A k \in Pairs : Stored(row', k) <= seen[k]
           /\ SelfViewsStayDeleted'
           /\ Counter!Write
<1>1. PICK o \in Kept : Advances(o, recs) /\ Become(o, rest) BY DEF Commits
<1>2. /\ row \in Tables /\ Pending \in SUBSET Records /\ rest \in SUBSET Records
      /\ \A k \in Pairs : seen[k] \in Levels /\ owed[k] \in Levels
  BY TypesOf
<1>3. row' = o.row /\ fresh' = o.fresh /\ cleaned' = o.cleaned BY <1>1 DEF Become
<1>4. row' \in Tables /\ fresh' \in SUBSET AllPairs /\ cleaned' \in BOOLEAN BY <1>3 DEF Kept
<1>5. owed' = [k \in Pairs |-> IF k \in o.lost /\ Backed(o.row, rest, k) < owed[k]
                                 THEN Backed(o.row, rest, k) ELSE owed[k]]
  BY <1>1 DEF Become, Backed
<1>6. ASSUME NEW k \in Pairs
      PROVE  owed'[k] \in Levels /\ owed'[k] <= Backed(o.row, rest, k)
  <2>1. /\ Backed(o.row, rest, k) \in Levels /\ Stored(o.row, k) \in Levels
        /\ Stored(o.row, k) <= Backed(o.row, rest, k)
        /\ \A r \in rest : r.pair = k => r.ack <= Backed(o.row, rest, k)
    BY <1>2, <1>3, <1>4, BackedIsMax, StoredIsMax
  <2>2. CASE k \in o.lost BY <1>2, <1>5, <2>1, <2>2, LevelOrder
  <2>3. CASE k \notin o.lost
    <3>1. owed'[k] = owed[k] BY <1>5, <2>3
    <3>2. owed[k] <= Backed(row, Pending, k) BY NothingVanishesIs DEF IInv
    <3>3. CASE Backed(row, Pending, k) = Stored(row, k)
      <4>1. Stored(row, k) \in Levels /\ Stored(row, k) <= Stored(o.row, k)
        BY <1>1, <1>2, <2>3, StoredIsMax DEF Advances
      <4> QED BY <1>2, <2>1, <3>1, <3>2, <3>3, <4>1, LevelOrder
    <3>4. ASSUME NEW r \in Pending, r.pair = k, r.ack = Backed(row, Pending, k)
          PROVE  owed[k] <= Backed(o.row, rest, k)
      <4>1. r.ack \in Levels BY <1>2, RecordFields
      <4>2. CASE r \in recs
        <5>1. r.ack <= Stored(o.row, k) BY <1>1, <2>3, <3>4, <4>2 DEF Advances
        <5> QED BY <1>2, <2>1, <3>2, <3>4, <4>1, <5>1, LevelOrder
      <4>3. CASE r \in rest BY <1>2, <2>1, <3>2, <3>4, <4>1, <4>3, LevelOrder
      <4> QED BY <4>2, <4>3
    <3> QED BY <1>2, <3>1, <3>3, <3>4, BackedIsMax
  <2> QED BY <2>2, <2>3
<1>7. owed' \in [Pairs -> Levels] /\ \A k \in Pairs : owed'[k] <= Backed(row', rest, k)
  BY <1>3, <1>5, <1>6
<1>8. \A k \in Pairs : Stored(row', k) <= seen[k] BY <1>1, <1>3 DEF Advances
<1>9. SelfViewsStayDeleted' BY <1>1, <1>3 DEF Advances, SelfViewsStayDeleted
<1>10. Counter!Write
  <2> DEFINE level == [k \in Pairs |-> Stored(row, k)]
             after == [k \in Pairs |-> Stored(row', k)]
  <2>1. \A k \in Pairs : Stored(row, k) \in Levels /\ Stored(row', k) \in Levels
    BY <1>2, <1>4, StoredIsMax
  <2>2. after \in [Pairs -> Counter!Levels] BY <2>1 DEF Levels, Acks, Counter!Levels
  <2>3. ASSUME NEW k \in Pairs
        PROVE  \/ level[k] <= after[k] /\ after[k] <= seen[k]
               \/ after[k] < level[k] /\ k \in Outdated(row, fresh) \cup OwnPairs
    <3>1. CASE Stored(row, k) <= Stored(row', k) BY <1>8, <3>1
    <3>2. CASE ~(Stored(row, k) <= Stored(row', k))
      <4>1. k \in OwnPairs \/ k \in Outdated(row, fresh) BY <1>1, <1>3, <3>2 DEF Advances
      <4> QED BY <2>1, <3>2, <4>1, LevelOrder
    <3> QED BY <3>1, <3>2
  <2>4. Outdated(row', fresh') \subseteq Outdated(row, fresh) BY <1>1, <1>3 DEF Advances
  <2> HIDE DEF level, after
  <2>5. /\ after \in [Pairs -> Counter!Levels]
        /\ \A k \in Pairs : \/ level[k] <= after[k] /\ after[k] <= seen[k]
                            \/ after[k] < level[k] /\ k \in Outdated(row, fresh) \cup OwnPairs
        /\ Outdated(row', fresh') \subseteq Outdated(row, fresh)
        /\ seen' = seen
    BY <2>2, <2>3, <2>4
  <2> QED BY <2>5 DEF Counter!Write, Outdated, level, after
<1> QED BY <1>4, <1>7, <1>8, <1>9, <1>10

-----------------------------------------------------------------------------
(* Every step preserves the invariant *)

\* The conjuncts that are about what is stored, owed and on its way.
Accounts == Witnessed /\ NothingVanishes /\ SelfViewsStayDeleted

LEMMA CommitAccounts ==
    ASSUME IInv, NEW recs \in SUBSET Pending, NEW rest \in SUBSET Pending,
           Pending \subseteq recs \cup rest, Commits(recs, rest), seen' = seen, Pending' = rest
    PROVE  Accounts'
<1>1. /\ \A k \in Pairs : owed'[k] <= Backed(row', rest, k)
      /\ \A k \in Pairs : Stored(row', k) <= seen[k]
      /\ SelfViewsStayDeleted'
  BY CommitKeeps
<1>2. Witnessed' BY <1>1 DEF Witnessed, IInv
<1>3. NothingVanishes' BY <1>1 DEF NothingVanishes, Backed, Pending
<1> QED BY <1>1, <1>2, <1>3 DEF Accounts

LEMMA QuietAccounts ==
    ASSUME IInv, UNCHANGED <<row, seen, owed>>, cleaned' \in {cleaned, FALSE}, Pending' = Pending
    PROVE  Accounts'
<1>1. Witnessed' BY DEF Witnessed, IInv
<1>2. NothingVanishes' BY DEF NothingVanishes, Pending, IInv
<1>3. SelfViewsStayDeleted' BY DEF SelfViewsStayDeleted, IInv
<1> QED BY <1>1, <1>2, <1>3 DEF Accounts

LEMMA NothingPending ==
    ASSUME queue = <<>>, batch = <<>>
    PROVE  Pending = {}
BY DEF Pending, Elements

\* The outcomes a write of the writer takes over.
LEMMA OutcomesCommit ==
    ASSUME IInv
    PROVE  /\ \A o \in Pruned(Now) \cup Merged(Now) \cup SelfViewsDeleted(Now) : Advances(o, {})
           /\ \A recs \in SUBSET Pending : \A o1 \in Flushed(Now, recs) :
                /\ Advances(o1, recs)
                /\ \A o2 \in Pruned(o1) : \A o3 \in SelfViewsDeleted(o2) : Advances(o3, recs)
<1>1. RowsAdvance(Now, {}) BY StartAdvances
<1>2. \A o \in Pruned(Now) \cup SelfViewsDeleted(Now) : Advances(o, {})
  BY <1>1, PruneAdvances, SelfViewsAdvance, LevelsAdvance
<1>3. ASSUME NEW recs \in SUBSET Pending, NEW o1 \in Flushed(Now, recs)
      PROVE  /\ Advances(o1, recs)
             /\ \A o2 \in Pruned(o1) : \A o3 \in SelfViewsDeleted(o2) : Advances(o3, recs)
  <2>1. RowsAdvance(o1, recs) /\ recs \in SUBSET Records BY FlushAdvances, TypesOf
  <2>2. \A o2 \in Pruned(o1) : RowsAdvance(o2, recs) BY <2>1, PruneAdvances
  <2>3. \A o2 \in Pruned(o1) : \A o3 \in SelfViewsDeleted(o2) : RowsAdvance(o3, recs)
    BY <2>1, <2>2, SelfViewsAdvance
  <2> QED BY <2>1, <2>3, LevelsAdvance
<1> QED BY <1>2, <1>3, MergeAdvances

LEMMA AdvancesKept == \A o, recs : Advances(o, recs) => o \in Kept
BY DEF Advances

\* The writes: what each disposes of, what stays, and that it is a commit.
LEMMA ConstructCommits ==
    ASSUME IInv, StartPrune \/ StartMerge \/ StartDeleteSelfViews
    PROVE  Pending = {} /\ Pending' = {} /\ Commits({}, {}) /\ seen' = seen
<1>1. queue = <<>> /\ batch = <<>> BY DEF IInv, Stages, StartPrune, StartMerge, StartDeleteSelfViews, Construct
<1>2. UNCHANGED <<queue, batch, seen>> BY DEF StartPrune, StartMerge, StartDeleteSelfViews, Construct, memVars
<1>3. Pending = {} /\ Pending' = {} BY <1>1, <1>2 DEF Pending, Elements
<1>4. PICK o \in Pruned(Now) \cup Merged(Now) \cup SelfViewsDeleted(Now) : Become(o, {})
  BY DEF StartPrune, StartMerge, StartDeleteSelfViews, Construct
<1> QED BY <1>2, <1>3, <1>4, OutcomesCommit, AdvancesKept DEF Commits

LEMMA FlushCommits ==
    ASSUME IInv, FlushTick \/ PruneTick
    PROVE  /\ Commits(Elements(batch), Elements(queue)) /\ Pending' = Elements(queue)
           /\ seen' = seen
<1>1. batch' = <<>> /\ UNCHANGED <<queue, seen>> BY DEF FlushTick, PruneTick
<1>2. Pending' = Elements(queue) BY <1>1 DEF Pending, Elements
<1>3. Elements(batch) \in SUBSET Pending BY DEF Pending
<1>4. CASE FlushTick
  <2>1. PICK o \in Flushed(Now, Elements(batch)) : Become(o, Elements(queue)) BY <1>4 DEF FlushTick
  <2> QED BY <1>1, <1>2, <1>3, <2>1, OutcomesCommit, AdvancesKept DEF Commits
<1>5. CASE PruneTick
  <2>1. PICK o1 \in Flushed(Now, Elements(batch)) :
               \E o2 \in Pruned(o1) : \E o3 \in SelfViewsDeleted(o2) : Become(o3, Elements(queue))
    BY <1>5 DEF PruneTick
  <2>2. PICK o2 \in Pruned(o1) : \E o3 \in SelfViewsDeleted(o2) : Become(o3, Elements(queue))
    BY <2>1
  <2>3. PICK o3 \in SelfViewsDeleted(o2) : Become(o3, Elements(queue)) BY <2>2
  <2> QED BY <1>1, <1>2, <1>3, <2>3, OutcomesCommit, AdvancesKept DEF Commits
<1> QED BY <1>4, <1>5

LEMMA DrainCommits ==
    ASSUME IInv, DrainEnd
    PROVE  Commits(Pending, {}) /\ Pending' = {} /\ seen' = seen
<1>1. queue = <<>> /\ batch' = <<>> /\ UNCHANGED <<queue, seen>> BY DEF DrainEnd
<1>2. Pending' = {} /\ Pending = Elements(batch) BY <1>1 DEF Pending, Elements
<1>3. PICK o \in Flushed(Now, Elements(batch)) : Become(o, {}) BY DEF DrainEnd
<1> QED BY <1>1, <1>2, <1>3, OutcomesCommit, AdvancesKept DEF Commits

\* The process dies: all that was pending is released.
LEMMA CrashCommits ==
    ASSUME IInv, Crash
    PROVE  Commits(Pending, {}) /\ Pending' = {} /\ seen' = seen
<1> DEFINE o == [Now EXCEPT !.cleaned = FALSE, !.lost = Pairs]
<1>1. queue' = <<>> /\ batch' = <<>> /\ seen' = seen /\ Become(o, {}) BY DEF Crash, ForgetMemory
<1>2. Pending' = {} BY <1>1 DEF Pending, Elements
<1>3. Advances(Now, {}) BY StartAdvances, LevelsAdvance
<1>4. Now.row = row /\ Now.fresh = fresh BY DEF Now
<1>5. /\ o.row = row /\ o.fresh = fresh /\ o.cleaned = FALSE /\ o.lost = Pairs /\ o \in Kept
  BY TypesOf DEF Now, Kept
<1> HIDE DEF o
<1>6. \A r \in Pending : r.pair \in o.lost BY <1>5, TypesOf, RecordFields
<1>7. \A k \in Pairs : Stored(row, k) <= Stored(o.row, k)
  BY <1>5, TypesOf, StoredIsMax, LevelOrder
<1>8. Advances(o, Pending) BY <1>3, <1>4, <1>5, <1>6, <1>7 DEF Advances
<1> QED BY <1>1, <1>2, <1>5, <1>8 DEF Commits

LEMMA WriteKeeps ==
    ASSUME IInv,
           StartPrune \/ StartMerge \/ StartDeleteSelfViews \/ FlushTick \/ PruneTick \/ DrainEnd \/ Crash
    PROVE  IInv' /\ Counter!Write
<1> USE DEF TypeInv, TypeOK, Receipts, memVars
<1>1. \E recs, rest \in SUBSET Pending :
        Pending \subseteq recs \cup rest /\ Commits(recs, rest) /\ Pending' = rest /\ seen' = seen
  <2>1. Elements(batch) \in SUBSET Pending /\ Elements(queue) \in SUBSET Pending
        /\ Pending \subseteq Elements(batch) \cup Elements(queue)
    BY DEF Pending
  <2>2. {} \in SUBSET Pending /\ Pending \in SUBSET Pending OBVIOUS
  <2>3. CASE StartPrune \/ StartMerge \/ StartDeleteSelfViews BY <2>2, <2>3, ConstructCommits
  <2>4. CASE FlushTick \/ PruneTick BY <2>1, <2>4, FlushCommits
  <2>5. CASE DrainEnd BY <2>2, <2>5, DrainCommits
  <2>6. CASE Crash BY <2>2, <2>6, CrashCommits
  <2> QED BY <2>3, <2>4, <2>5, <2>6
<1>2. /\ Counter!Write /\ Accounts' /\ owed' \in [Pairs -> Levels]
      /\ row' \in [AllPairs -> Levels] /\ fresh' \subseteq AllPairs /\ cleaned' \in BOOLEAN
  BY <1>1, CommitKeeps, CommitAccounts DEF Tables
<1>3. TypeInv'
  <2>1. batch' \in {batch, <<>>} /\ queue' \in {queue, <<>>} /\ seen' = seen
    BY DEF StartPrune, StartMerge, StartDeleteSelfViews, Construct, FlushTick, PruneTick,
           DrainEnd, Crash, ForgetMemory
  <2>2. <<>> \in Seq(Records) /\ Len(<<>>) = 0 OBVIOUS
  <2>3. /\ batch' \in Seq(Records) /\ Len(batch') < FlushSize
        /\ queue' \in Seq(Records) /\ Len(queue') <= QueueCap
    <3>1. CASE batch' = <<>> /\ queue' = <<>> BY <2>2, <3>1, WriterAssumption
    <3>2. CASE batch' = batch /\ queue' = <<>> BY <2>2, <3>2, WriterAssumption DEF IInv
    <3>3. CASE batch' = <<>> /\ queue' = queue BY <2>2, <3>3, WriterAssumption DEF IInv
    <3>4. CASE batch' = batch /\ queue' = queue BY <3>4 DEF IInv
    <3> QED BY <2>1, <3>1, <3>2, <3>3, <3>4
  <2>4. /\ writer' \in {"off", "prune", "merge", "self", "run", "drain", "done"}
        /\ stop' \in {"idle", "waiting", "closed"}
        /\ dbOpen' \in BOOLEAN /\ stopping' \in BOOLEAN /\ paired' \in BOOLEAN
    BY DEF IInv, StartPrune, StartMerge, StartDeleteSelfViews, Construct, FlushTick, PruneTick,
           DrainEnd, Crash, ForgetMemory
  <2>5. prod' = prod \/ prod' = [p \in Producers |-> IdleProducer]
    BY DEF StartPrune, StartMerge, StartDeleteSelfViews, Construct, FlushTick, PruneTick,
           DrainEnd, Crash, ForgetMemory
  <2>6. prod' \in [Producers -> [todo : SUBSET Pairs, ack : Levels]] /\ Receipts'
    BY <2>5, LevelOrder DEF IdleProducer, IInv
  <2> QED BY <1>2, <2>1, <2>3, <2>4, <2>6 DEF IInv
<1>4. Stages'
  <2>1. CASE StartPrune \/ StartMerge \/ StartDeleteSelfViews
    BY <2>1 DEF IInv, Stages, StartPrune, StartMerge, StartDeleteSelfViews, Construct
  <2>2. CASE FlushTick \/ PruneTick BY <2>2 DEF IInv, Stages, FlushTick, PruneTick
  <2>3. CASE DrainEnd
    <3>1. \A k \in Pairs : owed'[k] <= Backed(row', {}, k)
      BY <2>3, DrainCommits, CommitKeeps
    <3>2. \A k \in Pairs : Backed(row', {}, k) = Stored(row', k)
      BY <1>2, BackedIsMax DEF Tables
    <3> QED BY <2>3, <3>1, <3>2 DEF IInv, Stages, DrainEnd
  <2>4. CASE Crash BY <2>4 DEF Stages, Crash, ForgetMemory, IdleProducer
  <2> QED BY <2>1, <2>2, <2>3, <2>4
<1> QED BY <1>2, <1>3, <1>4 DEF Accounts, IInv

LEMMA TakeKeeps ==
    ASSUME IInv, Take
    PROVE  IInv' /\ (Counter!Write \/ UNCHANGED <<row, fresh, seen>>)
<1> USE DEF TypeInv, TypeOK, Receipts
<1> DEFINE full == Append(batch, Head(queue))
<1>1. /\ writer \in {"run", "drain"} /\ queue # <<>> /\ queue' = Tail(queue)
      /\ UNCHANGED <<seen, prod, stopping, writer, stop, dbOpen, paired>>
      /\ IF Len(full) >= FlushSize
           THEN /\ \E o \in Flushed(Now, Elements(full)) : Become(o, Elements(queue'))
                /\ batch' = <<>>
           ELSE batch' = full /\ UNCHANGED <<row, fresh, owed, cleaned>>
  BY DEF Take
<1>2. /\ queue' \in Seq(Records) /\ Len(queue') <= QueueCap
      /\ full \in Seq(Records) /\ Len(full) \in Nat
  BY <1>1, WriterAssumption DEF IInv
<1>3. /\ Elements(full) = Elements(batch) \cup {Head(queue)}
      /\ Elements(queue) = {Head(queue)} \cup Elements(queue')
  BY <1>1, ElementsOf DEF IInv
<1>4. /\ Elements(full) \in SUBSET Pending /\ Elements(queue') \in SUBSET Pending
      /\ Pending = Elements(full) \cup Elements(queue')
  BY <1>3 DEF Pending
<1>5. Stages' \/ writer' = "done" \/ writer' = "off" BY <1>1 DEF Stages, IInv
<1>6. Receipts' BY <1>1 DEF IInv
<1> HIDE DEF full
<1>7. CASE Len(full) >= FlushSize
  <2>1. PICK o \in Flushed(Now, Elements(full)) : Become(o, Elements(queue')) BY <1>1, <1>7
  <2>2. Commits(Elements(full), Elements(queue'))
    BY <1>4, <2>1, OutcomesCommit, AdvancesKept DEF Commits
  <2>3. batch' = <<>> /\ Pending' = Elements(queue') BY <1>1, <1>7 DEF Pending, Elements
  <2>4. /\ Counter!Write /\ Accounts' /\ owed' \in [Pairs -> Levels]
        /\ row' \in [AllPairs -> Levels] /\ fresh' \subseteq AllPairs /\ cleaned' \in BOOLEAN
    BY <1>1, <1>4, <2>2, <2>3, CommitKeeps, CommitAccounts DEF Tables
  <2>5. batch' \in Seq(Records) /\ Len(batch') < FlushSize BY <2>3, WriterAssumption
  <2>6. TypeOK' BY <1>1, <1>2, <2>4, <2>5 DEF IInv
  <2> QED BY <1>1, <1>5, <1>6, <2>4, <2>6 DEF Accounts, IInv
<1>8. CASE ~(Len(full) >= FlushSize)
  <2>1. batch' = full /\ UNCHANGED <<row, fresh, owed, cleaned>> BY <1>1, <1>8
  <2>2. Pending' = Pending BY <1>4, <2>1 DEF Pending
  <2>3. Accounts' BY <1>1, <2>1, <2>2, QuietAccounts
  <2>4. Len(full) < FlushSize BY <1>2, <1>8, WriterAssumption
  <2>5. TypeOK' BY <1>1, <1>2, <2>1, <2>4 DEF IInv
  <2> QED BY <1>1, <1>5, <1>6, <2>1, <2>3, <2>5 DEF Accounts, IInv
<1> QED BY <1>7, <1>8

LEMMA EnqueueKeeps ==
    ASSUME IInv, NEW p \in Producers, NEW k \in Pairs, Enqueue(p, k)
    PROVE  IInv' /\ Counter!Observe
<1> USE DEF TypeInv, TypeOK
<1> DEFINE rec == [pair |-> k, ack |-> prod[p].ack]
<1>1. /\ k \in prod[p].todo /\ Len(queue) < QueueCap /\ queue' = Append(queue, rec)
      /\ seen' = [seen EXCEPT ![k] = Highest({seen[k], prod[p].ack})]
      /\ owed' = IF stopping THEN owed ELSE [owed EXCEPT ![k] = Highest({owed[k], prod[p].ack})]
      /\ UNCHANGED <<row, fresh, batch, ctlVars>>
  BY DEF Enqueue
<1>2. prod[p].ack \in Acks /\ prod[p].ack \in Levels /\ k \notin OwnPairs
  BY <1>1, LevelOrder DEF IInv, Receipts
<1>3. rec \in Records /\ rec.pair = k /\ rec.ack = prod[p].ack BY <1>2 DEF Records
<1> HIDE DEF rec
<1>4. /\ queue' \in Seq(Records) /\ Len(queue') <= QueueCap
      /\ Elements(queue') = Elements(queue) \cup {rec}
  BY <1>1, <1>3, ElementsOf, WriterAssumption DEF IInv
<1>5. Pending' = Pending \cup {rec} /\ Pending \in SUBSET Records /\ Pending' \in SUBSET Records
  BY <1>1, <1>3, <1>4, TypesOf DEF Pending
<1>6. ASSUME NEW n \in Levels
      PROVE  /\ Highest({n, prod[p].ack}) \in {n, prod[p].ack}
             /\ n <= Highest({n, prod[p].ack}) /\ prod[p].ack <= Highest({n, prod[p].ack})
  <2>1. {n, prod[p].ack} \in SUBSET Levels BY <1>2
  <2>2. /\ Highest({n, prod[p].ack}) \in {n, prod[p].ack, 0} /\ Highest({n, prod[p].ack}) \in Levels
        /\ n <= Highest({n, prod[p].ack}) /\ prod[p].ack <= Highest({n, prod[p].ack})
    BY <2>1, HighestIsMax
  <2> QED BY <1>2, <2>2, LevelOrder
<1>7. seen' \in [Pairs -> Levels] /\ owed' \in [Pairs -> Levels]
  BY <1>1, <1>2, <1>6 DEF IInv
<1>8. \A j \in Pairs : seen[j] <= seen'[j] /\ prod[p].ack <= seen'[k]
  BY <1>1, <1>6, LevelOrder DEF IInv
<1>9. prod' \in [Producers -> [todo : SUBSET Pairs, ack : Levels]] /\ Receipts'
  <2> DEFINE left == prod[p].todo \ {k}
  <2>1. /\ prod[p].todo \subseteq Pairs /\ prod[p].todo \cap OwnPairs = {}
        /\ prod' = [prod EXCEPT ![p] = IF left = {} THEN IdleProducer
                                      ELSE [todo |-> left, ack |-> prod[p].ack]]
    BY DEF Enqueue, IInv, Receipts
  <2>2. CASE left = {}
    <3>1. prod' = [prod EXCEPT ![p] = IdleProducer] BY <2>1, <2>2
    <3> QED BY <3>1, LevelOrder DEF IInv, Receipts, IdleProducer
  <2>3. CASE left # {}
    <3>1. prod' = [prod EXCEPT ![p] = [todo |-> left, ack |-> prod[p].ack]] BY <2>1, <2>3
    <3> QED BY <1>2, <2>1, <3>1 DEF IInv, Receipts
  <2> QED BY <2>2, <2>3
<1>10. TypeInv' BY <1>1, <1>4, <1>7, <1>9 DEF ctlVars, IInv
<1>11. Stages'
  <2>1. writer \notin {"off", "prune", "merge", "self"} BY <1>1 DEF IInv, Stages
  <2> QED BY <1>1, <2>1 DEF IInv, Stages, ctlVars
<1>12. Witnessed'
  <2>1. ASSUME NEW j \in Pairs PROVE Stored(row', j) <= seen'[j]
    <3>1. Stored(row, j) \in Levels /\ seen[j] \in Levels /\ seen'[j] \in Levels
      BY <1>7, StoredIsMax, TypesOf
    <3> QED BY <1>1, <1>8, <3>1, LevelOrder DEF IInv, Witnessed
  <2>2. ASSUME NEW r \in Pending PROVE r.ack <= seen'[r.pair] /\ r.pair \notin OwnPairs
    <3>1. r.ack \in Levels /\ r.pair \in Pairs /\ seen[r.pair] \in Levels /\ seen'[r.pair] \in Levels
      BY <1>5, <1>7, RecordFields, TypesOf
    <3> QED BY <1>8, <3>1, LevelOrder DEF IInv, Witnessed
  <2>3. rec.ack <= seen'[rec.pair] /\ rec.pair \notin OwnPairs BY <1>2, <1>3, <1>8
  <2> QED BY <1>5, <2>1, <2>2, <2>3 DEF Witnessed
<1>13. NothingVanishes'
  <2>1. ASSUME NEW j \in Pairs PROVE owed'[j] <= Backed(row, Pending', j)
    <3>1. /\ Backed(row, Pending, j) <= Backed(row, Pending', j)
          /\ Backed(row, Pending, j) \in Levels /\ Backed(row, Pending', j) \in Levels
          /\ owed[j] \in Levels /\ row \in Tables
      BY <1>5, BackedGrows, BackedIsMax, TypesOf
    <3>2. owed[j] <= Backed(row, Pending', j)
      BY <3>1, NothingVanishesIs, LevelOrder DEF IInv
    <3>3. CASE owed'[j] = owed[j] BY <3>2, <3>3
    <3>4. CASE owed'[j] # owed[j]
      <4>1. j = k /\ owed'[j] = Highest({owed[k], prod[p].ack}) BY <1>1, <3>4 DEF IInv
      <4>2. rec.ack <= Backed(row, Pending', j) BY <1>3, <1>5, <3>1, <4>1, BackedIsMax
      <4> QED BY <1>3, <1>6, <3>1, <3>2, <4>1, <4>2
    <3> QED BY <3>3, <3>4
  <2> QED BY <1>1, <2>1 DEF NothingVanishes, Backed, Pending
<1>14. SelfViewsStayDeleted' BY <1>1 DEF SelfViewsStayDeleted, ctlVars, IInv
<1>15. Counter!Observe
  BY <1>1, <1>7, <1>8 DEF Counter!Observe, Counter!Levels, Levels, Acks
<1> QED BY <1>10, <1>11, <1>12, <1>13, <1>14, <1>15 DEF IInv

LEMMA QuietKeeps ==
    ASSUME IInv,
           \/ Build \/ Pair \/ SeeStopping \/ StopWriter \/ CloseStore \/ Restart
           \/ \E x \in AllPairs : Expire(x)
           \/ \E p \in Producers :
                \/ GiveUp(p)
                \/ \E todo \in SUBSET (Pairs \ OwnPairs) \ {{}}, ack \in Acks : Arrive(p, todo, ack)
    PROVE  IInv' /\ UNCHANGED <<row, seen>> /\ fresh' \subseteq fresh
<1> USE DEF TypeInv, TypeOK, Receipts, memVars, ctlVars, dataVars
<1>1. CASE Build \/ Pair \/ SeeStopping \/ StopWriter \/ CloseStore
  <2>1. /\ UNCHANGED <<row, fresh, seen, owed, cleaned, queue, batch, prod>>
        /\ Pending' = Pending
    BY <1>1 DEF Build, Pair, SeeStopping, StopWriter, CloseStore, Pending
  <2>2. Accounts' BY <2>1, QuietAccounts
  <2>3. TypeInv'
    BY <1>1, <2>1 DEF IInv, Build, Pair, SeeStopping, StopWriter, CloseStore
  <2>4. Stages'
    BY <1>1, <2>1 DEF IInv, Stages, Build, Pair, SeeStopping, StopWriter, CloseStore
  <2> QED BY <2>1, <2>2, <2>3, <2>4 DEF IInv, Accounts
<1>2. CASE \E x \in AllPairs : Expire(x)
  <2>1. /\ UNCHANGED <<row, seen, owed, memVars, ctlVars>> /\ fresh' \subseteq fresh
        /\ Pending' = Pending
    BY <1>2 DEF Expire, Pending
  <2>2. Accounts' BY <2>1, QuietAccounts
  <2>3. TypeInv' BY <2>1 DEF IInv
  <2>4. Stages' BY <2>1 DEF IInv, Stages
  <2> QED BY <2>1, <2>2, <2>3, <2>4 DEF IInv, Accounts
<1>3. ASSUME NEW p \in Producers,
             \/ GiveUp(p)
             \/ \E todo \in SUBSET (Pairs \ OwnPairs) \ {{}}, ack \in Acks : Arrive(p, todo, ack)
      PROVE  IInv' /\ UNCHANGED <<row, seen>> /\ fresh' \subseteq fresh
  <2>1. /\ UNCHANGED <<dataVars, queue, batch, ctlVars>> /\ Pending' = Pending
        /\ prod' = [prod EXCEPT ![p] = prod'[p]]
        /\ prod'[p] \in [todo : SUBSET (Pairs \ OwnPairs), ack : Levels]
        /\ prod'[p].todo # {} => prod'[p].ack \in Acks
        /\ writer \in {"off", "prune", "merge", "self"} => prod'[p].todo = {}
    <3>1. CASE GiveUp(p) BY <3>1, LevelOrder DEF GiveUp, Pending, IdleProducer, IInv
    <3>2. ASSUME NEW todo \in SUBSET (Pairs \ OwnPairs) \ {{}}, NEW ack \in Acks, Arrive(p, todo, ack)
          PROVE  /\ UNCHANGED <<dataVars, queue, batch, ctlVars>> /\ Pending' = Pending
                 /\ prod' = [prod EXCEPT ![p] = prod'[p]]
                 /\ prod'[p] \in [todo : SUBSET (Pairs \ OwnPairs), ack : Levels]
                 /\ prod'[p].todo # {} => prod'[p].ack \in Acks
                 /\ writer \in {"off", "prune", "merge", "self"} => prod'[p].todo = {}
      BY <3>2, LevelOrder DEF Arrive, Pending, IInv
    <3> QED BY <1>3, <3>1, <3>2
  <2>2. Accounts' BY <2>1, QuietAccounts
  <2>3. TypeInv' BY <2>1 DEF IInv
  <2>4. Stages' BY <2>1 DEF IInv, Stages
  <2> QED BY <2>1, <2>2, <2>3, <2>4 DEF IInv, Accounts
<1>4. CASE Restart
  <2>1. /\ UNCHANGED <<dataVars, prod, dbOpen, paired>> /\ queue' = <<>> /\ batch' = <<>>
        /\ writer' = "off" /\ stop' = "idle" /\ stopping' = FALSE /\ cleaned' = FALSE
        /\ stop = "closed" /\ \A p \in Producers : prod[p].todo = {}
    BY <1>4 DEF Restart
  <2>2. Pending' = {} BY <2>1 DEF Pending, Elements
  <2>3. \A k \in Pairs : owed[k] <= Stored(row, k) BY <2>1 DEF IInv, Stages
  <2>4. \A k \in Pairs : owed'[k] <= Backed(row', Pending', k)
    <3>1. ASSUME NEW k \in Pairs PROVE owed[k] <= Backed(row, {}, k)
      <4>1. Backed(row, {}, k) = Stored(row, k) BY BackedIsMax, TypesOf
      <4> QED BY <2>3, <4>1
    <3> QED BY <2>1, <2>2, <3>1
  <2>5. NothingVanishes' BY <2>4 DEF NothingVanishes, Backed, Pending
  <2>6. Witnessed' BY <2>1, <2>2 DEF Witnessed, IInv
  <2>7. SelfViewsStayDeleted' BY <2>1 DEF SelfViewsStayDeleted
  <2>8. TypeInv' /\ Stages'
    <3>1. <<>> \in Seq(Records) /\ Len(<<>>) = 0 OBVIOUS
    <3>2. /\ queue' \in Seq(Records) /\ Len(queue') <= QueueCap
          /\ batch' \in Seq(Records) /\ Len(batch') < FlushSize
      BY <2>1, <3>1, WriterAssumption
    <3>3. TypeOK' BY <2>1, <3>2 DEF IInv
    <3>4. Receipts' BY <2>1 DEF IInv
    <3> QED BY <2>1, <3>3, <3>4 DEF IInv, Stages
  <2> QED BY <2>1, <2>5, <2>6, <2>7, <2>8 DEF IInv
<1> QED BY <1>1, <1>2, <1>3, <1>4

\* A step that touches no row leaves the counters alone, but for their age.
LEMMA QuietIsExpiry ==
    ASSUME UNCHANGED <<row, seen>>, fresh' \in SUBSET fresh
    PROVE  Counter!Expire
<1>1. Outdated(row, fresh) \in SUBSET Outdated(row', fresh') BY DEF Outdated
<1>2. Outdated(row', fresh') \in SUBSET Pairs BY DEF Outdated
<1>3. UNCHANGED [k \in Pairs |-> Stored(row, k)] BY DEF Stored
<1> QED BY <1>1, <1>2, <1>3 DEF Counter!Expire, Outdated

LEMMA NextKeeps ==
    ASSUME IInv, Next
    PROVE  IInv' /\ (Counter!CounterNext \/ UNCHANGED <<row, fresh, seen>>)
<1>1. CASE StartStep BY <1>1, WriteKeeps, QuietKeeps, QuietIsExpiry DEF StartStep, Counter!CounterNext
<1>2. CASE WriterStep
  BY <1>2, WriteKeeps, TakeKeeps, QuietKeeps, QuietIsExpiry DEF WriterStep, Counter!CounterNext
<1>3. CASE TickStep BY <1>3, WriteKeeps DEF TickStep, Counter!CounterNext
<1>4. ASSUME NEW p \in Producers, ProducerStep(p)
      PROVE  IInv' /\ (Counter!CounterNext \/ UNCHANGED <<row, fresh, seen>>)
  <2>1. CASE GiveUp(p) BY <2>1, QuietKeeps, QuietIsExpiry DEF Counter!CounterNext
  <2>2. CASE \E k \in Pairs : Enqueue(p, k) BY <2>2, EnqueueKeeps DEF Counter!CounterNext
  <2> QED BY <1>4, <2>1, <2>2 DEF ProducerStep
<1>5. CASE Crash BY <1>5, WriteKeeps DEF Counter!CounterNext
<1>6. CASE \/ Pair \/ StopWriter \/ CloseStore \/ Restart
           \/ \E x \in AllPairs : Expire(x)
           \/ \E p \in Producers :
                \E todo \in SUBSET (Pairs \ OwnPairs) \ {{}}, ack \in Acks : Arrive(p, todo, ack)
  BY <1>6, QuietKeeps, QuietIsExpiry DEF Counter!CounterNext
<1> QED BY <1>1, <1>2, <1>3, <1>4, <1>5, <1>6 DEF Next

LEMMA InitInvariant ==
    ASSUME Init
    PROVE  IInv
<1>1. /\ row \in Tables /\ fresh \in SUBSET AllPairs /\ queue = <<>> /\ batch = <<>>
      /\ seen = [k \in Pairs |-> Stored(row, k)] /\ owed = seen /\ cleaned = FALSE
  BY DEF Init, Tables
<1>2. Pending = {} BY <1>1, NothingPending
<1>3. \A k \in Pairs : Stored(row, k) \in Levels BY <1>1, StoredIsMax
<1>4. TypeInv
  <2>1. <<>> \in Seq(Records) /\ Len(<<>>) = 0 OBVIOUS
  <2>2. /\ queue \in Seq(Records) /\ Len(queue) <= QueueCap
        /\ batch \in Seq(Records) /\ Len(batch) < FlushSize
    BY <1>1, <2>1, WriterAssumption
  <2>3. seen \in [Pairs -> Levels] /\ owed \in [Pairs -> Levels] BY <1>1, <1>3
  <2>4. IdleProducer \in [todo : SUBSET Pairs, ack : Levels] BY LevelOrder DEF IdleProducer
  <2>5. TypeOK BY <1>1, <2>2, <2>3, <2>4 DEF Init, TypeOK, Tables
  <2>6. Receipts BY DEF Init, Receipts, IdleProducer
  <2> QED BY <2>5, <2>6 DEF TypeInv
<1>5. Stages BY DEF Init, Stages, IdleProducer
<1>6. Witnessed BY <1>1, <1>2, <1>3, LevelOrder DEF Witnessed
<1>7. NothingVanishes
  <2>1. \A k \in Pairs : Stored(row, k) <= Backed(row, Pending, k) BY <1>1, <1>2, BackedIsMax
  <2> QED BY <1>1, <2>1, NothingVanishesIs
<1>8. SelfViewsStayDeleted BY <1>1 DEF SelfViewsStayDeleted
<1> QED BY <1>4, <1>5, <1>6, <1>7, <1>8 DEF IInv

LEMMA StutterKeeps ==
    ASSUME IInv, UNCHANGED vars
    PROVE  IInv'
<1> USE DEF vars, dataVars, memVars, ctlVars
<1>1. Pending' = Pending BY DEF Pending
<1>2. Accounts' BY <1>1, QuietAccounts
<1>3. TypeInv' /\ Stages' BY DEF IInv, TypeInv, TypeOK, Receipts, Stages
<1> QED BY <1>2, <1>3 DEF IInv, Accounts

LEMMA Inductive == Spec => []IInv
<1>1. IInv /\ [Next]_vars => IInv' BY NextKeeps, StutterKeeps
<1> QED BY <1>1, InitInvariant, PTL DEF Spec

-----------------------------------------------------------------------------

\* The variables always have the types TypeOK gives them.  In particular the queue never
\* holds more than its capacity and the batch is committed before it is full.
THEOREM TypeCorrect == Spec => []TypeOK
<1>1. IInv => TypeOK BY DEF IInv, TypeInv
<1> QED BY <1>1, Inductive, PTL

\* Through ticks, full batches, the upsert, the merge, Stop, drain, crash and restart,
\* whatever is owed for a viewer is in the table, in the queue or in the batch.
THEOREM OwedIsKept == Spec => []NothingVanishes
<1>1. IInv => NothingVanishes BY DEF IInv
<1> QED BY <1>1, Inductive, PTL

\* When GoWS.Stop has closed the database, every view that was queued before Stop is
\* committed, as far as its own batch did not fail.
THEOREM StopCommits == Spec => []StoppedIsCommitted
<1>1. IInv => StoppedIsCommitted BY DEF IInv, Stages, StoppedIsCommitted
<1> QED BY <1>1, Inductive, PTL

\* Once deleteSelfViews has run, neither a late record nor a merge counts a view of ours.
THEOREM SelfViewsGone == Spec => []SelfViewsStayDeleted
<1>1. IInv => SelfViewsStayDeleted BY DEF IInv
<1> QED BY <1>1, Inductive, PTL

\* No statement of the writer runs on a closed database.
THEOREM ClosedIsUntouched == Spec => WritesWhileOpen
<1>1. ASSUME IInv, [Next]_vars PROVE row' # row => dbOpen
  <2> USE DEF IInv, Stages
  <2>1. CASE StartStep
    BY <1>1, <2>1 DEF StartStep, Build, StartPrune, StartMerge, StartDeleteSelfViews, Construct, dataVars
  <2>2. CASE WriterStep BY <1>1, <2>2 DEF WriterStep, Take, SeeStopping, DrainEnd, dataVars
  <2>3. CASE TickStep BY <1>1, <2>3 DEF TickStep, FlushTick, PruneTick
  <2>4. ASSUME NEW p \in Producers,
               \/ ProducerStep(p)
               \/ \E todo \in SUBSET (Pairs \ OwnPairs) \ {{}}, ack \in Acks : Arrive(p, todo, ack)
        PROVE  row' = row
    BY <2>4 DEF ProducerStep, GiveUp, Enqueue, Arrive, dataVars
  <2>5. CASE Crash
    <3>1. row' = Now.row BY <2>5 DEF Crash, ForgetMemory, Become, Now
    <3> QED BY <3>1 DEF Now
  <2>6. CASE \/ Pair \/ StopWriter \/ CloseStore \/ Restart
             \/ \E x \in AllPairs : Expire(x)
             \/ UNCHANGED vars
    BY <2>6 DEF Pair, StopWriter, CloseStore, Restart, Expire, vars, dataVars
  <2> QED BY <1>1, <2>1, <2>2, <2>3, <2>4, <2>5, <2>6 DEF Next
<1> QED BY <1>1, Inductive, PTL DEF Spec, WritesWhileOpen

\* The table, read pair by pair, implements the abstract counter: no level is above what a
\* receipt said, and a level falls only by age or because the viewer is the account itself.
THEOREM CounterImplemented == Spec => ImplementsCounter
<1>1. Init => Counter!CounterInit
  <2> SUFFICES ASSUME Init PROVE Counter!CounterInit
    OBVIOUS
  <2>1. row \in Tables /\ seen = [k \in Pairs |-> Stored(row, k)] BY DEF Init, Tables
  <2>2. \A k \in Pairs : Stored(row, k) \in Levels /\ Stored(row, k) <= Stored(row, k)
    BY <2>1, StoredIsMax, LevelOrder
  <2>3. [k \in Pairs |-> Stored(row, k)] \in [Pairs -> Counter!Levels]
    BY <2>2 DEF Levels, Acks, Counter!Levels
  <2>4. \A k \in Pairs : [j \in Pairs |-> Stored(row, j)][k] <= seen[k] BY <2>1, <2>2
  <2> QED BY <2>1, <2>3, <2>4 DEF Counter!CounterInit, Counter!CounterTypeOK
<1>2. ASSUME IInv, [Next]_vars PROVE [Counter!CounterNext]_(Counter!counterVars)
  <2>1. UNCHANGED <<row, fresh, seen>> => UNCHANGED Counter!counterVars
    BY DEF Counter!counterVars, Stored
  <2>2. CASE Next BY <1>2, <2>1, <2>2, NextKeeps
  <2>3. CASE UNCHANGED vars BY <2>1, <2>3 DEF vars, dataVars
  <2> QED BY <1>2, <2>2, <2>3
<1> QED BY <1>1, <1>2, Inductive, PTL DEF Spec, ImplementsCounter, Counter!CounterSpec
=============================================================================
