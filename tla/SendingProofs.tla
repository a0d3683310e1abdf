---------------------------- MODULE SendingProofs ----------------------------
(***************************************************************************)
(* What Sending promises, for any calls and requests, any participants of a  *)
(* status, any size of its batches and any number of retries.                *)
(***************************************************************************)
EXTENDS Sending, FiniteSetTheorems, TLAPS

-----------------------------------------------------------------------------
(* The contents of messages *)

\* A request as the handlers read it.
Asking(r) ==
    /\ r.op \in Ops /\ r.to \in Chats /\ r.of \in DOMAIN Stored
    /\ r.op = "message" => r.what \in Whats \ {"none"}

LEMMA RequestsAsk ==
    ASSUME NEW c \in Calls, NEW r \in Requests[c]
    PROVE  Asking(r)
BY SendingAssumption DEF Asking

LEMMA KindsAreKinds ==
    /\ Carriers \subseteq Kinds
    /\ {"conversation", "event", "pollUpdate", "reaction", "revoke", "edit",
        "newsletterEdit", "buttonsResponse", "eventUpdate", "nil"} \subseteq Kinds
    /\ MediaKinds \subseteq Carriers /\ PollKinds \subseteq Carriers
    /\ {"extendedText", "contact", "contactsArray", "location", "list"} \subseteq Carriers
    /\ {"image", "video", "document", "documentWithCaption", "ptv", "audio", "sticker"} = MediaKinds
    /\ {"poll", "pollV3"} \subseteq PollKinds
    /\ "conversation" \notin Carriers
BY DEF Carriers, Kinds, MediaKinds, PollKinds

LEMMA PlainMessages ==
    ASSUME NEW kind \in Kinds, NEW asked \in SUBSET Marks
    PROVE  /\ Plain(kind, asked) \in Messages /\ Plain(kind, asked).ctx = asked
           /\ Plain(kind, asked).kind = kind /\ Plain(kind, asked).secret = "none"
           /\ Secret(kind, asked) \in Messages /\ Secret(kind, asked).ctx = asked
           /\ Secret(kind, asked).kind = kind /\ Secret(kind, asked).secret = "new"
BY DEF Plain, Secret, Messages

\* What the handlers change of a message.
LEMMA FieldsOfMessages ==
    ASSUME NEW m \in Messages
    PROVE  m.kind \in Kinds /\ m.ctx \in SUBSET Marks
BY DEF Messages

LEMMA KindChanges ==
    ASSUME NEW m \in Messages, NEW kind \in Kinds
    PROVE  /\ [m EXCEPT !.kind = kind] \in Messages
           /\ [m EXCEPT !.kind = kind].ctx = m.ctx
           /\ [m EXCEPT !.kind = kind].secret = m.secret
BY DEF Messages

LEMMA ContextChanges ==
    ASSUME NEW m \in Messages, NEW asked \in SUBSET Marks
    PROVE  /\ [m EXCEPT !.ctx = asked] \in Messages
           /\ [m EXCEPT !.ctx = asked].ctx = asked
           /\ [m EXCEPT !.ctx = asked].secret = m.secret
BY DEF Messages

LEMMA UploadChanges ==
    ASSUME NEW m \in Messages, NEW up \in {"sealed", "plain"}
    PROVE  /\ [m EXCEPT !.upload = up] \in Messages
           /\ [m EXCEPT !.upload = up].ctx = m.ctx
           /\ [m EXCEPT !.upload = up].secret = m.secret
BY DEF Messages

LEMMA SecretDropped ==
    ASSUME NEW m \in Messages
    PROVE  /\ [m EXCEPT !.secret = "none"] \in Messages
           /\ [m EXCEPT !.secret = "none"].secret = "none"
           /\ [m EXCEPT !.secret = "none"].ctx = m.ctx
BY DEF Messages

LEMMA StoredAreMessages ==
    ASSUME NEW id \in DOMAIN Stored
    PROVE  ContentOf(Stored[id]) \in Messages /\ ContentOf(Stored[id]) # Nothing
<1>1. Stored[id] \in StoredMessages /\ Nothing \notin Messages BY ContentAssumption
<1>2. ContentOf(Stored[id]) \in Messages BY <1>1 DEF StoredMessages, ContentOf, Messages
<1> QED BY <1>1, <1>2

\* Content of a message with the context of a request.
Carries(m, asked) == m \in Messages /\ m.ctx \ {"forwarded"} = asked \ {"forwarded"} /\ m.secret # "old"

LEMMA ForwardCarries ==
    ASSUME NEW id \in DOMAIN Stored, NEW asked \in SUBSET Marks, NEW force,
           NEW m, m = BuildForwardedMessage(Stored[id], asked, force), m # Nothing
    PROVE  Carries(m, asked)
<1> DEFINE one == [ContentOf(Stored[id]) EXCEPT !.secret = "none"]
           content == Promoted(one)
           marks == IF \/ "forwarded" \in ExtractContextInfo(content) \/ ~Stored[id].mine \/ force
                    THEN asked \cup {"forwarded"} ELSE asked
<1>1. one \in Messages /\ one.secret = "none" BY StoredAreMessages, SecretDropped
<1>2. content \in Messages /\ content.secret = "none"
  <2> HIDE DEF one
  <2> QED BY <1>1, KindChanges, KindsAreKinds DEF Promoted
<1>3. marks \in SUBSET Marks /\ marks \ {"forwarded"} = asked \ {"forwarded"} BY DEF Marks
<1>4. m = [content EXCEPT !.ctx = marks] BY DEF BuildForwardedMessage, SetContextInfo
<1> HIDE DEF content, marks
<1> QED BY <1>2, <1>3, <1>4, ContextChanges DEF Carries

LEMMA TextCarries ==
    ASSUME NEW r, Asking(r), NEW asked \in SUBSET Marks, NEW m \in TextMessages(r, asked), m # Nothing
    PROVE  Carries(m, asked)
<1> DEFINE base == Plain("extendedText", {})
<1>1. base \in Messages /\ base.secret = "none" BY PlainMessages, KindsAreKinds
<1>2. UploadMedia(r.to) \in {"sealed", "plain"} BY DEF UploadMedia
<1>3. PICK b \in AddLinkPreview(base, r) : m = [b EXCEPT !.ctx = asked] BY DEF TextMessages
<1> HIDE DEF base
<1>4. b \in Messages /\ b.secret = "none"
  BY <1>1, <1>2, <1>3, UploadChanges DEF AddLinkPreview
<1> QED BY <1>3, <1>4, ContextChanges DEF Carries

LEMMA MediaCarries ==
    ASSUME NEW r, Asking(r), NEW kind \in Kinds, NEW asked \in SUBSET Marks,
           NEW m \in MediaOf(kind, r, asked), m # Nothing
    PROVE  Carries(m, asked)
<1> DEFINE base == Plain(kind, asked)
<1>1. m = [base EXCEPT !.upload = UploadMedia(r.to)] BY DEF MediaOf
<1>2. UploadMedia(r.to) \in {"sealed", "plain"} BY DEF UploadMedia
<1>3. base \in Messages /\ base.ctx = asked /\ base.secret = "none" BY PlainMessages
<1> HIDE DEF base
<1> QED BY <1>1, <1>2, <1>3, UploadChanges DEF Carries

\* Whatever a message is made of, it carries the context it is given.
LEMMA MessagesCarry ==
    ASSUME NEW r, Asking(r), r.op = "message", NEW asked \in SUBSET Marks,
           NEW m \in MessageContents(r, asked), m # Nothing
    PROVE  m \in Messages /\ (r.what # "vote" => Carries(m, asked))
<1> USE KindsAreKinds
<1>1. CASE r.what = "forward"
  <2>1. m = BuildForwardedMessage(Stored[r.of], asked, r.force)
    BY <1>1 DEF MessageContents, ForwardMessages
  <2> QED BY <2>1, ForwardCarries DEF Asking, Carries
<1>2. CASE r.what = "vote"
  BY <1>2, PlainMessages DEF MessageContents, VoteMessages
<1>3. CASE r.what = "poll"
  <2> DEFINE b == BuildPollCreationV3(r)
  <2>1. b \in Messages /\ b.secret = "new" BY PlainMessages DEF BuildPollCreationV3
  <2>2. m = [b EXCEPT !.ctx = asked, !.secret = IF r.to = "newsletter" THEN "none" ELSE @]
    BY <1>3 DEF MessageContents, PollMessage
  <2> HIDE DEF b
  <2>3. m \in Messages /\ m.ctx = asked /\ m.secret # "old" BY <2>1, <2>2 DEF Messages
  <2> QED BY <2>3 DEF Carries
<1>4. CASE r.what = "event"
  BY <1>4, PlainMessages DEF MessageContents, BuildEventCreation, Carries
<1>5. CASE r.what \in {"contact", "contacts"}
  BY <1>5, PlainMessages DEF MessageContents, BuildContactsMessage, Carries
<1>6. CASE r.what = "list"
  BY <1>6, PlainMessages DEF MessageContents, ListMessage, Carries
<1>7. CASE r.what = "location"
  BY <1>7, PlainMessages DEF MessageContents, LocationMessage, Carries
<1>8. CASE r.what = "text"
  BY <1>8, TextCarries DEF MessageContents, Carries
<1>9. CASE r.what \in {"image", "audio", "video", "ptv", "documentWithCaption", "sticker"}
  <2>1. m \in MediaOf(r.what, r, asked)
    BY <1>9 DEF MessageContents, ImageMessages, AudioMessages, VideoMessages, PtvMessages,
                DocumentMessages, StickerMessages
  <2>2. r.what \in Kinds BY <1>9
  <2> QED BY <2>1, <2>2, MediaCarries DEF Carries
<1>10. r.what \in {"forward", "vote", "poll", "event", "contact", "contacts", "list", "location",
                   "text", "image", "audio", "video", "ptv", "documentWithCaption", "sticker"}
  BY DEF Asking, Whats
<1> QED BY <1>1, <1>2, <1>3, <1>4, <1>5, <1>6, <1>7, <1>8, <1>9, <1>10

\* An edit is made of what is stored, as far as that is found.
LEMMA EditsKeep ==
    ASSUME NEW r, Asking(r), NEW lookup \in Answers, NEW m \in EditMessages(r, lookup)
    PROVE  /\ m \in Messages
           /\ lookup = "found" => m.ctx = ExtractContextInfo(ContentOf(Stored[r.of]))
<1> USE KindsAreKinds
<1> DEFINE original == IF lookup = "found" THEN ContentOf(Stored[r.of]) ELSE Nothing
           base == BuildEditedMessage(original)
<1>1. original # Nothing => original \in Messages BY StoredAreMessages DEF Asking
<1>2. lookup = "found" => original = ContentOf(Stored[r.of]) /\ original # Nothing
  BY StoredAreMessages DEF Asking
<1> HIDE DEF original
<1>3. base \in Messages /\ base.ctx = ExtractContextInfo(original)
  <2>1. original # Nothing => original.kind \in Kinds /\ original.ctx \in SUBSET Marks
    BY <1>1, FieldsOfMessages
  <2>2. {} \in SUBSET Marks /\ ExtractContextInfo(original) \in SUBSET Marks
    BY <2>1 DEF ExtractContextInfo
  <2> QED BY <2>1, <2>2, PlainMessages DEF BuildEditedMessage, ExtractContextInfo
<1>4. PICK e \in EditedMessages(original, r) : m = BuildEdit(r.to, e)
  BY DEF EditMessages, original
<1>5. UploadMedia(r.to) \in {"sealed", "plain"} BY DEF UploadMedia
<1> HIDE DEF base
<1>6. e \in Messages /\ e.ctx = base.ctx
  BY <1>3, <1>4, <1>5, UploadChanges DEF EditedMessages, AddLinkPreview, base
<1>7. m \in Messages /\ m.ctx = e.ctx BY <1>4, <1>6, KindChanges DEF BuildEdit
<1> QED BY <1>2, <1>3, <1>6, <1>7

LEMMA ContentsAreMessages ==
    ASSUME NEW r, Asking(r), r.op # "markRead", NEW asked \in SUBSET Marks, NEW lookup \in Answers,
           NEW m \in Contents(r, asked, lookup)
    PROVE  m \in Messages \cup {Nothing}
<1> USE KindsAreKinds
<1>0. {} \in SUBSET Marks OBVIOUS
<1>1. CASE r.op = "message" BY <1>1, MessagesCarry DEF Contents
<1>2. CASE r.op = "reaction" BY <1>0, <1>2, PlainMessages DEF Contents, ReactionMessages
<1>3. CASE r.op = "revoke" BY <1>0, <1>3, PlainMessages DEF Contents, RevokeMessages
<1>4. CASE r.op = "edit" BY <1>4, EditsKeep DEF Contents
<1>5. CASE r.op = "button"
  <2>1. PopulateContextInfoWithReply({}, lookup) \in SUBSET Marks
    BY DEF PopulateContextInfoWithReply, Marks
  <2> QED BY <1>5, <2>1, PlainMessages DEF Contents, ButtonReply
<1>6. CASE r.op = "cancelEvent" BY <1>0, <1>6, PlainMessages DEF Contents, CancelMessages
<1> QED BY <1>1, <1>2, <1>3, <1>4, <1>5, <1>6 DEF Asking, Ops

-----------------------------------------------------------------------------
(* Participants *)

\* In a finite set of numbers every rank is that of some number: numbering is
\* injective, and there are as many ranks as numbers.
LEMMA NthExists ==
    ASSUME NEW n \in Nat, NEW V \in SUBSET (1..n), NEW k \in 1..Cardinality(V)
    PROVE  \E i \in V : Cardinality({j \in V : j <= i}) = k
<1> DEFINE upTo(i) == {j \in V : j <= i}
           rank == [i \in V |-> Cardinality(upTo(i))]
           ranks == 1..Cardinality(V)
<1>1. IsFiniteSet(V) /\ Cardinality(V) \in Nat
  <2>1. IsFiniteSet(1..n) BY FS_Interval, n \in Int, 1 \in Int
  <2>2. IsFiniteSet(V) BY <2>1, FS_Subset
  <2> QED BY <2>2, FS_CardinalityType
<1>2. ASSUME NEW i \in V
      PROVE  IsFiniteSet(upTo(i)) /\ Cardinality(upTo(i)) \in ranks
  <2>1. upTo(i) \in SUBSET V /\ i \in upTo(i) OBVIOUS
  <2>2. IsFiniteSet(upTo(i)) /\ Cardinality(upTo(i)) <= Cardinality(V)
    <3> HIDE DEF upTo
    <3> QED BY <1>1, <2>1, FS_Subset
  <2>3. Cardinality(upTo(i)) \in Nat /\ Cardinality(upTo(i)) # 0
    <3> HIDE DEF upTo
    <3> QED BY <2>1, <2>2, FS_CardinalityType, FS_EmptySet
  <2> HIDE DEF upTo
  <2> QED BY <1>1, <2>2, <2>3
<1>3. ASSUME NEW i \in V, NEW j \in V, i < j
      PROVE  Cardinality(upTo(i)) # Cardinality(upTo(j))
  <2>1. \A x \in V : x \in Nat OBVIOUS
  <2>2. \A x \in V : x <= i => x <= j BY <1>3, <2>1
  <2>3. j <= j /\ ~(j <= i) BY <1>3, <2>1
  <2>4. upTo(i) \in SUBSET upTo(j) BY <2>2
  <2>5. j \in upTo(j) /\ j \notin upTo(i) BY <2>3
  <2> HIDE DEF upTo
  <2> QED BY <1>2, <2>4, <2>5, FS_Subset
<1>4. rank \in [V -> ranks] BY <1>2
<1>5. \A i, j \in V : rank[i] = rank[j] => i = j
  <2>1. \A i, j \in V : i < j \/ j < i \/ i = j OBVIOUS
  <2> HIDE DEF upTo
  <2> QED BY <1>3, <2>1
<1>6. rank \in Injection(V, ranks)
  <2> HIDE DEF rank, ranks
  <2> QED BY <1>4, <1>5 DEF Injection, IsInjective
<1>7. IsFiniteSet(ranks) /\ Cardinality(ranks) = Cardinality(V) BY <1>1, FS_Interval
<1>8. rank \in Surjection(V, ranks)
  <2> HIDE DEF rank, ranks
  <2> QED BY <1>6, <1>7, FS_Injection
<1>9. \E i \in V : rank[i] = k
  <2> HIDE DEF rank
  <2> QED BY <1>8 DEF Surjection
<1> QED BY <1>9

\* The participants of a status have a phone number.
LEMMA ValidParticipantsAreUsers ==
    ASSUME NEW c \in Calls, req[c] \in Requests[c]
    PROVE  ValidParticipants(c) \in Seq(Users)
<1> DEFINE all == Recipients(c)
           valid == {i \in DOMAIN all : all[i] \in Users}
           nth(k) == CHOOSE i \in valid : Cardinality({j \in valid : j <= i}) = k
<1>1. all \in Seq(Users \cup HiddenUsers)
  <2>1. Reverse(Audience) \in Seq(Users \cup HiddenUsers) BY SendingAssumption DEF Reverse
  <2> QED BY <2>1, SendingAssumption DEF Recipients
<1>2. valid \in SUBSET (1..Len(all)) /\ Len(all) \in Nat BY <1>1
<1>3. Cardinality(valid) \in Nat
  <2> HIDE DEF valid
  <2>1. IsFiniteSet(1..Len(all)) BY <1>2, FS_Interval, Len(all) \in Int, 1 \in Int
  <2>2. IsFiniteSet(valid) BY <1>2, <2>1, FS_Subset
  <2> QED BY <2>2, FS_CardinalityType
<1>4. ASSUME NEW k \in 1..Cardinality(valid) PROVE all[nth(k)] \in Users
  <2>1. \E i \in valid : Cardinality({j \in valid : j <= i}) = k
    <3> HIDE DEF valid
    <3> QED BY <1>2, NthExists
  <2>2. nth(k) \in valid BY <2>1
  <2> QED BY <2>2
<1>5. ValidParticipants(c) = [k \in 1..Cardinality(valid) |-> all[nth(k)]]
  BY DEF ValidParticipants
<1> HIDE DEF all, valid, nth
<1> QED BY <1>3, <1>4, <1>5

-----------------------------------------------------------------------------
(* Batches *)

LEMMA LeastOfTwo ==
    ASSUME NEW a \in Int, NEW b \in Int
    PROVE  Min({a, b}) = IF a <= b THEN a ELSE b
<1> DEFINE least == IF a <= b THEN a ELSE b
<1>1. least \in {a, b} /\ \A y \in {a, b} : least <= y OBVIOUS
<1>2. \A x \in {a, b} : (\A y \in {a, b} : x <= y) => x = least OBVIOUS
<1>3. least = CHOOSE x \in {a, b} : \A y \in {a, b} : x <= y
  <2> HIDE DEF least
  <2> QED BY <1>1, <1>2
<1> QED BY <1>3 DEF Min

\* There are as many batches as it takes, and none of them is empty.
LEMMA NumberOfBatches ==
    ASSUME NEW l \in Nat
    PROVE  LET k == (l + BatchSize - 1) \div BatchSize
           IN  /\ k \in Nat
               /\ l <= k * BatchSize
               /\ \A n \in 0..(k - 1) : n * BatchSize < l
<1> DEFINE k == (l + BatchSize - 1) \div BatchSize
<1>1. BatchSize \in Nat /\ BatchSize > 0 BY SendingAssumption
<1>2. l + BatchSize - 1 \in Nat BY <1>1
<1>3. /\ k \in Nat
      /\ k * BatchSize <= l + BatchSize - 1
      /\ l + BatchSize - 1 < k * BatchSize + BatchSize
  <2>1. \A a, b \in Nat : b > 0 => /\ a \div b \in Nat
                                   /\ (a \div b) * b <= a
                                   /\ a < (a \div b) * b + b
    OBVIOUS
  <2> QED BY <1>1, <1>2, <2>1
<1> HIDE DEF k
<1>4. k * BatchSize \in Nat BY <1>1, <1>3
<1>5. l <= k * BatchSize BY <1>1, <1>3, <1>4
<1>6. ASSUME NEW n \in 0..(k - 1) PROVE n * BatchSize < l
  <2>1. (n + 1) * BatchSize <= k * BatchSize BY <1>1, <1>3
  <2>2. (n + 1) * BatchSize = n * BatchSize + BatchSize BY <1>1
  <2>3. n * BatchSize \in Nat BY <1>1
  <2> QED BY <1>1, <1>3, <1>4, <2>1, <2>2, <2>3
<1> QED BY <1>3, <1>5, <1>6 DEF k

\* The members of a part of a sequence.
MembersWithin(s, from, to) == {s[j] : j \in {k \in DOMAIN s : from < k /\ k <= to}}

LEMMA PartsOfSequences ==
    ASSUME NEW S, NEW s \in Seq(S), NEW from \in 0..Len(s), NEW to \in from..Len(s)
    PROVE  /\ SubSeq(s, from + 1, to) \in Seq(S)
           /\ Range(SubSeq(s, from + 1, to)) = MembersWithin(s, from, to)
<1> DEFINE part == SubSeq(s, from + 1, to)
<1>1. Len(s) \in Nat /\ DOMAIN s = 1..Len(s) /\ from \in Nat /\ to \in Nat OBVIOUS
<1>2. /\ part \in Seq(S) /\ Len(part) = to - from
      /\ \A i \in 1..(to - from) : part[i] = s[from + i]
  OBVIOUS
<1>3. DOMAIN part = 1..(to - from) BY <1>2
<1> HIDE DEF part
<1>4. ASSUME NEW x \in Range(part) PROVE x \in MembersWithin(s, from, to)
  <2>1. PICK i \in 1..(to - from) : x = part[i] BY <1>3 DEF Range
  <2>2. x = s[from + i] BY <1>2, <2>1
  <2>3. from + i \in DOMAIN s /\ from < from + i /\ from + i <= to BY <1>1
  <2> QED BY <2>2, <2>3 DEF MembersWithin
<1>5. ASSUME NEW x \in MembersWithin(s, from, to) PROVE x \in Range(part)
  <2>1. PICK j \in DOMAIN s : from < j /\ j <= to /\ x = s[j] BY DEF MembersWithin
  <2>2. j - from \in 1..(to - from) /\ from + (j - from) = j BY <1>1, <2>1
  <2>3. part[j - from] = x BY <1>2, <2>1, <2>2
  <2> QED BY <1>3, <2>2, <2>3 DEF Range
<1>6. Range(part) = MembersWithin(s, from, to) BY <1>4, <1>5
<1> QED BY <1>2, <1>6 DEF part

\* The members of the first batches, and what a further batch adds to them.
LEMMA BatchesOfSequences ==
    ASSUME NEW S, NEW s \in Seq(S)
    PROVE  /\ Chunk(s) \in Seq(Seq(S))
           /\ MembersWithin(s, 0, 0) = {}
           /\ \A n \in 0..(Len(Chunk(s)) - 1) :
                /\ MembersWithin(s, 0, (n + 1) * BatchSize)
                     = MembersWithin(s, 0, n * BatchSize) \cup Range(Chunk(s)[n + 1])
                /\ MembersWithin(s, 0, n * BatchSize) \cap Range(Chunk(s)[n + 1])
                     \subseteq NamedTwice(s)
           /\ MembersWithin(s, 0, Len(Chunk(s)) * BatchSize) = Range(s)
<1> DEFINE l == Len(s)
           k == (l + BatchSize - 1) \div BatchSize
           from(i) == (i - 1) * BatchSize
           to(i) == i * BatchSize
<1>1. l \in Nat /\ DOMAIN s = 1..l OBVIOUS
<1>2. BatchSize \in Nat /\ BatchSize > 0 BY SendingAssumption
<1>3. k \in Nat /\ l <= k * BatchSize /\ \A n \in 0..(k - 1) : n * BatchSize < l
  BY <1>1, NumberOfBatches
<1>4. Chunk(s) = [i \in 1..k |-> SubSeq(s, from(i) + 1, Min({to(i), l}))] BY DEF Chunk
<1> HIDE DEF k
<1>5. ASSUME NEW i \in 1..k
      PROVE  /\ from(i) \in 0..l /\ to(i) = from(i) + BatchSize
             /\ Min({to(i), l}) \in from(i)..l
             /\ \A j \in 1..l : j <= Min({to(i), l}) <=> j <= to(i)
  <2>1. i - 1 \in 0..(k - 1) BY <1>3
  <2>2. from(i) < l BY <1>3, <2>1
  <2>3. \A m \in Nat : m * BatchSize \in Nat BY <1>2
  <2>4. from(i) \in Nat BY <2>1, <2>3
  <2>5. \A m \in Int : m * BatchSize = (m - 1) * BatchSize + BatchSize BY <1>2
  <2>6. to(i) = from(i) + BatchSize BY <2>5
  <2> HIDE DEF from, to, l
  <2>7. Min({to(i), l}) = IF to(i) <= l THEN to(i) ELSE l
    BY <1>1, <1>2, <2>4, <2>6, LeastOfTwo
  <2>8. to(i) \in Nat /\ from(i) \in 0..l /\ from(i) <= to(i)
    BY <1>1, <1>2, <2>2, <2>4, <2>6
  <2> DEFINE top == Min({to(i), l})
  <2>9. top \in from(i)..l BY <1>1, <2>2, <2>7, <2>8
  <2>10. ASSUME NEW j \in 1..l PROVE j <= top <=> j <= to(i) BY <1>1, <2>7, <2>8
  <2> QED BY <2>6, <2>8, <2>9, <2>10
<1>6. ASSUME NEW i \in 1..k
      PROVE  /\ Chunk(s)[i] \in Seq(S)
             /\ Range(Chunk(s)[i]) = MembersWithin(s, from(i), to(i))
  <2> DEFINE top == Min({to(i), l})
  <2>1. Chunk(s)[i] = SubSeq(s, from(i) + 1, top) BY <1>4
  <2>2. from(i) \in 0..l /\ top \in from(i)..l BY <1>5
  <2>3. MembersWithin(s, from(i), top) = MembersWithin(s, from(i), to(i))
    <3>1. \A j \in DOMAIN s : j <= top <=> j <= to(i) BY <1>1, <1>5
    <3> HIDE DEF from, to, top
    <3> QED BY <3>1 DEF MembersWithin
  <2> HIDE DEF from, to, top
  <2> QED BY <2>1, <2>2, <2>3, PartsOfSequences DEF l
<1>7. Chunk(s) \in Seq(Seq(S)) /\ Len(Chunk(s)) = k
  <2> HIDE DEF from, to, l
  <2>1. DOMAIN Chunk(s) = 1..k /\ Chunk(s) = [i \in 1..k |-> Chunk(s)[i]] BY <1>4
  <2>2. \A i \in 1..k : Chunk(s)[i] \in Seq(S) BY <1>6
  <2> QED BY <1>3, <2>1, <2>2
<1>8. MembersWithin(s, 0, 0) = {} BY <1>1 DEF MembersWithin
<1>9. ASSUME NEW n \in 0..(k - 1)
      PROVE  /\ MembersWithin(s, 0, (n + 1) * BatchSize)
                  = MembersWithin(s, 0, n * BatchSize) \cup Range(Chunk(s)[n + 1])
             /\ MembersWithin(s, 0, n * BatchSize) \cap Range(Chunk(s)[n + 1])
                  \subseteq NamedTwice(s)
  <2> DEFINE lo == n * BatchSize
             hi == (n + 1) * BatchSize
  <2>1. n + 1 \in 1..k /\ from(n + 1) = lo /\ to(n + 1) = hi BY <1>3
  <2>2. lo \in Nat /\ hi \in Nat /\ lo <= hi BY <1>2
  <2>3. Range(Chunk(s)[n + 1]) = MembersWithin(s, lo, hi) BY <1>6, <2>1
  <2> HIDE DEF lo, hi
  <2>4. MembersWithin(s, 0, hi) = MembersWithin(s, 0, lo) \cup MembersWithin(s, lo, hi)
    BY <1>1, <2>2 DEF MembersWithin
  <2>5. MembersWithin(s, 0, lo) \cap MembersWithin(s, lo, hi) \subseteq NamedTwice(s)
    BY <1>1, <2>2 DEF MembersWithin, NamedTwice
  <2> QED BY <2>3, <2>4, <2>5 DEF lo, hi
<1>10. MembersWithin(s, 0, k * BatchSize) = Range(s)
  <2>1. \A j \in DOMAIN s : 0 < j /\ j <= k * BatchSize
    <3>1. k * BatchSize \in Nat BY <1>2, <1>3
    <3> QED BY <1>1, <1>3, <3>1
  <2> QED BY <2>1 DEF MembersWithin, Range
<1> QED BY <1>7, <1>8, <1>9, <1>10

-----------------------------------------------------------------------------
(* Types *)

LEMMA LimitsStart == ASSUME LimitInit PROVE LimitTypeOK
BY DEF LimitInit, LimitTypeOK, Stages

LEMMA SpawnedType ==
    ASSUME LimitTypeOK, NEW s, NEW stages, \A k \in DOMAIN stages : stages[k] \in Stages
    PROVE  Spawned(s, stages) \in [Sources \X LimitKinds -> Stages]
BY DEF LimitTypeOK, Spawned

LEMMA NackFetchesType ==
    ASSUME NEW code
    PROVE  \A k \in DOMAIN NackFetches(code) : NackFetches(code)[k] \in Stages
BY DEF NackFetches, Stages

LEMMA LimitsStep == ASSUME LimitTypeOK, LimitNext PROVE LimitTypeOK'
<1> DEFINE Fetches == [Sources \X LimitKinds -> Stages]
<1>1. ASSUME NEW s \in SessionSources, Connected(s) \/ TimelockPushed(s) \/ PollTick(s)
      PROVE  fetch' \in Fetches /\ recent' \subseteq LimitKinds
  <2>1. \/ fetch' = Spawned(s, [k \in LimitKinds |-> "stamp"])
        \/ fetch' = Spawned(s, [k \in {"capping"} |-> "stamp"])
        \/ fetch' = Spawned(s, [k \in {"capping"} |-> "check"])
    BY <1>1 DEF Connected, TimelockPushed, PollTick
  <2>2. fetch' \in Fetches
    <3>1. CASE fetch' = Spawned(s, [k \in LimitKinds |-> "stamp"])
      <4>1. \A k \in DOMAIN [k \in LimitKinds |-> "stamp"] :
              [j \in LimitKinds |-> "stamp"][k] \in Stages
        BY DEF Stages
      <4> QED BY <3>1, <4>1, SpawnedType
    <3>2. CASE fetch' = Spawned(s, [k \in {"capping"} |-> "stamp"])
      <4>1. \A k \in DOMAIN [k \in {"capping"} |-> "stamp"] :
              [j \in {"capping"} |-> "stamp"][k] \in Stages
        BY DEF Stages
      <4> QED BY <3>2, <4>1, SpawnedType
    <3>3. CASE fetch' = Spawned(s, [k \in {"capping"} |-> "check"])
      <4>1. \A k \in DOMAIN [k \in {"capping"} |-> "check"] :
              [j \in {"capping"} |-> "check"][k] \in Stages
        BY DEF Stages
      <4> QED BY <3>3, <4>1, SpawnedType
    <3> QED BY <2>1, <3>1, <3>2, <3>3
  <2> QED BY <1>1, <2>2 DEF Connected, TimelockPushed, PollTick, LimitTypeOK
<1>2. ASSUME NEW s \in Sources, NEW k \in LimitKinds, GoFetch(s, k)
      PROVE  fetch' \in Fetches /\ recent' \subseteq LimitKinds
  BY <1>2 DEF GoFetch, CheckThrottle, Stamp, Tell, FetchFails, Step, End, LimitTypeOK, Stages
<1>3. ASSUME NEW k \in LimitKinds, Expire(k)
      PROVE  fetch' \in Fetches /\ recent' \subseteq LimitKinds
  BY <1>3 DEF Expire, LimitTypeOK
<1> QED BY <1>1, <1>2, <1>3 DEF LimitNext, LimitTypeOK

\* The context of a request is made of marks.
LEMMA ContextType ==
    ASSUME NEW r, NEW setting, NEW reply
    PROVE  ContextInfo(r, setting, reply) \in SUBSET Marks
BY DEF ContextInfo, PopulateContextInfoDisappearingSettings, PopulateContextInfoWithReply,
       PopulateContextInfoWithMentions, Marks

\* What a call asks for is known once it is taken, and only messages are prepared.
Taken(c) ==
    /\ pc[c] # "idle" => req[c] \in Requests[c]
    /\ pc[c] = "prepare" => req[c].op = "message"
    /\ pc[c] = "build" => req[c].op # "markRead"

TypeInv == TypeOK /\ DOMAIN req = Calls /\ \A c \in Calls : Taken(c)

LEMMA InitType == ASSUME Init PROVE TypeInv
<1>1. TypeOK
  BY LimitsStart, SendingAssumption DEF Init, TypeOK, Answers
<1>2. DOMAIN req = Calls /\ \A c \in Calls : Taken(c) BY DEF Init, Taken
<1> QED BY <1>1, <1>2 DEF TypeInv

Places == {"idle", "prepare", "build", "send", "batches"} \cup Ended

LEMMA GoToType ==
    ASSUME pc \in [Calls -> Places], NEW c \in Calls, NEW l \in Places, GoTo(c, l)
    PROVE  pc' \in [Calls -> Places]
BY DEF GoTo

LEMMA CallStepType ==
    ASSUME TypeInv, NEW c \in Calls, Receive(c) \/ CallStep(c) \/ HandleEcho(c) \/ GiveUp(c)
    PROVE  TypeInv'
<1> USE DEF TypeInv, TypeOK, Taken, GoTo, Ended
<1>1. CASE Receive(c)
  <2>1. PICK r \in Requests[c] :
          /\ req' = [req EXCEPT ![c] = r]
          /\ \/ GoTo(c, "refused")
             \/ r.op = "message" /\ GoTo(c, "prepare")
             \/ r.op \in Ops \ {"message", "markRead"} /\ GoTo(c, "build")
             \/ r.op = "markRead" /\ GoTo(c, "send")
    BY <1>1 DEF Receive
  <2>2. \A d \in Calls : Taken(d)'
    BY <2>1
  <2> QED BY <1>1, <2>1, <2>2 DEF Receive, statusVars, limitVars, LimitTypeOK
<1>2. CASE Prepare(c)
  <2>1. answers' \in [Calls -> Answers \X Answers] /\ info' \in [Calls -> SUBSET Marks]
    BY <1>2, ContextType DEF Prepare, Answers
  <2>2. /\ pc[c] = "prepare"
        /\ GoTo(c, "build") \/ GoTo(c, "refused")
        /\ UNCHANGED <<req, msg, cancelled, nack, echo, statusVars, limitVars>>
    BY <1>2 DEF Prepare
  <2>3. req[c].op # "markRead" BY <2>2
  <2>4. \A d \in Calls : Taken(d)' BY <2>2, <2>3
  <2>5. TypeOK'
    <3>1. pc' \in [Calls -> Places]
      <4>1. pc \in [Calls -> Places] /\ "build" \in Places /\ "refused" \in Places BY DEF Places
      <4> HIDE DEF TypeInv, TypeOK, Taken, GoTo, Ended
      <4> QED BY <2>2, <4>1, GoToType
    <3>2. UNCHANGED <<req, msg, cancelled, nack, echo, todo, attempt, acked, failed, fetch, recent>>
      BY <2>2 DEF statusVars, limitVars
    <3> HIDE DEF GoTo, Taken
    <3> QED BY <2>1, <3>1, <3>2 DEF LimitTypeOK, Places
  <2> QED BY <2>2, <2>4, <2>5
<1>3. CASE Build(c)
  <2>1. Asking(req[c]) /\ req[c].op # "markRead" BY <1>3, RequestsAsk DEF Build
  <2>0. PICK lookup \in IF req[c].op \in {"edit", "button"} THEN Answers ELSE {answers[c][2]} :
          /\ answers' = [answers EXCEPT ![c][2] = lookup]
          /\ \E m \in Contents(req[c], info[c], lookup) :
               /\ msg' = [msg EXCEPT ![c] = m]
               /\ GoTo(c, IF m = Nothing THEN "refused" ELSE "send")
    BY <1>3 DEF Build
  <2>2. PICK m \in Contents(req[c], info[c], lookup) :
          /\ msg' = [msg EXCEPT ![c] = m]
          /\ GoTo(c, IF m = Nothing THEN "refused" ELSE "send")
    BY <2>0
  <2>3. lookup \in Answers /\ answers' \in [Calls -> Answers \X Answers]
    <3>1. lookup \in Answers BY <2>0
    <3>2. answers' = [answers EXCEPT ![c] = [answers[c] EXCEPT ![2] = lookup]] BY <2>0
    <3>3. [answers[c] EXCEPT ![2] = lookup] = <<answers[c][1], lookup>> OBVIOUS
    <3> QED BY <3>1, <3>2, <3>3
  <2>4. m \in Messages \cup {Nothing} BY <2>1, <2>2, <2>3, ContentsAreMessages
  <2> QED BY <1>3, <2>2, <2>3, <2>4 DEF Build, statusVars, limitVars, LimitTypeOK
<1>4. CASE SendAside(c) BY <1>4 DEF SendAside, statusVars, limitVars, LimitTypeOK
<1>5. CASE GiveUp(c) BY <1>5 DEF GiveUp, statusVars, limitVars, LimitTypeOK
<1>6. CASE HandleEcho(c) BY <1>6 DEF HandleEcho, statusVars, limitVars, LimitTypeOK
<1>7. CASE SendSucceeds(c)
  BY <1>7 DEF SendSucceeds, Accept, statusVars, limitVars, LimitTypeOK
<1>8. CASE SendFails(c) BY <1>8 DEF SendFails, statusVars, limitVars, LimitTypeOK
<1>9. CASE SendNacked(c)
  <2>1. fetch' \in [Sources \X LimitKinds -> Stages] /\ recent' \subseteq LimitKinds
    <3>1. PICK code \in {"475", "463"} : fetch' = Spawned(c, NackFetches(code))
      BY <1>9 DEF SendNacked
    <3> QED BY <1>9, <3>1, SpawnedType, NackFetchesType DEF SendNacked, LimitTypeOK
  <2> QED BY <1>9, <2>1 DEF SendNacked, statusVars, LimitTypeOK
<1>10. CASE StartStatus(c)
  <2>1. Chunk(ValidParticipants(c)) \in Seq(Seq(Users))
    BY <1>10, ValidParticipantsAreUsers, BatchesOfSequences DEF StartStatus
  <2>2. /\ pc[c] = "send"
        /\ \/ todo' = [todo EXCEPT ![c] = Chunk(ValidParticipants(c))] /\ GoTo(c, "batches")
           \/ todo' = todo /\ GoTo(c, "refused")
        /\ UNCHANGED <<req, answers, info, msg, cancelled, nack, echo, attempt, acked, failed,
                       fetch, recent>>
    BY <1>10 DEF StartStatus, limitVars
  <2>3. /\ pc \in [Calls -> Places] /\ todo \in [Calls -> Seq(Seq(Users))]
        /\ "batches" \in Places /\ "refused" \in Places
    BY DEF Places
  <2>4. todo' \in [Calls -> Seq(Seq(Users))] /\ pc' \in [Calls -> Places]
    <3> HIDE DEF TypeInv, TypeOK, Taken, GoTo, Ended
    <3> QED BY <2>1, <2>2, <2>3, GoToType
  <2>5. \A d \in Calls : Taken(d)' BY <2>2
  <2>6. TypeOK'
    <3> HIDE DEF GoTo, Taken
    <3> QED BY <2>2, <2>4 DEF LimitTypeOK, Places
  <2> QED BY <2>2, <2>5, <2>6
<1>11. CASE SendBatch(c)
  <2>1. todo[c] \in Seq(Seq(Users)) /\ todo[c] # <<>> BY <1>11 DEF SendBatch
  <2>2. Tail(todo[c]) \in Seq(Seq(Users)) /\ Head(todo[c]) \in Seq(Users) BY <2>1
  <2>3. FirstBatch(c) \subseteq Users BY <2>2 DEF FirstBatch, Range
  <2>4. MaxRetries \in Nat BY SendingAssumption
  <2>5. \/ BatchAcked(c) \/ BatchRetried(c) \/ BatchFailed(c)
    BY <1>11 DEF SendBatch, StatusContextDone
  <2>6. todo' \in [Calls -> Seq(Seq(Users))]
    BY <2>2, <2>5 DEF BatchAcked, BatchRetried, BatchFailed, BatchDone
  <2>7. attempt' \in [Calls -> 0..MaxRetries]
    <3>1. attempt \in [Calls -> 0..MaxRetries] OBVIOUS
    <3> HIDE DEF TypeInv, TypeOK, Taken, GoTo, Ended
    <3>2. CASE BatchAcked(c) BY <2>4, <3>1, <3>2 DEF BatchAcked, BatchDone
    <3>3. CASE BatchRetried(c) BY <2>4, <3>1, <3>3 DEF BatchRetried
    <3>4. CASE BatchFailed(c) BY <2>4, <3>1, <3>4 DEF BatchFailed, BatchDone
    <3> QED BY <2>5, <3>2, <3>3, <3>4
  <2>8. acked' \in [Calls -> SUBSET Users] /\ failed' \in [Calls -> SUBSET Users]
    <3>1. acked \in [Calls -> SUBSET Users] /\ failed \in [Calls -> SUBSET Users] OBVIOUS
    <3> HIDE DEF TypeInv, TypeOK, Taken, GoTo, Ended
    <3>2. CASE BatchAcked(c) BY <2>3, <3>1, <3>2 DEF BatchAcked
    <3>3. CASE BatchRetried(c) BY <3>1, <3>3 DEF BatchRetried
    <3>4. CASE BatchFailed(c) BY <2>3, <3>1, <3>4 DEF BatchFailed
    <3> QED BY <2>5, <3>2, <3>3, <3>4
  <2>9. UNCHANGED <<pc, req, answers, info, msg, cancelled, nack, echo, limitVars>>
    BY <1>11 DEF SendBatch, StatusContextDone
  <2>10. \A d \in Calls : Taken(d)'
    <3>1. \A d \in Calls : Taken(d) BY DEF TypeInv
    <3> HIDE DEF TypeInv, TypeOK, GoTo, Ended
    <3> QED BY <2>9, <3>1
  <2>11. TypeOK'
    <3>1. TypeOK /\ UNCHANGED <<pc, req, answers, info, msg, cancelled, nack, echo, fetch, recent>>
      BY <2>9 DEF TypeInv, limitVars
    <3> HIDE DEF TypeInv, GoTo, Taken, Ended
    <3> QED BY <2>6, <2>7, <2>8, <3>1 DEF TypeOK, LimitTypeOK
  <2> QED BY <2>9, <2>10, <2>11
<1>12. CASE Report(c)
  <2>1. /\ pc[c] = "batches"
        /\ (GoTo(c, "refused") /\ UNCHANGED echo) \/ Accept(c)
        /\ UNCHANGED <<req, answers, info, msg, cancelled, nack, statusVars, limitVars>>
    BY <1>12 DEF Report
  <2>2. \A d \in Calls : Taken(d)' BY <2>1 DEF Accept
  <2>3. pc' \in [Calls -> Places]
    <3>1. pc \in [Calls -> Places] /\ "accepted" \in Places /\ "refused" \in Places BY DEF Places
    <3> HIDE DEF TypeInv, TypeOK, Taken, GoTo, Ended
    <3> QED BY <2>1, <3>1, GoToType DEF Accept
  <2>4. echo' \in [Calls -> {"none", "due", "done"}] BY <2>1 DEF Accept
  <2>5. UNCHANGED <<req, answers, info, msg, cancelled, nack, todo, attempt, acked, failed,
                    fetch, recent>>
    BY <2>1 DEF statusVars, limitVars
  <2>6. TypeOK'
    <3> HIDE DEF GoTo, Taken
    <3> QED BY <2>3, <2>4, <2>5 DEF LimitTypeOK, Places
  <2> QED BY <2>1, <2>2, <2>6
<1> QED BY <1>1, <1>2, <1>3, <1>4, <1>5, <1>6, <1>7, <1>8, <1>9, <1>10, <1>11, <1>12 DEF CallStep

LEMMA StepType == ASSUME TypeInv, [Next]_vars PROVE TypeInv'
<1>1. CASE LimitNext /\ UNCHANGED sendVars
  BY <1>1, LimitsStep DEF TypeInv, TypeOK, Taken, sendVars, callVars, statusVars
<1>2. CASE UNCHANGED vars
  BY <1>2 DEF TypeInv, TypeOK, Taken, vars, sendVars, callVars, statusVars, limitVars, LimitTypeOK
<1> QED BY <1>1, <1>2, CallStepType DEF Next

\* Every variable stays in its type: what a call builds is a message, and what a
\* status still has to send is batches of participants with a phone number.
THEOREM TypeCorrect == Spec => []TypeOK
<1>1. Init => TypeInv BY InitType
<1>2. TypeInv /\ [Next]_vars => TypeInv' BY StepType
<1>3. TypeInv => TypeOK BY DEF TypeInv
<1> QED BY <1>1, <1>2, <1>3, PTL DEF Spec

-----------------------------------------------------------------------------
(* The context of a message *)

\* What ContextIsRequested says of the message of a call.
Contextual(c) ==
    /\ req[c].op = "message" /\ req[c].what # "vote" =>
         msg[c].ctx \ {"forwarded"} = AskedContext(c) /\ msg[c].secret # "old"
    /\ req[c].op = "edit" /\ answers[c][2] = "found" =>
         msg[c].ctx = ExtractContextInfo(ContentOf(Stored[req[c].of]))

\* Until the message is built the context is that of the request and the answers;
\* from then on the message has it.
ContextKept(c) ==
    /\ pc[c] = "build" /\ req[c].op = "message" =>
         info[c] = ContextInfo(req[c], answers[c][1], answers[c][2])
    /\ pc[c] \in {"send", "batches", "accepted"} => Contextual(c)

ContextInv == TypeInv /\ \A c \in Calls : ContextKept(c)

LEMMA AskedIsContext ==
    ASSUME NEW c, req[c].what # "vote"
    PROVE  /\ AskedContext(c) = ContextInfo(req[c], answers[c][1], answers[c][2])
           /\ "forwarded" \notin AskedContext(c)
BY DEF AskedContext, ContextInfo, PopulateContextInfoDisappearingSettings,
       PopulateContextInfoWithReply, PopulateContextInfoWithMentions

LEMMA OthersKeepContext ==
    ASSUME NEW d \in Calls, ContextKept(d),
           pc'[d] = pc[d], req'[d] = req[d], answers'[d] = answers[d], info'[d] = info[d],
           msg'[d] = msg[d]
    PROVE  ContextKept(d)'
BY DEF ContextKept, Contextual, AskedContext

\* What is done with a message once it is built does not change it.
Delivers(c) ==
    \/ SendAside(c) \/ GiveUp(c) \/ HandleEcho(c) \/ SendSucceeds(c) \/ SendFails(c)
    \/ SendNacked(c) \/ StartStatus(c) \/ SendBatch(c) \/ Report(c)

LEMMA DeliveryMoves ==
    ASSUME TypeOK, NEW c \in Calls, Delivers(c)
    PROVE  /\ UNCHANGED <<req, answers, info, msg>>
           /\ \/ UNCHANGED pc
              \/ \E l \in Places :
                   /\ pc' = [pc EXCEPT ![c] = l]
                   /\ l # "build"
                   /\ l \in {"send", "batches", "accepted"} => pc[c] \in {"send", "batches"}
<1> USE DEF GoTo, Places, Ended
<1>1. CASE SendAside(c) BY <1>1 DEF SendAside
<1>2. CASE GiveUp(c) BY <1>2 DEF GiveUp
<1>3. CASE HandleEcho(c) BY <1>3 DEF HandleEcho
<1>4. CASE SendSucceeds(c) BY <1>4 DEF SendSucceeds, Accept
<1>5. CASE SendFails(c) BY <1>5 DEF SendFails
<1>6. CASE SendNacked(c) BY <1>6 DEF SendNacked
<1>7. CASE StartStatus(c) BY <1>7 DEF StartStatus
<1>8. CASE SendBatch(c) BY <1>8 DEF SendBatch, StatusContextDone
<1>9. CASE Report(c) BY <1>9 DEF Report, Accept
<1> QED BY <1>1, <1>2, <1>3, <1>4, <1>5, <1>6, <1>7, <1>8, <1>9 DEF Delivers

LEMMA BuildKeepsContext ==
    ASSUME TypeInv, NEW c \in Calls, ContextKept(c), Build(c)
    PROVE  ContextKept(c)'
<1>0. PICK lookup \in IF req[c].op \in {"edit", "button"} THEN Answers ELSE {answers[c][2]} :
        /\ answers' = [answers EXCEPT ![c][2] = lookup]
        /\ \E m \in Contents(req[c], info[c], lookup) :
             /\ msg' = [msg EXCEPT ![c] = m]
             /\ GoTo(c, IF m = Nothing THEN "refused" ELSE "send")
  BY DEF Build
<1>1. PICK m \in Contents(req[c], info[c], lookup) :
        /\ msg' = [msg EXCEPT ![c] = m]
        /\ GoTo(c, IF m = Nothing THEN "refused" ELSE "send")
  BY <1>0
<1>2. Asking(req[c]) /\ pc[c] = "build" /\ info[c] \in SUBSET Marks
  BY RequestsAsk DEF Build, TypeInv, TypeOK, Taken
<1>3. lookup \in Answers /\ answers'[c] = <<answers[c][1], lookup>>
  BY <1>0 DEF TypeInv, TypeOK
<1>4. msg'[c] = m /\ req' = req /\ pc'[c] = IF m = Nothing THEN "refused" ELSE "send"
  BY <1>1 DEF Build, GoTo, TypeInv, TypeOK
<1>5. CASE m = Nothing BY <1>4, <1>5 DEF ContextKept
<1>6. CASE m # Nothing /\ req[c].op = "message"
  <2>1. lookup = answers[c][2] BY <1>0, <1>6
  <2>2. answers'[c] = answers[c] BY <1>3, <2>1 DEF TypeInv, TypeOK
  <2>3. AskedContext(c)' = AskedContext(c) BY <1>4, <2>2 DEF AskedContext
  <2>4. req[c].what # "vote" => Carries(m, info[c])
    BY <1>2, <1>6, MessagesCarry DEF Contents
  <2>5. req[c].what # "vote" => m.ctx \ {"forwarded"} = AskedContext(c) /\ m.secret # "old"
    BY <1>2, <1>6, <2>4, AskedIsContext DEF Carries, ContextKept
  <2> QED BY <1>4, <1>6, <2>3, <2>5 DEF ContextKept, Contextual
<1>7. CASE m # Nothing /\ req[c].op = "edit"
  <2>1. lookup = "found" => m.ctx = ExtractContextInfo(ContentOf(Stored[req[c].of]))
    BY <1>2, <1>3, <1>7, EditsKeep DEF Contents
  <2> QED BY <1>3, <1>4, <1>7, <2>1 DEF ContextKept, Contextual
<1>8. CASE m # Nothing /\ req[c].op \notin {"message", "edit"}
  BY <1>4, <1>8 DEF ContextKept, Contextual
<1> QED BY <1>5, <1>6, <1>7, <1>8

LEMMA CallStepKeepsContext ==
    ASSUME ContextInv, NEW c \in Calls,
           Receive(c) \/ CallStep(c) \/ HandleEcho(c) \/ GiveUp(c)
    PROVE  \A d \in Calls : ContextKept(d)'
<1>1. TypeInv /\ TypeOK /\ \A d \in Calls : ContextKept(d) BY DEF ContextInv, TypeInv
<1>2. CASE Receive(c)
  <2>1. \A d \in Calls \ {c} : /\ pc'[d] = pc[d] /\ req'[d] = req[d] /\ answers'[d] = answers[d]
                               /\ info'[d] = info[d] /\ msg'[d] = msg[d]
    BY <1>1, <1>2 DEF Receive, GoTo, TypeInv, TypeOK
  <2>2. ContextKept(c)'
    <3>1. PICK r \in Requests[c] :
            /\ req' = [req EXCEPT ![c] = r]
            /\ \/ GoTo(c, "refused")
               \/ r.op = "message" /\ GoTo(c, "prepare")
               \/ r.op \in Ops \ {"message", "markRead"} /\ GoTo(c, "build")
               \/ r.op = "markRead" /\ GoTo(c, "send")
      BY <1>2 DEF Receive
    <3>2. req'[c] = r BY <1>1, <3>1 DEF TypeInv
    <3>3. \/ pc'[c] \in {"refused", "prepare"}
          \/ pc'[c] = "build" /\ r.op # "message"
          \/ pc'[c] = "send" /\ r.op = "markRead"
      BY <1>1, <3>1 DEF GoTo, TypeOK
    <3> QED BY <3>2, <3>3 DEF ContextKept, Contextual
  <2> QED BY <1>1, <2>1, <2>2, OthersKeepContext
<1>3. CASE Prepare(c)
  <2>1. \A d \in Calls \ {c} : /\ pc'[d] = pc[d] /\ req'[d] = req[d] /\ answers'[d] = answers[d]
                               /\ info'[d] = info[d] /\ msg'[d] = msg[d]
    BY <1>1, <1>3 DEF Prepare, GoTo, TypeOK
  <2>2. ContextKept(c)'
    <3>1. PICK setting \in Answers, reply \in Answers :
            /\ answers' = [answers EXCEPT ![c] = <<setting, reply>>]
            /\ info' = [info EXCEPT ![c] = ContextInfo(req[c], setting, reply)]
      BY <1>3 DEF Prepare, Answers
    <3>2. /\ answers'[c][1] = setting /\ answers'[c][2] = reply
          /\ info'[c] = ContextInfo(req[c], setting, reply)
      BY <1>1, <3>1 DEF TypeOK
    <3>3. req' = req /\ pc'[c] \in {"build", "refused"}
      BY <1>1, <1>3 DEF Prepare, GoTo, TypeOK
    <3> QED BY <3>2, <3>3 DEF ContextKept
  <2> QED BY <1>1, <2>1, <2>2, OthersKeepContext
<1>4. CASE Build(c)
  <2>1. \A d \in Calls \ {c} : /\ pc'[d] = pc[d] /\ req'[d] = req[d] /\ answers'[d] = answers[d]
                               /\ info'[d] = info[d] /\ msg'[d] = msg[d]
    BY <1>1, <1>4 DEF Build, GoTo, TypeOK
  <2> QED BY <1>1, <1>4, <2>1, OthersKeepContext, BuildKeepsContext
<1>5. CASE Delivers(c)
  <2>1. UNCHANGED <<req, answers, info, msg>> BY <1>1, <1>5, DeliveryMoves
  <2>2. CASE UNCHANGED pc BY <1>1, <2>1, <2>2, OthersKeepContext
  <2>3. CASE \E l \in Places :
               /\ pc' = [pc EXCEPT ![c] = l]
               /\ l # "build"
               /\ l \in {"send", "batches", "accepted"} => pc[c] \in {"send", "batches"}
    <3>1. \A d \in Calls \ {c} : pc'[d] = pc[d] BY <1>1, <2>3 DEF TypeOK
    <3>2. /\ pc'[c] # "build"
          /\ pc'[c] \in {"send", "batches", "accepted"} => pc[c] \in {"send", "batches"}
      BY <1>1, <2>3 DEF TypeOK
    <3>3. ContextKept(c)' BY <1>1, <2>1, <3>2 DEF ContextKept, Contextual, AskedContext
    <3> QED BY <1>1, <2>1, <3>1, <3>3, OthersKeepContext
  <2> QED BY <1>1, <1>5, <2>2, <2>3, DeliveryMoves
<1> QED BY <1>2, <1>3, <1>4, <1>5 DEF CallStep, Delivers

LEMMA ContextInductive ==
    /\ Init => ContextInv
    /\ ContextInv /\ [Next]_vars => ContextInv'
    /\ ContextInv => ContextIsRequested
<1>1. Init => ContextInv
  <2>1. Init => \A c \in Calls : pc[c] = "idle" BY DEF Init
  <2> QED BY <2>1, InitType DEF ContextInv, ContextKept
<1>2. ASSUME ContextInv, [Next]_vars PROVE ContextInv'
  <2>1. TypeInv' BY <1>2, StepType DEF ContextInv
  <2>2. CASE \E c \in Calls : Receive(c) \/ CallStep(c) \/ HandleEcho(c) \/ GiveUp(c)
    BY <1>2, <2>1, <2>2, CallStepKeepsContext DEF ContextInv
  <2>3. CASE UNCHANGED sendVars
    <3>1. UNCHANGED <<pc, req, answers, info, msg>> BY <2>3 DEF sendVars, callVars
    <3> QED BY <1>2, <2>1, <3>1, OthersKeepContext DEF ContextInv
  <2> QED BY <1>2, <2>2, <2>3 DEF Next, vars
<1>3. ContextInv => ContextIsRequested
  BY DEF ContextInv, ContextKept, Contextual, ContextIsRequested
<1> QED BY <1>1, <1>2, <1>3

\* Whatever is sent and whatever goes wrong before, an accepted message has the
\* context that was asked for, as far as the storage had it, and none of the
\* delivery it forwards; an edit has that of the message it edits.
THEOREM ContextCarried == Spec => []ContextIsRequested
BY ContextInductive, PTL DEF Spec

-----------------------------------------------------------------------------
(* The delivery of a status *)

\* The batches up to the n-th are sent, and nothing else is.
SentSoFar(c, n) ==
    LET all == Chunk(ValidParticipants(c))
    IN  /\ n \in 0..Len(all)
        /\ Len(todo[c]) = Len(all) - n
        /\ \A i \in 1..Len(todo[c]) : todo[c][i] = all[n + i]
        /\ acked[c] \cup failed[c] = MembersWithin(ValidParticipants(c), 0, n * BatchSize)
        /\ acked[c] \cap failed[c] \subseteq NamedTwice(ValidParticipants(c))

NothingSent(c) == todo[c] = <<>> /\ acked[c] = {} /\ failed[c] = {}

Accounted(c) ==
    /\ acked[c] \cup failed[c] = Range(ValidParticipants(c))
    /\ acked[c] \cap failed[c] \subseteq NamedTwice(ValidParticipants(c))

StatusKept(c) ==
    /\ pc[c] \in {"idle", "prepare", "build", "send"} => NothingSent(c)
    /\ pc[c] = "batches" => \E n \in Nat : SentSoFar(c, n)
    /\ pc[c] \in Ended => acked[c] \cup failed[c] = {} \/ Accounted(c)

StatusInv == TypeInv /\ \A c \in Calls : StatusKept(c)

LEMMA OthersKeepStatus ==
    ASSUME NEW d \in Calls, StatusKept(d),
           pc'[d] = pc[d], req'[d] = req[d], todo'[d] = todo[d], acked'[d] = acked[d],
           failed'[d] = failed[d]
    PROVE  StatusKept(d)'
<1>1. ValidParticipants(d)' = ValidParticipants(d) BY DEF ValidParticipants, Recipients
<1> QED BY <1>1 DEF StatusKept, SentSoFar, NothingSent, Accounted

\* Before the batches, and beside them, no call touches what a status keeps.
LEMMA NotYetSent ==
    ASSUME TypeInv, NEW c \in Calls, StatusKept(c),
           \/ Receive(c) \/ Prepare(c) \/ Build(c) \/ SendAside(c)
           \/ SendSucceeds(c) \/ SendFails(c) \/ SendNacked(c)
    PROVE  /\ UNCHANGED statusVars
           /\ pc[c] \in {"idle", "prepare", "build", "send"} /\ NothingSent(c)
           /\ \A d \in Calls \ {c} : pc'[d] = pc[d] /\ req'[d] = req[d]
           /\ pc'[c] \in {"prepare", "build", "send"} \cup Ended
<1> USE DEF GoTo, Ended, TypeInv, TypeOK, StatusKept
<1>1. CASE Receive(c) BY <1>1 DEF Receive
<1>2. CASE Prepare(c) BY <1>2 DEF Prepare
<1>3. CASE Build(c) BY <1>3 DEF Build
<1>4. CASE SendAside(c) BY <1>4 DEF SendAside
<1>5. CASE SendSucceeds(c) BY <1>5 DEF SendSucceeds, Accept
<1>6. CASE SendFails(c) BY <1>6 DEF SendFails
<1>7. CASE SendNacked(c) BY <1>7 DEF SendNacked
<1> QED BY <1>1, <1>2, <1>3, <1>4, <1>5, <1>6, <1>7

LEMMA StartSendsNothing ==
    ASSUME TypeInv, NEW c \in Calls, StatusKept(c), StartStatus(c)
    PROVE  StatusKept(c)'
<1> DEFINE v == ValidParticipants(c)
<1>1. /\ pc[c] = "send" /\ req' = req /\ acked' = acked /\ failed' = failed
      /\ \/ todo' = [todo EXCEPT ![c] = Chunk(v)] /\ pc' = [pc EXCEPT ![c] = "batches"]
         \/ pc' = [pc EXCEPT ![c] = "refused"] /\ todo' = todo
  BY DEF StartStatus, GoTo
<1>2. ValidParticipants(c)' = v BY <1>1 DEF ValidParticipants, Recipients
<1>3. NothingSent(c) /\ v \in Seq(Users)
  BY <1>1, ValidParticipantsAreUsers DEF StatusKept, TypeInv, Taken
<1>4. CASE pc' = [pc EXCEPT ![c] = "refused"]
  <2>1. pc'[c] = "refused" BY <1>4 DEF TypeInv, TypeOK
  <2> QED BY <1>1, <1>3, <2>1 DEF StatusKept, NothingSent
<1>5. CASE todo' = [todo EXCEPT ![c] = Chunk(v)] /\ pc' = [pc EXCEPT ![c] = "batches"]
  <2>1. pc'[c] = "batches" /\ todo'[c] = Chunk(v) BY <1>5 DEF TypeInv, TypeOK
  <2>2. Chunk(v) \in Seq(Seq(Users)) /\ MembersWithin(v, 0, 0) = {}
    BY <1>3, BatchesOfSequences
  <2>3. acked'[c] = {} /\ failed'[c] = {} BY <1>1, <1>3 DEF NothingSent
  <2>4. 0 * BatchSize = 0 BY SendingAssumption
  <2> HIDE DEF v
  <2>5. SentSoFar(c, 0)' BY <1>2, <2>1, <2>2, <2>3, <2>4 DEF SentSoFar
  <2> QED BY <2>1, <2>5 DEF StatusKept, Ended
<1> QED BY <1>1, <1>4, <1>5

LEMMA BatchIsAccounted ==
    ASSUME TypeInv, NEW c \in Calls, StatusKept(c), SendBatch(c)
    PROVE  StatusKept(c)'
<1> DEFINE v == ValidParticipants(c)
           all == Chunk(v)
<1>1. /\ pc[c] = "batches" /\ todo[c] # <<>> /\ pc' = pc /\ req' = req
      /\ BatchAcked(c) \/ BatchRetried(c) \/ BatchFailed(c)
  BY DEF SendBatch, StatusContextDone
<1>2. ValidParticipants(c)' = v BY <1>1 DEF ValidParticipants, Recipients
<1>3. v \in Seq(Users) BY <1>1, ValidParticipantsAreUsers DEF TypeInv, Taken
<1>4. PICK n \in Nat : SentSoFar(c, n) BY <1>1 DEF StatusKept
<1>5. /\ c \in DOMAIN todo /\ c \in DOMAIN acked /\ c \in DOMAIN failed
      /\ todo[c] \in Seq(Seq(Users))
  BY DEF TypeInv, TypeOK
<1>6. all \in Seq(Seq(Users)) BY <1>3, BatchesOfSequences
<1>7. CASE BatchRetried(c)
  <2>1. UNCHANGED <<todo, acked, failed>> BY <1>7 DEF BatchRetried
  <2>2. SentSoFar(c, n)' BY <1>2, <1>4, <2>1 DEF SentSoFar
  <2> QED BY <1>1, <2>2 DEF StatusKept, Ended
<1>8. CASE BatchAcked(c) \/ BatchFailed(c)
  <2>1. todo'[c] = Tail(todo[c]) BY <1>5, <1>8 DEF BatchAcked, BatchFailed, BatchDone
  <2>2. \/ acked'[c] = acked[c] \cup FirstBatch(c) /\ failed'[c] = failed[c]
        \/ failed'[c] = failed[c] \cup FirstBatch(c) /\ acked'[c] = acked[c]
    BY <1>5, <1>8 DEF BatchAcked, BatchFailed
  <2>3. n \in 0..(Len(all) - 1) BY <1>1, <1>4, <1>5, <1>6 DEF SentSoFar
  <2>4. Head(todo[c]) = all[n + 1] BY <1>1, <1>4, <1>5, <2>3 DEF SentSoFar
  <2>5. /\ MembersWithin(v, 0, (n + 1) * BatchSize)
             = MembersWithin(v, 0, n * BatchSize) \cup FirstBatch(c)
        /\ MembersWithin(v, 0, n * BatchSize) \cap FirstBatch(c) \subseteq NamedTwice(v)
    BY <1>3, <2>3, <2>4, BatchesOfSequences DEF FirstBatch
  <2>6. /\ acked[c] \cup failed[c] = MembersWithin(v, 0, n * BatchSize)
        /\ acked[c] \cap failed[c] \subseteq NamedTwice(v)
    BY <1>4 DEF SentSoFar
  <2>7. /\ acked'[c] \cup failed'[c] = MembersWithin(v, 0, (n + 1) * BatchSize)
        /\ acked'[c] \cap failed'[c] \subseteq NamedTwice(v)
    <3> HIDE DEF v
    <3> QED BY <2>2, <2>5, <2>6
  <2>8. /\ Len(todo'[c]) = Len(all) - (n + 1)
        /\ \A i \in 1..Len(todo'[c]) : todo'[c][i] = all[(n + 1) + i]
    <3>1. /\ Len(todo[c]) = Len(all) - n /\ Len(all) \in Nat
          /\ \A i \in 1..Len(todo[c]) : todo[c][i] = all[n + i]
      BY <1>4, <1>6 DEF SentSoFar
    <3>2. /\ Len(Tail(todo[c])) = Len(todo[c]) - 1
          /\ \A i \in 1..(Len(todo[c]) - 1) : Tail(todo[c])[i] = todo[c][i + 1]
      BY <1>1, <1>5
    <3> HIDE DEF all
    <3>3. \A i \in 1..(Len(todo[c]) - 1) : todo[c][i + 1] = all[(n + 1) + i]
      <4>1. ASSUME NEW i \in 1..(Len(todo[c]) - 1) PROVE todo[c][i + 1] = all[(n + 1) + i]
        <5>1. i + 1 \in 1..Len(todo[c]) /\ n + (i + 1) = (n + 1) + i BY <1>5
        <5> QED BY <3>1, <5>1
      <4> QED BY <4>1
    <3> QED BY <2>1, <3>1, <3>2, <3>3
  <2>9. SentSoFar(c, n + 1)'
    <3> HIDE DEF v
    <3> QED BY <1>2, <2>3, <2>7, <2>8 DEF SentSoFar
  <2> QED BY <1>1, <2>9 DEF StatusKept, Ended
<1> QED BY <1>1, <1>7, <1>8

LEMMA ReportAccounts ==
    ASSUME TypeInv, NEW c \in Calls, StatusKept(c), Report(c)
    PROVE  StatusKept(c)'
<1> DEFINE v == ValidParticipants(c)
<1>1. /\ pc[c] = "batches" /\ todo[c] = <<>>
      /\ req' = req /\ acked' = acked /\ failed' = failed
      /\ pc'[c] \in {"refused", "accepted"}
  BY DEF Report, Accept, GoTo, statusVars, TypeInv, TypeOK
<1>2. ValidParticipants(c)' = v BY <1>1 DEF ValidParticipants, Recipients
<1>3. v \in Seq(Users) BY <1>1, ValidParticipantsAreUsers DEF TypeInv, Taken
<1>4. PICK n \in Nat : SentSoFar(c, n) BY <1>1 DEF StatusKept
<1>5. n = Len(Chunk(v))
  <2>1. Chunk(v) \in Seq(Seq(Users)) BY <1>3, BatchesOfSequences
  <2> QED BY <1>1, <1>4, <2>1 DEF SentSoFar
<1>6. MembersWithin(v, 0, n * BatchSize) = Range(v) BY <1>3, <1>5, BatchesOfSequences
<1>7. Accounted(c)' BY <1>1, <1>2, <1>4, <1>6 DEF Accounted, SentSoFar
<1> QED BY <1>1, <1>7 DEF StatusKept

LEMMA CallStepKeepsStatus ==
    ASSUME StatusInv, NEW c \in Calls,
           Receive(c) \/ CallStep(c) \/ HandleEcho(c) \/ GiveUp(c)
    PROVE  \A d \in Calls : StatusKept(d)'
<1>1. TypeInv /\ TypeOK /\ \A d \in Calls : StatusKept(d) BY DEF StatusInv, TypeInv
<1>2. CASE \/ Receive(c) \/ Prepare(c) \/ Build(c) \/ SendAside(c)
           \/ SendSucceeds(c) \/ SendFails(c) \/ SendNacked(c)
  <2>1. /\ UNCHANGED <<todo, acked, failed>> /\ NothingSent(c)
        /\ \A d \in Calls \ {c} : pc'[d] = pc[d] /\ req'[d] = req[d]
        /\ pc'[c] \in {"prepare", "build", "send"} \cup Ended
    BY <1>1, <1>2, NotYetSent DEF statusVars
  <2>2. StatusKept(c)' BY <2>1 DEF StatusKept, NothingSent, Ended
  <2> QED BY <1>1, <2>1, <2>2, OthersKeepStatus
<1>3. CASE HandleEcho(c) \/ GiveUp(c)
  <2>1. UNCHANGED <<pc, req, todo, acked, failed>> BY <1>3 DEF HandleEcho, GiveUp, statusVars
  <2> QED BY <1>1, <2>1, OthersKeepStatus
<1>4. CASE StartStatus(c) \/ SendBatch(c) \/ Report(c)
  <2>1. \A d \in Calls \ {c} : /\ pc'[d] = pc[d] /\ req'[d] = req[d] /\ todo'[d] = todo[d]
                               /\ acked'[d] = acked[d] /\ failed'[d] = failed[d]
    <3>1. CASE StartStatus(c) BY <1>1, <3>1 DEF StartStatus, GoTo, TypeOK
    <3>2. CASE SendBatch(c)
      <4>1. /\ pc' = pc /\ req' = req
            /\ BatchAcked(c) \/ BatchRetried(c) \/ BatchFailed(c)
        BY <3>2 DEF SendBatch, StatusContextDone
      <4> QED BY <1>1, <4>1 DEF BatchAcked, BatchRetried, BatchFailed, BatchDone, TypeOK
    <3>3. CASE Report(c) BY <1>1, <3>3 DEF Report, Accept, GoTo, statusVars, TypeOK
    <3> QED BY <1>4, <3>1, <3>2, <3>3
  <2>2. StatusKept(c)' BY <1>1, <1>4, StartSendsNothing, BatchIsAccounted, ReportAccounts
  <2> QED BY <1>1, <2>1, <2>2, OthersKeepStatus
<1> QED BY <1>2, <1>3, <1>4 DEF CallStep

LEMMA StatusInductive ==
    /\ Init => StatusInv
    /\ StatusInv /\ [Next]_vars => StatusInv'
    /\ StatusInv => DeliveryAccounted
<1>1. Init => StatusInv
  <2>1. Init => \A c \in Calls : pc[c] = "idle" /\ NothingSent(c) BY DEF Init, NothingSent
  <2> QED BY <2>1, InitType DEF StatusInv, StatusKept, Ended
<1>2. ASSUME StatusInv, [Next]_vars PROVE StatusInv'
  <2>1. TypeInv' BY <1>2, StepType DEF StatusInv
  <2>2. CASE \E c \in Calls : Receive(c) \/ CallStep(c) \/ HandleEcho(c) \/ GiveUp(c)
    BY <1>2, <2>1, <2>2, CallStepKeepsStatus DEF StatusInv
  <2>3. CASE UNCHANGED sendVars
    <3>1. UNCHANGED <<pc, req, todo, acked, failed>> BY <2>3 DEF sendVars, callVars, statusVars
    <3> QED BY <1>2, <2>1, <3>1, OthersKeepStatus DEF StatusInv
  <2> QED BY <1>2, <2>2, <2>3 DEF Next, vars
<1>3. StatusInv => DeliveryAccounted
  BY DEF StatusInv, StatusKept, Accounted, DeliveryAccounted
<1> QED BY <1>1, <1>2, <1>3

\* A status that ends has tried every batch: whoever has a phone number is reported
\* as reached or as failed, and as both only if the caller named them twice.
THEOREM StatusAccounted == Spec => []DeliveryAccounted
BY StatusInductive, PTL DEF Spec

-----------------------------------------------------------------------------
(* What sending promises its caller *)

\* Only what is accepted is echoed.
EchoKept == \A c \in Calls : echo[c] # "none" => pc[c] = "accepted"

PromiseInv == StatusInv /\ EchoKept

\* The abstract state of a call, and the calls whose message was handled.
Standing == [c \in Calls |-> PromiseState(c)]
Echoed == {c \in Calls : echo[c] = "done"}

StandingOf(l) == CASE l \in Ended -> l [] l = "idle" -> "idle" [] OTHER -> "taken"

LEMMA StandingMoves ==
    ASSUME TypeOK, NEW c \in Calls, NEW l, GoTo(c, l)
    PROVE  Standing' = [Standing EXCEPT ![c] = StandingOf(l)]
<1>1. \A d \in Calls : pc'[d] = IF d = c THEN l ELSE pc[d] BY DEF GoTo, TypeOK
<1>2. \A d \in Calls : PromiseState(d)' = IF d = c THEN StandingOf(l) ELSE PromiseState(d)
  BY <1>1 DEF PromiseState, StandingOf
<1> HIDE DEF StandingOf
<1> QED BY <1>2 DEF Standing

LEMMA StandingStays ==
    ASSUME TypeOK, NEW c \in Calls, NEW l, GoTo(c, l), StandingOf(l) = PromiseState(c)
    PROVE  Standing' = Standing
<1>1. Standing' = [Standing EXCEPT ![c] = StandingOf(l)] BY StandingMoves
<1>2. Standing[c] = StandingOf(l) BY DEF Standing
<1> HIDE DEF StandingOf
<1> QED BY <1>1, <1>2 DEF Standing

LEMMA StandingKept == ASSUME UNCHANGED pc PROVE Standing' = Standing
BY DEF Standing, PromiseState

LEMMA EchoedKept == ASSUME UNCHANGED echo PROVE Echoed' = Echoed
BY DEF Echoed

\* What a call does is one step of the promise, or none.
Promised(c) ==
    \/ UNCHANGED <<Standing, acked, Echoed>>
    \/ Promise!Take(c) \/ Promise!Reach(c) \/ Promise!Accept(c)
    \/ Promise!Answer(c) \/ Promise!Refuse(c) \/ Promise!Echo(c)

\* A call that nobody has acknowledged may be refused.
LEMMA RefusalAllowed ==
    ASSUME TypeOK, NEW c \in Calls, GoTo(c, "refused"), UNCHANGED <<acked, echo>>,
           pc[c] \notin Ended, acked[c] = {}
    PROVE  Promise!Refuse(c)
<1>1. StandingOf("refused") = "refused" BY DEF StandingOf, Ended
<1>2. Standing' = [Standing EXCEPT ![c] = "refused"] BY <1>1, StandingMoves
<1>3. Standing[c] \in {"idle", "taken"} BY DEF Standing, PromiseState
<1>4. Echoed' = Echoed BY EchoedKept
<1> QED BY <1>2, <1>3, <1>4 DEF Promise!Refuse, Standing, Echoed

LEMMA AcceptanceAllowed ==
    ASSUME TypeOK, EchoKept, NEW c \in Calls, Accept(c), UNCHANGED acked,
           pc[c] \in {"send", "batches"}
    PROVE  Promise!Accept(c)
<1>1. StandingOf("accepted") = "accepted" BY DEF StandingOf, Ended
<1>2. Standing' = [Standing EXCEPT ![c] = "accepted"] BY <1>1, StandingMoves DEF Accept
<1>3. Standing[c] = "taken" BY DEF Standing, PromiseState, Ended
<1>4. Echoed' = Echoed
  <2>1. echo[c] = "none" /\ echo' = [echo EXCEPT ![c] = "due"] BY DEF EchoKept, Accept
  <2>2. \A d \in Calls : echo'[d] = "done" <=> echo[d] = "done" BY <2>1 DEF TypeOK
  <2> QED BY <2>2 DEF Echoed
<1> QED BY <1>2, <1>3, <1>4 DEF Promise!Accept, Standing, Echoed

\* A step within the call.
LEMMA WithinTaken ==
    ASSUME TypeOK, NEW c \in Calls, NEW l \in {"build", "send", "batches"}, GoTo(c, l),
           pc[c] \in {"prepare", "build", "send"}, UNCHANGED <<acked, echo>>
    PROVE  UNCHANGED <<Standing, acked, Echoed>>
<1>1. StandingOf(l) = "taken" /\ PromiseState(c) = "taken" BY DEF StandingOf, PromiseState, Ended
<1> QED BY <1>1, StandingStays, EchoedKept

LEMMA StepsArePromised ==
    ASSUME PromiseInv, NEW c \in Calls,
           Receive(c) \/ CallStep(c) \/ HandleEcho(c) \/ GiveUp(c)
    PROVE  Promised(c)
<1>1. TypeInv /\ TypeOK /\ EchoKept /\ StatusKept(c) BY DEF PromiseInv, StatusInv, TypeInv
<1>2. CASE Receive(c)
  <2>1. /\ pc[c] = "idle" /\ UNCHANGED <<acked, echo>>
        /\ \E l \in {"refused", "prepare", "build", "send"} : GoTo(c, l)
    BY <1>2 DEF Receive, statusVars
  <2>2. CASE GoTo(c, "refused")
    BY <1>1, <2>1, <2>2, RefusalAllowed DEF StatusKept, NothingSent, Ended, Promised
  <2>3. CASE \E l \in {"prepare", "build", "send"} : GoTo(c, l)
    <3>1. PICK l \in {"prepare", "build", "send"} : GoTo(c, l) BY <2>3
    <3>2. StandingOf(l) = "taken" BY DEF StandingOf, Ended
    <3>3. Standing' = [Standing EXCEPT ![c] = "taken"] BY <1>1, <3>1, <3>2, StandingMoves
    <3>4. Standing[c] = "idle" BY <2>1 DEF Standing, PromiseState, Ended
    <3> QED BY <2>1, <3>3, <3>4, EchoedKept DEF Promise!Take, Standing, Echoed, Promised
  <2> QED BY <2>1, <2>2, <2>3
<1>3. CASE Prepare(c) \/ Build(c) \/ SendFails(c) \/ SendNacked(c) \/ StartStatus(c)
  <2>1. /\ pc[c] \in {"prepare", "build", "send"} /\ UNCHANGED <<acked, echo>>
        /\ \E l \in {"refused", "build", "send", "batches"} : GoTo(c, l)
    BY <1>3 DEF Prepare, Build, SendFails, SendNacked, StartStatus, statusVars
  <2>2. CASE GoTo(c, "refused")
    BY <1>1, <2>1, <2>2, RefusalAllowed DEF StatusKept, NothingSent, Ended, Promised
  <2>3. CASE \E l \in {"build", "send", "batches"} : GoTo(c, l)
    BY <1>1, <2>1, <2>3, WithinTaken DEF Promised
  <2> QED BY <2>1, <2>2, <2>3
<1>4. CASE SendAside(c)
  <2>1. /\ pc[c] = "build" /\ UNCHANGED <<acked, echo>>
        /\ GoTo(c, "answered") \/ GoTo(c, "refused")
    BY <1>4 DEF SendAside, statusVars
  <2>2. CASE GoTo(c, "refused")
    BY <1>1, <2>1, <2>2, RefusalAllowed DEF StatusKept, NothingSent, Ended, Promised
  <2>3. CASE GoTo(c, "answered")
    <3>1. StandingOf("answered") = "answered" BY DEF StandingOf, Ended
    <3>2. Standing' = [Standing EXCEPT ![c] = "answered"] BY <1>1, <2>3, <3>1, StandingMoves
    <3>3. Standing[c] = "taken" BY <2>1 DEF Standing, PromiseState, Ended
    <3> QED BY <2>1, <3>2, <3>3, EchoedKept DEF Promise!Answer, Standing, Echoed, Promised
  <2> QED BY <2>1, <2>2, <2>3
<1>5. CASE SendSucceeds(c)
  BY <1>1, <1>5, AcceptanceAllowed DEF SendSucceeds, statusVars, Promised
<1>6. CASE SendBatch(c)
  <2>1. /\ pc[c] = "batches" /\ pc' = pc /\ echo' = echo
        /\ BatchAcked(c) \/ BatchRetried(c) \/ BatchFailed(c)
        /\ todo[c] # <<>>
    BY <1>6 DEF SendBatch, StatusContextDone
  <2>2. Standing' = Standing /\ Echoed' = Echoed BY <2>1, StandingKept, EchoedKept
  <2>3. CASE BatchRetried(c) \/ BatchFailed(c)
    BY <2>2, <2>3 DEF BatchRetried, BatchFailed, Promised
  <2>4. CASE BatchAcked(c)
    <3>1. Standing[c] = "taken" BY <2>1 DEF Standing, PromiseState, Ended
    <3>2. FirstBatch(c) \in SUBSET Users
      <4>1. todo[c] \in Seq(Seq(Users)) BY <1>1 DEF TypeOK
      <4>2. Head(todo[c]) \in Seq(Users) BY <2>1, <4>1
      <4> QED BY <4>2 DEF FirstBatch, Range
    <3>3. acked' = [acked EXCEPT ![c] = acked[c] \cup FirstBatch(c)] BY <2>4 DEF BatchAcked
    <3> QED BY <2>2, <3>1, <3>2, <3>3 DEF Promise!Reach, Standing, Echoed, Promised
  <2> QED BY <2>1, <2>3, <2>4
<1>7. CASE Report(c)
  <2>1. /\ pc[c] = "batches" /\ UNCHANGED acked
        /\ \/ acked[c] = {} /\ GoTo(c, "refused") /\ UNCHANGED echo
           \/ Accept(c)
    BY <1>7 DEF Report, statusVars
  <2> QED BY <1>1, <2>1, RefusalAllowed, AcceptanceAllowed DEF Ended, Promised
<1>8. CASE GiveUp(c)
  <2>1. UNCHANGED <<pc, acked, echo>> BY <1>8 DEF GiveUp, statusVars
  <2> QED BY <2>1, StandingKept, EchoedKept DEF Promised
<1>9. CASE HandleEcho(c)
  <2>1. /\ echo[c] = "due" /\ echo' = [echo EXCEPT ![c] = "done"]
        /\ UNCHANGED <<pc, acked>>
    BY <1>9 DEF HandleEcho, statusVars
  <2>2. pc[c] = "accepted" BY <1>1, <2>1 DEF EchoKept
  <2>3. Standing[c] = "accepted" BY <2>2 DEF Standing, PromiseState, Ended
  <2>4. c \notin Echoed /\ Echoed' = Echoed \cup {c} BY <1>1, <2>1 DEF Echoed, TypeOK
  <2> QED BY <2>1, <2>3, <2>4, StandingKept DEF Promise!Echo, Standing, Echoed, Promised
<1> QED BY <1>2, <1>3, <1>4, <1>5, <1>6, <1>7, <1>8, <1>9 DEF CallStep

LEMMA EchoesKept ==
    ASSUME PromiseInv, NEW c \in Calls,
           Receive(c) \/ CallStep(c) \/ HandleEcho(c) \/ GiveUp(c)
    PROVE  EchoKept'
<1>1. TypeOK /\ EchoKept BY DEF PromiseInv, StatusInv, TypeInv
<1>2. CASE Accept(c) /\ pc[c] \in {"send", "batches"}
  BY <1>1, <1>2 DEF Accept, GoTo, EchoKept, TypeOK
<1>3. CASE HandleEcho(c)
  BY <1>1, <1>3 DEF HandleEcho, EchoKept, TypeOK
<1>4. CASE /\ pc[c] # "accepted" /\ UNCHANGED echo
           /\ UNCHANGED pc \/ \E l \in Places : GoTo(c, l)
  BY <1>1, <1>4 DEF GoTo, EchoKept, TypeOK
<1>5. \/ Accept(c) /\ pc[c] \in {"send", "batches"}
      \/ HandleEcho(c)
      \/ /\ pc[c] # "accepted" /\ UNCHANGED echo
         /\ UNCHANGED pc \/ \E l \in Places : GoTo(c, l)
  <2> USE DEF Places, Ended
  <2>1. CASE Receive(c) BY <2>1 DEF Receive
  <2>2. CASE Prepare(c) BY <2>2 DEF Prepare
  <2>3. CASE Build(c) BY <2>3 DEF Build
  <2>4. CASE SendAside(c) BY <2>4 DEF SendAside
  <2>5. CASE SendSucceeds(c) BY <2>5 DEF SendSucceeds
  <2>6. CASE SendFails(c) BY <2>6 DEF SendFails
  <2>7. CASE SendNacked(c) BY <2>7 DEF SendNacked
  <2>8. CASE StartStatus(c) BY <2>8 DEF StartStatus
  <2>9. CASE SendBatch(c) BY <2>9 DEF SendBatch, StatusContextDone
  <2>10. CASE Report(c) BY <2>10 DEF Report
  <2>11. CASE GiveUp(c) BY <2>11 DEF GiveUp
  <2> QED BY <2>1, <2>2, <2>3, <2>4, <2>5, <2>6, <2>7, <2>8, <2>9, <2>10, <2>11 DEF CallStep
<1> QED BY <1>2, <1>3, <1>4, <1>5

\* The safety part of the promise, for every call: only accepted messages are echoed,
\* each at most once, a call ends once, and nobody has acknowledged what is refused.
THEOREM PromiseKept ==
    Spec => Promise!PromiseInit /\ [][Promise!PromiseNext]_(Promise!promiseVars)
<1>1. Init => PromiseInv
  BY StatusInductive DEF PromiseInv, EchoKept, Init
<1>2. ASSUME PromiseInv, [Next]_vars PROVE PromiseInv'
  <2>1. StatusInv' BY <1>2, StatusInductive DEF PromiseInv
  <2>2. CASE \E c \in Calls : Receive(c) \/ CallStep(c) \/ HandleEcho(c) \/ GiveUp(c)
    BY <1>2, <2>1, <2>2, EchoesKept DEF PromiseInv
  <2>3. CASE UNCHANGED sendVars
    <3>1. UNCHANGED <<pc, echo>> BY <2>3 DEF sendVars, callVars
    <3> QED BY <1>2, <2>1, <3>1 DEF PromiseInv, EchoKept
  <2> QED BY <1>2, <2>2, <2>3 DEF Next, vars
<1>3. Init => Promise!PromiseInit
  <2>1. ASSUME Init PROVE Promise!PromiseInit
    <3>1. Standing = [c \in Calls |-> "idle"] BY <2>1 DEF Init, Standing, PromiseState, Ended
    <3>2. Echoed = {} BY <2>1 DEF Init, Echoed
    <3> QED BY <2>1, <3>1, <3>2 DEF Init, Promise!PromiseInit, Standing, Echoed
  <2> QED BY <2>1
<1>4. ASSUME PromiseInv, [Next]_vars PROVE [Promise!PromiseNext]_(Promise!promiseVars)
  <2>1. CASE \E c \in Calls : Receive(c) \/ CallStep(c) \/ HandleEcho(c) \/ GiveUp(c)
    <3>1. PICK c \in Calls : Receive(c) \/ CallStep(c) \/ HandleEcho(c) \/ GiveUp(c) BY <2>1
    <3>2. Promised(c) BY <1>4, <3>1, StepsArePromised
    <3> QED BY <3>2 DEF Promised, Promise!PromiseNext, Promise!promiseVars, Standing, Echoed
  <2>2. CASE UNCHANGED sendVars
    <3>1. UNCHANGED <<pc, echo, acked>> BY <2>2 DEF sendVars, callVars, statusVars
    <3>2. UNCHANGED <<Standing, acked, Echoed>> BY <3>1, StandingKept, EchoedKept
    <3> QED BY <3>2 DEF Promise!promiseVars, Standing, Echoed
  <2> QED BY <1>4, <2>1, <2>2 DEF Next, vars
<1> QED BY <1>1, <1>2, <1>3, <1>4, PTL DEF Spec
=============================================================================
