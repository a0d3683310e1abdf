---------------------------- MODULE MessageContent ----------------------------
(***************************************************************************)
(* What the message handlers of the server put into a message               *)
(* (server/messages.go, gows/build.go, message_polls.go, message_events.go,  *)
(* message_edits.go, ephemeral.go, the upload and link preview part of       *)
(* media.go).  Everything here is a pure function of the request and of what  *)
(* the storage, the network and the file system answer.                      *)
(*                                                                          *)
(* A ContextInfo is a set of marks: what a message carries besides its       *)
(* content.  A message is its kind, its marks, whose message secret it has    *)
(* and how its media was uploaded.  Texts, names, sizes and keys are left out.*)
(***************************************************************************)
EXTENDS Naturals, FiniteSets

CONSTANTS Nothing,  \* no message: the handler returned an error
          Stored    \* the message table: what it holds under an id

Marks == {"timer", "quote", "mentions", "forwarded", "oldTimer", "oldQuote", "oldMentions"}

MediaKinds == {"image", "video", "ptv", "audio", "document", "documentWithCaption", "sticker"}
PollKinds == {"poll", "pollV2", "pollV3"}

\* The kinds whose ContextInfo ExtractContextInfo reads and SetContextInfo sets.
Carriers == MediaKinds \cup PollKinds
              \cup {"extendedText", "contact", "contactsArray", "location", "template", "list"}

Kinds == Carriers \cup {"conversation", "event", "pollUpdate", "reaction", "revoke", "edit",
                        "newsletterEdit", "buttonsResponse", "eventUpdate", "nil"}

Messages == [kind : Kinds, ctx : SUBSET Marks, secret : {"none", "new", "old"},
             upload : {"none", "sealed", "plain", "old"}]

\* Where a message goes: the server part of the chat's JID.
Chats == {"user", "group", "newsletter", "status"}
Ops == {"message", "reaction", "markRead", "revoke", "edit", "button", "cancelEvent"}
Whats == {"forward", "vote", "poll", "event", "contact", "contacts", "list", "location",
          "text", "none"} \cup (MediaKinds \ {"document"})

StoredMessages ==
    [kind : Kinds, ctx : SUBSET Marks, secret : {"none", "old"}, upload : {"none", "old"},
     mine : BOOLEAN]

ASSUME ContentAssumption ==
    /\ \A id \in DOMAIN Stored : Stored[id] \in StoredMessages
    /\ Nothing \notin Messages

Plain(kind, marks) == [kind |-> kind, ctx |-> marks, secret |-> "none", upload |-> "none"]
Secret(kind, marks) == [Plain(kind, marks) EXCEPT !.secret = "new"]
ContentOf(row) == [kind |-> row.kind, ctx |-> row.ctx, secret |-> row.secret, upload |-> row.upload]

-----------------------------------------------------------------------------
(* ContextInfo *)

\* What the storage may answer a lookup; not finding a row is an error too.
Answers == {"found", "error"}

\* A setting that is missing, turned off or unreadable adds nothing: all are "error" here.
PopulateContextInfoDisappearingSettings(info, setting) ==
    IF setting = "found" THEN info \cup {"timer"} ELSE info

\* Mutant: the reply that is not found takes the rest of the context with it.
ReplyOrNothing(info, reply) == IF reply = "found" THEN info \cup {"quote"} ELSE {}

PopulateContextInfoWithReply(info, reply) ==
    IF reply = "found" THEN info \cup {"quote"} ELSE info

PopulateContextInfoWithMentions(info) == info \cup {"mentions"}

\* The context every content of SendMessage gets, a poll vote without the timer.
ContextInfo(r, setting, reply) ==
    LET timed == IF r.what = "vote" THEN {} ELSE PopulateContextInfoDisappearingSettings({}, setting)
        replied == IF r.reply THEN PopulateContextInfoWithReply(timed, reply) ELSE timed
    IN  IF r.mentions THEN PopulateContextInfoWithMentions(replied) ELSE replied

ExtractContextInfo(m) == IF m # Nothing /\ m.kind \in Carriers THEN m.ctx ELSE {}
SetContextInfo(m, info) == IF m.kind \in Carriers THEN [m EXCEPT !.ctx = info] ELSE Nothing

-----------------------------------------------------------------------------
(* The contents *)

UploadMedia(chat) == IF chat = "newsletter" THEN "plain" ELSE "sealed"

IsPollCreation(m) == m.kind \in PollKinds

\* Plain text becomes an extended text, which can carry a ContextInfo.
Promoted(m) == IF m.kind = "conversation" THEN [m EXCEPT !.kind = "extendedText"] ELSE m

\* A forwarding score above 0 is the mark "forwarded"; the media of the original is reused.
BuildForwardedMessage(row, base, force) ==
    LET content == Promoted([ContentOf(row) EXCEPT !.secret = "none"])
        forwarded == \/ "forwarded" \in ExtractContextInfo(content)
                     \/ ~row.mine \/ force
    IN  IF IsPollCreation(row) THEN Nothing
        ELSE SetContextInfo(content, IF forwarded THEN base \cup {"forwarded"} ELSE base)

\* A single choice poll is a V3 poll, if it has an option to choose.
BuildPollCreationV3(r) == Secret(IF r.single THEN "pollV3" ELSE "poll", {})

PollMessage(r, info) ==
    [BuildPollCreationV3(r) EXCEPT !.ctx = info,
                                   !.secret = IF r.to = "newsletter" THEN "none" ELSE @]

BuildEventCreation(info) == Secret("event", info)

BuildContactsMessage(r, info) ==
    Plain(IF r.what = "contact" THEN "contact" ELSE "contactsArray", info)

ListMessage(info) == Plain("list", info)
LocationMessage(info) == Plain("location", info)

\* A preview that cannot be fetched, or not to its end, is only logged; the
\* high quality one uploads its thumbnail.
AddLinkPreview(m, r) ==
    {m} \cup IF r.preview THEN {[m EXCEPT !.upload = UploadMedia(r.to)]} ELSE {}

\* The context is set after the preview; a colour that cannot be parsed refuses the text.
TextMessages(r, info) ==
    {[m EXCEPT !.ctx = info] : m \in AddLinkPreview(Plain("extendedText", {}), r)}
      \cup IF r.color THEN {Nothing} ELSE {}

\* Uploads fail; thumbnails, sizes, waveforms and durations are best effort.
MediaOf(kind, r, info) == {Nothing, [Plain(kind, info) EXCEPT !.upload = UploadMedia(r.to)]}

ImageMessages(r, info) == MediaOf("image", r, info)
AudioMessages(r, info) == MediaOf("audio", r, info)
VideoMessages(r, info) == MediaOf("video", r, info)
PtvMessages(r, info) == MediaOf("ptv", r, info)
DocumentMessages(r, info) == MediaOf("documentWithCaption", r, info)
StickerMessages(r, info) == MediaOf("sticker", r, info)

\* An original that cannot be looked up, or is not found, refuses the forward.
ForwardMessages(r, info) == {Nothing, BuildForwardedMessage(Stored[r.of], info, r.force)}

\* A poll that is not found, an option it does not have, a secret that is missing.
VoteMessages == {Nothing, Plain("pollUpdate", {})}

MessageContents(r, info) ==
    CASE r.what = "forward" -> ForwardMessages(r, info)
      [] r.what = "vote" -> VoteMessages
      [] r.what = "poll" -> {PollMessage(r, info)}
      [] r.what = "event" -> {BuildEventCreation(info)}
      [] r.what \in {"contact", "contacts"} -> {BuildContactsMessage(r, info)}
      [] r.what = "list" -> {ListMessage(info)}
      [] r.what = "location" -> {LocationMessage(info)}
      [] r.what = "text" -> TextMessages(r, info)
      [] r.what = "image" -> ImageMessages(r, info)
      [] r.what = "audio" -> AudioMessages(r, info)
      [] r.what = "video" -> VideoMessages(r, info)
      [] r.what = "ptv" -> PtvMessages(r, info)
      [] r.what = "documentWithCaption" -> DocumentMessages(r, info)
      [] r.what = "sticker" -> StickerMessages(r, info)

-----------------------------------------------------------------------------
(* Edits and the other operations *)

\* The edited text keeps the type and the context of the original where it can.
BuildEditedMessage(original) ==
    IF original # Nothing /\ original.kind = "conversation" THEN Plain("conversation", {})
    ELSE IF original # Nothing
              /\ original.kind \in {"image", "video", "document", "documentWithCaption"}
           THEN Plain(original.kind, original.ctx)
           ELSE Plain("extendedText", ExtractContextInfo(original))

\* Only an edited text gets a preview.
EditedMessages(original, r) ==
    LET edited == BuildEditedMessage(original)
    IN  IF edited.kind = "extendedText" THEN AddLinkPreview(edited, r) ELSE {edited}

BuildEdit(chat, edited) ==
    [edited EXCEPT !.kind = IF chat = "newsletter" THEN "newsletterEdit" ELSE "edit"]

\* Any failure to read the original is as good as not finding it.
EditMessages(r, lookup) ==
    LET original == IF lookup = "found" THEN ContentOf(Stored[r.of]) ELSE Nothing
    IN  {BuildEdit(r.to, m) : m \in EditedMessages(original, r)}

RevokeMessages == {Nothing, Plain("revoke", {})}
ReactionMessages == {Nothing, Plain("reaction", {})}

ButtonReply(reply) == Secret("buttonsResponse", PopulateContextInfoWithReply({}, reply))

\* The error of BuildEventUpdate is overwritten by that of SendMessage.
CancelMessages == {Nothing, Plain("nil", {}), Plain("eventUpdate", {})}

\* The messages a handler may end up with; "lookup" is what the storage answers an
\* edit or a button reply about the message it refers to.
Contents(r, info, lookup) ==
    CASE r.op = "message" -> MessageContents(r, info)
      [] r.op = "reaction" -> ReactionMessages
      [] r.op = "revoke" -> RevokeMessages
      [] r.op = "edit" -> EditMessages(r, lookup)
      [] r.op = "button" -> {ButtonReply(lookup)}
      [] r.op = "cancelEvent" -> CancelMessages

=============================================================================
