------------------------------- MODULE MCSending -------------------------------
(***************************************************************************)
(* A small instance of Sending for TLC: a call that may ask for anything,    *)
(* and the fetches of the session beside it (calls share nothing else); three *)
(* participants of a status have a phone number, one a @lid.  The stored      *)
(* messages are one of each shape the handlers tell apart.                    *)
(***************************************************************************)
EXTENDS Sending

CONSTANTS c, u1, u2, u3, h, s

Row(kind, ctx, mine) ==
    [kind |-> kind, ctx |-> ctx, secret |-> "old", upload |-> "none", mine |-> mine]

MCStored ==
    [text   |-> Row("conversation", {}, FALSE),
     own    |-> Row("extendedText", {"oldTimer", "oldMentions"}, TRUE),
     again  |-> Row("image", {"oldTimer", "oldQuote", "forwarded"}, TRUE),
     sticker |-> Row("sticker", {"oldTimer"}, TRUE),
     poll   |-> Row("pollV3", {}, FALSE),
     event  |-> Row("event", {}, TRUE)]

Plainest ==
    [op |-> "message", what |-> "text", to |-> "user", reply |-> FALSE, mentions |-> FALSE,
     preview |-> FALSE, color |-> FALSE, force |-> FALSE, single |-> FALSE, of |-> "text",
     people |-> <<>>]

Content(what) == [Plainest EXCEPT !.what = what, !.to = "group", !.reply = TRUE, !.mentions = TRUE]
Other(op) == [Plainest EXCEPT !.op = op, !.what = "none"]
Status == [Plainest EXCEPT !.to = "status", !.people = <<u1, h, u2, u3>>, !.color = TRUE]

MessageRequests ==
    {Content(w) : w \in Whats \ {"none", "forward", "text"}}
      \cup {[Content("forward") EXCEPT !.of = id] : id \in DOMAIN MCStored}
      \cup {[Content("forward") EXCEPT !.of = "own", !.force = TRUE],
            [Content("text") EXCEPT !.preview = TRUE, !.to = "group"],
            [Content("poll") EXCEPT !.single = TRUE, !.to = "newsletter"],
            [Content("image") EXCEPT !.to = "newsletter"],
            [Content("vote") EXCEPT !.to = "newsletter"]}

OtherRequests ==
    {Other(op) : op \in {"reaction", "markRead", "revoke", "button", "cancelEvent"}}
      \cup {[Other("edit") EXCEPT !.of = id] : id \in DOMAIN MCStored}
      \cup {[Other("edit") EXCEPT !.of = "own", !.preview = TRUE, !.to = "newsletter"],
            [Other("reaction") EXCEPT !.to = "newsletter"],
            [Other("revoke") EXCEPT !.to = "status", !.people = <<u2, u1>>]}

MCRequests ==
    c :> MessageRequests \cup OtherRequests
           \cup {Plainest, Status, [Status EXCEPT !.people = <<>>],
                 [Status EXCEPT !.people = <<u1, h, u2, u1>>]}

MCAudience == <<u2, u3, u1>>
=============================================================================
