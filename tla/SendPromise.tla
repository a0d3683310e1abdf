------------------------------ MODULE SendPromise ------------------------------
(***************************************************************************)
(* What sending promises its caller: a call that is taken ends, either       *)
(* accepted, answered or refused; the message of an accepted call is handed to *)
(* the session's own event handlers, once, that of a refused call never; and  *)
(* a call is refused only if nobody acknowledged its message.  Newsletter     *)
(* votes and reactions are no messages of their own: they are answered.       *)
(***************************************************************************)
CONSTANTS Calls, Users

VARIABLES state,   \* of a call
          reached, \* who acknowledged a stanza of the call's message
          echoed   \* the calls whose message the session handles

promiseVars == <<state, reached, echoed>>

PromiseInit ==
    /\ state = [c \in Calls |-> "idle"]
    /\ reached = [c \in Calls |-> {}]
    /\ echoed = {}

Take(c) ==
    /\ state[c] = "idle"
    /\ state' = [state EXCEPT ![c] = "taken"]
    /\ UNCHANGED <<reached, echoed>>

Reach(c) ==
    /\ state[c] = "taken"
    /\ \E us \in SUBSET Users : reached' = [reached EXCEPT ![c] = @ \cup us]
    /\ UNCHANGED <<state, echoed>>

Accept(c) ==
    /\ state[c] = "taken"
    /\ state' = [state EXCEPT ![c] = "accepted"]
    /\ UNCHANGED <<reached, echoed>>

Answer(c) ==
    /\ state[c] = "taken"
    /\ state' = [state EXCEPT ![c] = "answered"]
    /\ UNCHANGED <<reached, echoed>>

Refuse(c) ==
    /\ state[c] \in {"idle", "taken"}
    /\ reached[c] = {}
    /\ state' = [state EXCEPT ![c] = "refused"]
    /\ UNCHANGED <<reached, echoed>>

Echo(c) ==
    /\ state[c] = "accepted"
    /\ c \notin echoed
    /\ echoed' = echoed \cup {c}
    /\ UNCHANGED <<state, reached>>

PromiseNext ==
    \E c \in Calls : \/ Take(c) \/ Reach(c) \/ Accept(c)
                   \/ Answer(c) \/ Refuse(c) \/ Echo(c)

Ends == \A c \in Calls :
    state[c] = "taken" ~> state[c] \in {"answered", "refused"} \/ c \in echoed

Promise == PromiseInit /\ [][PromiseNext]_promiseVars /\ Ends
=============================================================================
