-------------------------------- MODULE Delivery --------------------------------
(***************************************************************************)
(* What the handling of messages promises: at-least-once delivery.  A      *)
(* claim is somebody's duty to bring a message to an end - the broker's, a *)
(* sleeping retry's, a handler's.  A message is posted with one claim; a   *)
(* claim passes on, or ends with an outcome, always exactly one; only the  *)
(* loss of a channel, a process, the queue or the broker changes claims in *)
(* another way, and takes the last one of a message only if that has an    *)
(* outcome or is recorded as lost.                                         *)
(***************************************************************************)
EXTENDS Naturals

CONSTANTS Msg, Claim

VARIABLES
    claims,   \* the claims of each message
    handled,  \* how often it was handled to the end
    dead,     \* messages that were dead-lettered
    lost,     \* messages something of which was destroyed
    disruptions

vars == <<claims, handled, dead, lost, disruptions>>

Closed(m) == handled[m] > 0 \/ m \in dead \cup lost
Posted(m) == claims[m] # {} \/ Closed(m)

Init ==
    /\ claims = [m \in Msg |-> {}]
    /\ handled = [m \in Msg |-> 0]
    /\ dead = {} /\ lost = {}
    /\ disruptions = 0

Post(m) ==
    /\ ~Posted(m)
    /\ \E a \in Claim : claims' = [claims EXCEPT ![m] = {a}]
    /\ UNCHANGED <<handled, dead, lost, disruptions>>

\* The broker drops what was posted, and nobody is told.
PostInVain(m) ==
    /\ ~Posted(m)
    /\ lost' = lost \cup {m}
    /\ UNCHANGED <<claims, handled, dead, disruptions>>

Pass(m) ==
    /\ UNCHANGED <<handled, dead, lost, disruptions>>
    /\ \E a \in claims[m], b \in claims'[m] \ claims[m] :
         b \in Claim /\ claims' = [claims EXCEPT ![m] = (@ \ {a}) \cup {b}]

\* One claim of message m ends.
End(m) == \E a \in claims[m] : claims' = [claims EXCEPT ![m] = @ \ {a}]

Handle(m) ==
    /\ handled' = [handled EXCEPT ![m] = @ + 1]
    /\ End(m)
    /\ UNCHANGED <<dead, lost, disruptions>>

Bury(m) ==
    /\ dead' = dead \cup {m}
    /\ UNCHANGED <<handled, lost, disruptions>>
    /\ End(m)

Lose(m) ==
    /\ lost' = lost \cup {m}
    /\ UNCHANGED <<handled, dead, disruptions>>
    /\ End(m)

\* A channel, a process, the queue or the broker is lost: copies go back to the
\* queue while their handlers go on, or go with it.
Disrupt ==
    /\ disruptions' = disruptions + 1
    /\ claims' \in [Msg -> SUBSET Claim]
    /\ lost \subseteq lost'
    /\ UNCHANGED <<handled, dead>>
    /\ \A m \in Msg :
         /\ claims'[m] # {} \/ m \in lost' => Posted(m)
         /\ claims[m] # {} /\ claims'[m] = {} => Closed(m)'

Next ==
    \/ \E m \in Msg : Post(m) \/ PostInVain(m) \/ Pass(m)
    \/ \E m \in Msg : Handle(m) \/ Bury(m) \/ Lose(m)
    \/ Disrupt

Spec == Init /\ [][Next]_vars
=================================================================================
