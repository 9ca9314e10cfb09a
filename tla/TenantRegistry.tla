---------------------------- MODULE TenantRegistry ----------------------------
(***************************************************************************)
(* What the tenant life cycle promises, whatever the processes do in       *)
(* between: a tenant is absent, then live, then deleted, for good; only a  *)
(* tenant that has been registered is served; and the process that deletes *)
(* a tenant does not serve it, then or later - unless it was still         *)
(* creating it, whose outcome a deletion does not wait for.  Other         *)
(* processes may serve a deleted tenant, and any may delete it again.      *)
(***************************************************************************)
CONSTANTS Tenant, Proc

VARIABLES
    status,   \* the row of a tenant, as anybody can read it
    makers,   \* the processes that are creating it
    servers,  \* the processes with a registered consumer of it
    retired   \* the processes that have deleted it and are done with it

vars == <<status, makers, servers, retired>>

Init ==
    /\ status = [t \in Tenant |-> "absent"]
    /\ makers = [t \in Tenant |-> {}]
    /\ servers = [t \in Tenant |-> {}]
    /\ retired = [t \in Tenant |-> {}]

\* Only an identifier nobody has used is taken.
Open(t, p) ==
    /\ status[t] = "absent" /\ makers[t] = {} /\ retired[t] = {}
    /\ makers' = [makers EXCEPT ![t] = {p}]
    /\ UNCHANGED <<status, servers, retired>>

Register(t, p) ==
    /\ status[t] = "absent" /\ p \in makers[t]
    /\ status' = [status EXCEPT ![t] = "live"]
    /\ UNCHANGED <<makers, servers, retired>>

\* A creation ends with the consumer, or without one.
Complete(t, p) ==
    /\ status[t] # "absent" /\ p \in makers[t] /\ p \notin retired[t]
    /\ makers' = [makers EXCEPT ![t] = @ \ {p}]
    /\ servers' = [servers EXCEPT ![t] = @ \cup {p}]
    /\ UNCHANGED <<status, retired>>

GiveUp(t, p) ==
    /\ makers' = [makers EXCEPT ![t] = @ \ {p}]
    /\ UNCHANGED <<status, servers, retired>>

\* A process that starts serves what is registered.
Join(t, p) ==
    /\ status[t] # "absent" /\ p \notin retired[t]
    /\ servers' = [servers EXCEPT ![t] = @ \cup {p}]
    /\ UNCHANGED <<status, makers, retired>>

Leave(t, p) ==
    /\ servers' = [servers EXCEPT ![t] = @ \ {p}]
    /\ UNCHANGED <<status, makers, retired>>

\* A process stops serving everything, on its own account or because it ends.
Depart(p) ==
    /\ servers' = [t \in Tenant |-> servers[t] \ {p}]
    /\ makers' \in {makers, [t \in Tenant |-> makers[t] \ {p}]}
    /\ UNCHANGED <<status, retired>>

Retire(t, p) ==
    /\ status[t] # "absent" /\ p \notin servers[t]
    /\ status' = [status EXCEPT ![t] = "deleted"]
    /\ retired' = IF p \in makers[t] THEN retired ELSE [retired EXCEPT ![t] = @ \cup {p}]
    /\ UNCHANGED <<makers, servers>>

Next ==
    \/ \E t \in Tenant, p \in Proc :
          \/ Open(t, p) \/ Register(t, p) \/ Complete(t, p) \/ GiveUp(t, p)
          \/ Join(t, p) \/ Leave(t, p) \/ Retire(t, p)
    \/ \E p \in Proc : Depart(p)

Spec == Init /\ [][Next]_vars
===============================================================================
