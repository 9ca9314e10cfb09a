------------------------ MODULE TenantLifecycleProofs ------------------------
(***************************************************************************)
(* Theorems about TenantLifecycle for any number of tenants, workers,      *)
(* requests, failures and starts, from the inductive invariant that        *)
(* TenantLifecycleInvariant shows to be kept by every action.              *)
(***************************************************************************)
EXTENDS TenantLifecycleInvariant

-----------------------------------------------------------------------------
(* The invariant *)

(* Before anything has happened there is nothing to violate it. *)
LEMMA InitHolds == Init => IInv
<1> SUFFICES ASSUME Init PROVE IInv
  OBVIOUS
<1> USE LifecycleAssumption DEF Init
<1>1. TypeOK
  BY DEF TypeOK, Phase, Proc
<1>2. \A r \in Request : op[r].kind = "idle" /\ op[r].proc = Nobody /\ op[r].at = "end"
  BY DEF Idle
<1>3. MutexOwner
  BY <1>2 DEF MutexOwner
<1>4. CreationsOK /\ OthersOK /\ UpdatesOK
  BY <1>2 DEF CreationsOK, OthersOK, UpdatesOK
<1>5. PhasesOK
  BY <1>2 DEF PhasesOK, Proc
<1>6. AbsentOK /\ DeletedOK /\ CreatedIsComplete /\ AcceptedIsRouted
  BY DEF AbsentOK, DeletedOK, CreatedIsComplete, AcceptedIsRouted
<1>7. ConfigAgrees
  BY DEF ConfigAgrees
<1> QED
  BY <1>1, <1>3, <1>4, <1>5, <1>6, <1>7 DEF IInv

(* Every action keeps it. *)
LEMMA StepKeeps ==
  ASSUME IInv, [Next]_vars
  PROVE  IInv'
<1>1. ASSUME NEW r \in Request, Advance(r) PROVE IInv'
  BY <1>1, InsertTenantKeeps, CreatePartitionKeeps, CommitTxKeeps, DeclareQueueKeeps,
     StopConsumerKeeps, DeleteTenantQueueKeeps, SoftDeleteKeeps, UpdateConfigKeeps,
     ResizeKeeps, InsertMessageKeeps, RouteMessageKeeps
  DEF Advance
<1>2. ASSUME NEW r \in Request, WaitForMutex(r) PROVE IInv'
  BY <1>2, ConsumeQueueKeeps, LockDeleteKeeps, LockUpdateKeeps DEF WaitForMutex
<1>3. ASSUME NEW r \in Request, NEW p \in Proc,
             BeginCreate(r, p) \/ BeginDelete(r, p) \/ BeginUpdate(r, p) \/ BeginPublish(r, p)
      PROVE  IInv'
  BY <1>3, BeginCreateKeeps, BeginDeleteKeeps, BeginUpdateKeeps, BeginPublishKeeps
<1>4. ASSUME NEW t \in Tenant, InsertConfig(t) PROVE IInv'
  BY <1>4, InsertConfigKeeps
<1>5. ASSUME NEW p \in Proc, Restoring(p) PROVE IInv'
  BY <1>5, RestoreQueueKeeps, RestoreConsumerKeeps, RestoredKeeps DEF Restoring
<1>6. ASSUME NEW p \in Proc, ControlEnds(p) \/ Signal(p) \/ CloseServer(p) PROVE IInv'
  <2>1. CASE ControlEnds(p)
    BY <2>1, MoveKeeps DEF ControlEnds, Phase
  <2>2. CASE Signal(p)
    <3>1. PICK from \in Phase \ {"down", "restoring"} : Move(p, from, "signalled")
      BY <2>2 DEF Signal, Phase
    <3> QED
      BY <3>1, MoveKeeps DEF Phase
  <2>3. CASE CloseServer(p)
    BY <2>3, MoveKeeps DEF CloseServer, Phase
  <2> QED
    BY <1>6, <2>1, <2>2, <2>3
<1>7. ASSUME NEW p \in Proc,
             \/ Boot(p) \/ StopAllConsumers(p) \/ Exit(p) \/ Kill(p)
             \/ CancelConsumer(p) \/ LoseConnection(p)
      PROVE  IInv'
  BY <1>7, BootKeeps, StopAllConsumersKeeps, EndsKeeps, LinkKeeps DEF Exit, Kill
<1>8. CASE UNCHANGED vars
  <2> USE <1>8 DEF vars
  <2>1. TypeOK' /\ MutexOwner'
    BY DEF IInv, TypeOK, MutexOwner
  <2>2. CreationsOK' /\ OthersOK' /\ PhasesOK' /\ UpdatesOK'
    BY DEF IInv, CreationsOK, OthersOK, PhasesOK, UpdatesOK
  <2>3. AbsentOK' /\ DeletedOK' /\ CreatedIsComplete' /\ AcceptedIsRouted'
    BY DEF IInv, AbsentOK, DeletedOK, Creates, CreatedIsComplete, AcceptedIsRouted
  <2>4. ConfigAgrees'
    BY DEF IInv, ConfigAgrees, At
  <2> QED
    BY <2>1, <2>2, <2>3, <2>4 DEF IInv
<1> QED
  BY <1>1, <1>2, <1>3, <1>4, <1>5, <1>6, <1>7, <1>8 DEF Next

(* The invariant holds in every reachable state. *)
THEOREM Invariant == Spec => []IInv
<1>1. IInv /\ [Next]_vars => IInv'
  BY StepKeeps
<1> QED
  BY InitHolds, <1>1, PTL DEF Spec

-----------------------------------------------------------------------------
(* The properties *)

(* Every variable keeps its type. *)
THEOREM TypeCorrect == Spec => []TypeOK
<1>1. IInv => TypeOK
  BY DEF IInv
<1> QED
  BY <1>1, Invariant, PTL

(* A tenant without a row has no partition, no queue and no consumer: the  *)
(* insert comes first in CreateTenant, and nothing removes a row.          *)
THEOREM RowComesFirst == Spec => []NothingWithoutRow
<1>1. IInv => NothingWithoutRow
  BY DEF IInv, AbsentOK, NothingWithoutRow
<1> QED
  BY <1>1, Invariant, PTL

(* A tenant whose creation was reported is complete until somebody asks to *)
(* delete it; its creator keeps the consumer registered until it stops,    *)
(* and subscribed unless the broker or the connection took that away.      *)
THEOREM CreatedComplete == Spec => []CreatedIsComplete
<1>1. IInv => CreatedIsComplete
  BY DEF IInv
<1> QED
  BY <1>1, Invariant, PTL

(* A process that reported a tenant deleted, and was not still creating    *)
(* it, never consumes it again.                                            *)
THEOREM DeletedForGood == Spec => []DeletedStaysStopped
<1>1. IInv => DeletedStaysStopped
  BY DEF IInv, DeletedOK, DeletedStaysStopped
<1> QED
  BY <1>1, Invariant, PTL

(* The consumer of the process that configured a tenant last has the count *)
(* in the database, in any order of updates and for any counts, also those *)
(* that are not positive.                                                  *)
THEOREM ConfigInStep == Spec => []ConfigAgrees
<1>1. IInv => ConfigAgrees
  BY DEF IInv
<1> QED
  BY <1>1, Invariant, PTL

(* Of the tenants whose creation was reported only those asked to be       *)
(* deleted lose accepted messages for want of a queue.                     *)
THEOREM AcceptedRouted == Spec => []AcceptedIsRouted
<1>1. IInv => AcceptedIsRouted
  BY DEF IInv
<1> QED
  BY <1>1, Invariant, PTL

(* Exactly the deletions and updates past their lock hold the mutex.       *)
THEOREM MutexHeld == Spec => []MutexOwner
<1>1. IInv => MutexOwner
  BY DEF IInv
<1> QED
  BY <1>1, Invariant, PTL

-----------------------------------------------------------------------------
(* The refinement *)

Servers == [t \in Tenant |-> {p \in Proc : pool[p][t] # NoCount}]
Makers == [t \in Tenant |-> {p \in Proc : Creates(p, t)}]

(* An entry in the map of a process makes it a server of the tenant. *)
LEMMA EntryJoins ==
  ASSUME TypeOK, NEW p \in Proc, NEW t \in Tenant, NEW n \in Count,
         pool' = [pool EXCEPT ![p][t] = n]
  PROVE  Servers' = [Servers EXCEPT ![t] = @ \cup {p}]
<1>1. ASSUME NEW q \in Proc, NEW u \in Tenant
      PROVE  pool'[q][u] = IF q = p /\ u = t THEN n ELSE pool[q][u]
  BY DEF TypeOK
<1>2. ASSUME NEW u \in Tenant
      PROVE  Servers'[u] = IF u = t THEN Servers[u] \cup {p} ELSE Servers[u]
  BY <1>1, LifecycleAssumption DEF Servers
<1> QED
  BY <1>2 DEF Servers

(* Its removal from the map ends that. *)
LEMMA RemovalLeaves ==
  ASSUME TypeOK, NEW p \in Proc, NEW t \in Tenant, pool' = [pool EXCEPT ![p][t] = NoCount]
  PROVE  Servers' = [Servers EXCEPT ![t] = @ \ {p}]
<1>1. ASSUME NEW q \in Proc, NEW u \in Tenant
      PROVE  pool'[q][u] = IF q = p /\ u = t THEN NoCount ELSE pool[q][u]
  BY DEF TypeOK
<1>2. ASSUME NEW u \in Tenant
      PROVE  Servers'[u] = IF u = t THEN Servers[u] \ {p} ELSE Servers[u]
  BY <1>1 DEF Servers
<1> QED
  BY <1>2 DEF Servers

(* A step of a request that begins or ends no creation leaves the makers   *)
(* alone: neither it nor, where it ends, what it was is a creation.        *)
LEMMA MakersStay ==
  ASSUME NEW r \in Request, OthersStay(r),
         \/ /\ op'[r].kind = op[r].kind
            /\ op'[r].tenant = op[r].tenant /\ op'[r].proc = op[r].proc
         \/ op[r].kind # "create" /\ op'[r].kind # "create"
  PROVE  Makers' = Makers
<1>1. ASSUME NEW p \in Proc, NEW t \in Tenant PROVE Creates(p, t)' <=> Creates(p, t)
  BY DEF Creates, OthersStay
<1> QED
  BY <1>1 DEF Makers

(* The end of a creation, which is the only one of its tenant, leaves the  *)
(* tenant without a maker.                                                 *)
LEMMA MakerGone ==
  ASSUME IInv, NEW r \in Request, Active(r), op[r].kind = "create", Ended(r)
  PROVE  Makers' = [Makers EXCEPT ![op[r].tenant] = @ \ {op[r].proc}]
<1>1. \A q \in Request : op[q].kind = "create" /\ op[q].tenant = op[r].tenant => q = r
  BY DEF IInv, CreationsOK
<1>2. ASSUME NEW p \in Proc, NEW t \in Tenant
      PROVE  Creates(p, t)' <=> Creates(p, t) /\ ~(t = op[r].tenant /\ p = op[r].proc)
  BY <1>1 DEF Creates, Ended, OthersStay, Active
<1>3. ASSUME NEW t \in Tenant
      PROVE  Makers'[t] = IF t = op[r].tenant THEN Makers[t] \ {op[r].proc} ELSE Makers[t]
  BY <1>2 DEF Makers
<1> QED
  BY <1>3 DEF Makers

(* What a step of the registry does, seen from here. *)
RegistryStep ==
    \/ UNCHANGED <<row, Makers, Servers, deletedBy>>
    \/ \E t \in Tenant, p \in Proc :
         /\ row[t] = "absent" /\ Makers[t] = {} /\ deletedBy[t] = {}
         /\ Makers' = [Makers EXCEPT ![t] = {p}]
         /\ UNCHANGED <<row, Servers, deletedBy>>
    \/ \E t \in Tenant, p \in Proc :
         /\ row[t] = "absent" /\ p \in Makers[t]
         /\ row' = [row EXCEPT ![t] = "live"]
         /\ UNCHANGED <<Makers, Servers, deletedBy>>
    \/ \E t \in Tenant, p \in Proc :
         /\ row[t] # "absent" /\ p \in Makers[t] /\ p \notin deletedBy[t]
         /\ Makers' = [Makers EXCEPT ![t] = @ \ {p}]
         /\ Servers' = [Servers EXCEPT ![t] = @ \cup {p}]
         /\ UNCHANGED <<row, deletedBy>>
    \/ \E t \in Tenant, p \in Proc :
         /\ Makers' = [Makers EXCEPT ![t] = @ \ {p}]
         /\ UNCHANGED <<row, Servers, deletedBy>>
    \/ \E t \in Tenant, p \in Proc :
         /\ row[t] # "absent" /\ p \notin deletedBy[t]
         /\ Servers' = [Servers EXCEPT ![t] = @ \cup {p}]
         /\ UNCHANGED <<row, Makers, deletedBy>>
    \/ \E t \in Tenant, p \in Proc :
         /\ Servers' = [Servers EXCEPT ![t] = @ \ {p}]
         /\ UNCHANGED <<row, Makers, deletedBy>>
    \/ \E t \in Tenant, p \in Proc :
         /\ row[t] # "absent" /\ p \notin Servers[t]
         /\ row' = [row EXCEPT ![t] = "deleted"]
         /\ deletedBy' = IF p \in Makers[t] THEN deletedBy
                         ELSE [deletedBy EXCEPT ![t] = @ \cup {p}]
         /\ UNCHANGED <<Makers, Servers>>
    \/ \E p \in Proc :
         /\ Servers' = [t \in Tenant |-> Servers[t] \ {p}]
         /\ Makers' \in {Makers, [t \in Tenant |-> Makers[t] \ {p}]}
         /\ UNCHANGED <<row, deletedBy>>

(* Read with the registry's own variables, it is a step of the registry.  *)
LEMMA StepIsRegistry == RegistryStep => [Registry!Next]_Registry!vars
  BY DEF RegistryStep, Registry!Next, Registry!vars, Registry!Open, Registry!Register,
         Registry!Complete, Registry!GiveUp, Registry!Join, Registry!Leave, Registry!Retire,
         Registry!Depart, Servers, Makers

(* A step that leaves rows, pools and the notes on deletions alone, and    *)
(* neither begins nor ends a creation, is invisible to the registry.       *)
LEMMA Invisible ==
  ASSUME UNCHANGED <<row, pool, deletedBy>>, Makers' = Makers
  PROVE  RegistryStep
<1>1. Servers' = Servers
  BY DEF Servers
<1> QED
  BY <1>1 DEF RegistryStep

(* The first step of a creation has a tenant nobody deals with.            *)
LEMMA CreateOpens ==
  ASSUME IInv, NEW r \in Request, NEW p \in Proc, BeginCreate(r, p)
  PROVE  RegistryStep
<1>1. PICK t \in Tenant :
          /\ row[t] = "absent" /\ t \notin doomed /\ \A q \in Request : op[q].tenant # t
          /\ Begin(r, p, "create", "insert", t, DefaultCount) \/ UNCHANGED op
          /\ UNCHANGED <<row, pool, deletedBy>>
  BY DEF BeginCreate, Unused, dbVars, tmVars
<1>2. CASE UNCHANGED op
  BY <1>1, <1>2, Invisible DEF Makers, Creates
<1>3. CASE Begin(r, p, "create", "insert", t, DefaultCount)
  <2>1. Begun(r, p, "create", "insert", t, DefaultCount)
    BY <1>3, BeginBegins, LifecycleAssumption DEF IInv, Stage
  <2>2. ASSUME NEW q \in Proc, NEW u \in Tenant
        PROVE  Creates(q, u)' <=> Creates(q, u) \/ (q = p /\ u = t)
    BY <2>1 DEF Creates, Begun, OthersStay
  <2>3. ASSUME NEW q \in Proc PROVE ~Creates(q, t)
    BY <1>1 DEF Creates
  <2>4. ASSUME NEW u \in Tenant
        PROVE  Makers'[u] = IF u = t THEN {p} ELSE Makers[u]
    BY <2>2, <2>3 DEF Makers
  <2>5. Makers' = [Makers EXCEPT ![t] = {p}] /\ Makers[t] = {}
    BY <2>3, <2>4 DEF Makers
  <2>6. deletedBy[t] = {}
    BY <1>1 DEF IInv, AbsentOK
  <2>7. Servers' = Servers
    BY <1>1 DEF Servers
  <2> QED
    BY <1>1, <2>5, <2>6, <2>7 DEF RegistryStep
<1> QED
  BY <1>1, <1>2, <1>3

(* A creation that fails.                                                  *)
LEMMA CreateGivesUp ==
  ASSUME IInv, NEW r \in Request, Active(r), op[r].kind = "create", End(r),
         UNCHANGED <<row, pool, deletedBy>>
  PROVE  RegistryStep
<1>1. Makers' = [Makers EXCEPT ![op[r].tenant] = @ \ {op[r].proc}]
  BY EndEnds, MakerGone DEF IInv
<1>2. Servers' = Servers
  BY DEF Servers
<1> QED
  BY <1>1, <1>2 DEF RegistryStep, Active

(* Every step is one of the registry, or none. *)
LEMMA StepRefines ==
  ASSUME IInv, [Next]_vars
  PROVE  [Registry!Next]_Registry!vars
<1> USE LifecycleAssumption
<1>2. ASSUME NEW r \in Request, InsertTenant(r) PROVE RegistryStep
  <2>1. Active(r) /\ op[r].kind = "create" /\ op[r].at = "insert"
    BY <1>2, AtActive DEF IInv, InsertTenant, At
  <2>2. CASE CreateFails(r)
    BY <2>1, <2>2, CreateGivesUp DEF CreateFails, dbVars, tmVars
  <2>3. CASE ~CreateFails(r)
    <3>1. row[op[r].tenant] = "absent" /\ op[r].proc \in Makers[op[r].tenant]
      BY <2>1 DEF IInv, CreationsOK, Makers, Creates, Active
    <3>2. Moved(r, "partition")
      BY <1>2, <2>1, <2>3, GotoMoves DEF IInv, InsertTenant, Stage
    <3>3. Makers' = Makers
      BY <3>2, MakersStay DEF Moved
    <3>4. row' = [row EXCEPT ![op[r].tenant] = "live"] /\ UNCHANGED <<pool, deletedBy>>
      BY <1>2, <2>3 DEF InsertTenant, tmVars, history
    <3>5. Servers' = Servers
      BY <3>4 DEF Servers
    <3> QED
      BY <2>1, <3>1, <3>3, <3>4, <3>5 DEF RegistryStep, Active
  <2> QED
    BY <2>2, <2>3
<1>3. ASSUME NEW r \in Request, ConsumeQueue(r) PROVE RegistryStep
  <2>1. Active(r) /\ op[r].kind = "create" /\ op[r].at = "consume"
    BY <1>3, AtActive DEF IInv, ConsumeQueue, At
  <2>2. CASE CreateFails(r)
    BY <2>1, <2>2, CreateGivesUp DEF CreateFails, dbVars, tmVars
  <2>3. CASE ~CreateFails(r)
    <3>1. /\ row[op[r].tenant] # "absent" /\ op[r].count \in Count
          /\ op[r].proc \in Makers[op[r].tenant]
      BY <2>1 DEF IInv, CreationsOK, Makers, Creates, Active
    <3>2. op[r].proc \notin deletedBy[op[r].tenant]
      BY <2>1 DEF IInv, DeletedOK, Creates, Active
    <3>3. /\ End(r)
          /\ pool' = [pool EXCEPT ![op[r].proc][op[r].tenant] = op[r].count]
          /\ UNCHANGED <<row, deletedBy>>
      BY <1>3, <2>3 DEF ConsumeQueue, StartConsumer, dbVars
    <3>4. Servers' = [Servers EXCEPT ![op[r].tenant] = @ \cup {op[r].proc}]
      BY <2>1, <3>1, <3>3, EntryJoins DEF IInv, Active
    <3>5. Makers' = [Makers EXCEPT ![op[r].tenant] = @ \ {op[r].proc}]
      BY <2>1, <3>3, EndEnds, MakerGone DEF IInv
    <3> QED
      BY <2>1, <3>1, <3>2, <3>3, <3>4, <3>5 DEF RegistryStep, Active
  <2> QED
    BY <2>2, <2>3
<1>4. ASSUME NEW r \in Request, CreatePartition(r) \/ CommitTx(r) \/ DeclareQueue(r)
      PROVE  RegistryStep
  <2>1. Active(r) /\ op[r].kind = "create" /\ UNCHANGED <<row, pool, deletedBy>>
    BY <1>4, AtActive
    DEF IInv, At, CreatePartition, CommitTx, DeclareQueue, CreateFails, dbVars, tmVars, history
  <2>2. CASE End(r)
    BY <2>1, <2>2, CreateGivesUp
  <2>3. CASE ~End(r)
    <3>1. PICK stage \in Stage : Goto(r, stage)
      BY <1>4, <2>3 DEF CreatePartition, CommitTx, DeclareQueue, CreateFails, Stage
    <3>2. Moved(r, stage)
      BY <2>1, <3>1, GotoMoves DEF IInv
    <3> QED
      BY <2>1, <3>2, MakersStay, Invisible DEF Moved
  <2> QED
    BY <2>2, <2>3
\* A request of another kind goes on, or ends, without making or unmaking a maker.
<1>5. ASSUME NEW r \in Request, Active(r), op[r].kind # "create",
             End(r) \/ \E stage \in Stage : Goto(r, stage)
      PROVE  Makers' = Makers
  <2>1. CASE End(r)
    BY <1>5, <2>1, EndEnds, MakersStay DEF IInv, Ended
  <2>2. CASE \E stage \in Stage : Goto(r, stage)
    BY <1>5, <2>2, GotoMoves, MakersStay DEF IInv, Moved
  <2> QED
    BY <1>5, <2>1, <2>2
<1>6. ASSUME NEW r \in Request, StopConsumer(r) PROVE RegistryStep
  <2>1. Active(r) /\ op[r].kind = "delete" /\ Goto(r, "unqueue")
    BY <1>6, AtActive DEF IInv, StopConsumer, At
  <2>2. Servers' = [Servers EXCEPT ![op[r].tenant] = @ \ {op[r].proc}]
    BY <1>6, <2>1, RemovalLeaves DEF IInv, StopConsumer, Active
  <2>3. Makers' = Makers
    BY <1>5, <2>1 DEF Stage
  <2> QED
    BY <1>6, <2>1, <2>2, <2>3 DEF RegistryStep, StopConsumer, Active, dbVars, history
<1>7. ASSUME NEW r \in Request, SoftDelete(r) PROVE RegistryStep
  <2>1. Active(r) /\ op[r].kind = "delete" /\ op[r].at = "row" /\ End(r)
    BY <1>7, AtActive DEF IInv, SoftDelete, At
  <2>2. op[r].proc \notin Servers[op[r].tenant]
    BY <2>1 DEF IInv, OthersOK, Active, Servers
  <2>3. Servers' = Servers
    BY <1>7 DEF SoftDelete, tmVars, Servers
  <2>4. Makers' = Makers
    BY <1>5, <2>1
  <2>5. Creates(op[r].proc, op[r].tenant) <=> op[r].proc \in Makers[op[r].tenant]
    BY <2>1 DEF Makers, Active
  <2>6. \/ UNCHANGED <<row, deletedBy>>
        \/ /\ row[op[r].tenant] # "absent"
           /\ row' = [row EXCEPT ![op[r].tenant] = "deleted"]
           /\ deletedBy' = IF op[r].proc \in Makers[op[r].tenant] THEN deletedBy
                           ELSE [deletedBy EXCEPT ![op[r].tenant] = @ \cup {op[r].proc}]
    BY <1>7, <2>5 DEF SoftDelete
  <2> QED
    BY <2>1, <2>2, <2>3, <2>4, <2>6 DEF RegistryStep, Active
<1>8. ASSUME NEW r \in Request, Resize(r) PROVE RegistryStep
  <2>1. Active(r) /\ op[r].kind = "update" /\ End(r) /\ UNCHANGED <<row, deletedBy>>
    BY <1>8, AtActive DEF IInv, Resize, At, dbVars, history
  <2>2. op[r].count \in Count
    BY <2>1 DEF IInv, OthersOK
  <2>3. Makers' = Makers
    BY <1>5, <2>1
  <2>4. CASE pool' = pool
    BY <2>1, <2>3, <2>4, Invisible
  <2>5. CASE pool[op[r].proc][op[r].tenant] # NoCount
             /\ pool' = [pool EXCEPT ![op[r].proc][op[r].tenant] = op[r].count]
    <3>1. Servers' = [Servers EXCEPT ![op[r].tenant] = @ \cup {op[r].proc}]
      BY <2>1, <2>2, <2>5, EntryJoins DEF IInv, Active
    <3>2. op[r].proc \in Servers[op[r].tenant]
      BY <2>1, <2>5 DEF Active, Servers
    <3>3. Servers' = Servers
      BY <2>1, <3>1, <3>2 DEF Active, Servers
    <3> QED
      BY <2>1, <2>3, <3>3 DEF RegistryStep
  <2> QED
    BY <1>8, <2>4, <2>5 DEF Resize
<1>9. ASSUME NEW r \in Request,
             \/ DeleteTenantQueue(r) \/ UpdateConfig(r) \/ InsertMessage(r)
             \/ RouteMessage(r) \/ LockDelete(r) \/ LockUpdate(r)
      PROVE  RegistryStep
  <2>1. Active(r) /\ op[r].kind # "create" /\ UNCHANGED <<row, pool, deletedBy>>
    BY <1>9, AtActive
    DEF IInv, At, DeleteTenantQueue, UpdateConfig, InsertMessage, RouteMessage, LockDelete,
        LockUpdate, Lock, dbVars, tmVars, history
  <2>2. End(r) \/ \E stage \in Stage : Goto(r, stage)
    BY <1>9
    DEF DeleteTenantQueue, UpdateConfig, InsertMessage, RouteMessage, LockDelete, LockUpdate,
        Lock, Stage
  <2> QED
    BY <1>5, <2>1, <2>2, Invisible
<1>10. ASSUME NEW r \in Request, NEW p \in Proc,
              BeginDelete(r, p) \/ BeginUpdate(r, p) \/ BeginPublish(r, p)
       PROVE  RegistryStep
  <2>1. PICK k \in {"delete", "update", "publish"}, stage \in Stage, t \in Tenant,
             n \in Count \cup {NoCount} : Begin(r, p, k, stage, t, n)
    BY <1>10 DEF BeginDelete, BeginUpdate, BeginPublish, Stage
  <2>2. Begun(r, p, k, stage, t, n)
    BY <2>1, BeginBegins DEF IInv
  <2>3. Makers' = Makers
    BY <2>1, <2>2, MakersStay DEF Begun
  <2>4. UNCHANGED <<row, pool, deletedBy>>
    BY <1>10 DEF BeginDelete, BeginUpdate, BeginPublish, dbVars, tmVars, history
  <2> QED
    BY <2>3, <2>4, Invisible
<1>11. ASSUME NEW p \in Proc, RestoreConsumer(p) PROVE RegistryStep
  <2>1. declared[p] \in Tenant /\ row[declared[p]] # "absent"
    BY <1>11 DEF IInv, TypeOK, AbsentOK, RestoreConsumer
  <2>2. UNCHANGED <<row, op, deletedBy>>
    BY <1>11 DEF RestoreConsumer, dbVars, history
  <2>3. Makers' = Makers
    BY <2>2 DEF Makers, Creates
  <2>4. CASE pool' = pool
    BY <2>2, <2>3, <2>4, Invisible
  <2>5. CASE pool' = [pool EXCEPT ![p][declared[p]] = DefaultCount]
    <3>1. Servers' = [Servers EXCEPT ![declared[p]] = @ \cup {p}]
      BY <2>1, <2>5, EntryJoins DEF IInv
    <3>2. p \notin deletedBy[declared[p]]
      BY <2>1 DEF IInv, DeletedOK
    <3> QED
      BY <2>1, <2>2, <2>3, <3>1, <3>2 DEF RegistryStep
  <2> QED
    BY <1>11, <2>4, <2>5 DEF RestoreConsumer, StartConsumer, tmVars
<1>12. ASSUME NEW p \in Proc, StopAllConsumers(p) \/ Exit(p) \/ Kill(p) PROVE RegistryStep
  <2>1. /\ UNCHANGED <<row, deletedBy>>
        /\ pool' = [pool EXCEPT ![p] = [t \in Tenant |-> NoCount]]
    BY <1>12 DEF StopAllConsumers, Exit, Kill, Ends, dbVars
  <2>2. Servers' = [t \in Tenant |-> Servers[t] \ {p}]
    BY <2>1 DEF IInv, TypeOK, Servers
  <2>3. CASE UNCHANGED op
    <3>1. Makers' = Makers
      BY <2>3 DEF Makers, Creates
    <3> QED
      BY <2>1, <2>2, <3>1 DEF RegistryStep
  <2>4. CASE op' = [r \in Request |-> IF op[r].proc = p THEN Idle ELSE op[r]]
    <3>1. ASSUME NEW q \in Proc, NEW t \in Tenant
          PROVE  Creates(q, t)' <=> Creates(q, t) /\ q # p
      BY <2>4 DEF Creates, Idle
    <3>2. Makers' = [t \in Tenant |-> Makers[t] \ {p}]
      BY <3>1 DEF Makers
    <3> QED
      BY <2>1, <2>2, <3>2 DEF RegistryStep
  <2> QED
    BY <1>12, <2>3, <2>4 DEF StopAllConsumers, Exit, Kill, Ends
<1>13. ASSUME UNCHANGED <<row, pool, deletedBy, op>> PROVE RegistryStep
  BY <1>13, Invisible DEF Makers, Creates
<1>14. ASSUME NEW t \in Tenant, InsertConfig(t) PROVE RegistryStep
  BY <1>13, <1>14 DEF InsertConfig, tmVars, history
<1>15. ASSUME NEW p \in Proc,
              \/ RestoreQueue(p) \/ Restored(p) \/ Boot(p) \/ ControlEnds(p) \/ Signal(p)
              \/ CloseServer(p) \/ CancelConsumer(p) \/ LoseConnection(p)
       PROVE  RegistryStep
  BY <1>13, <1>15
  DEF RestoreQueue, Restored, Boot, ControlEnds, Signal, CloseServer, Move, CancelConsumer,
      LoseConnection, dbVars, tmVars, history
<1>16. CASE UNCHANGED vars
  BY <1>13, <1>16, StepIsRegistry DEF vars
<1>17. CASE Next
  <2>1. ASSUME NEW r \in Request, Advance(r) \/ WaitForMutex(r) PROVE RegistryStep
    BY <1>2, <1>3, <1>4, <1>6, <1>7, <1>8, <1>9, <2>1 DEF Advance, WaitForMutex
  <2>2. ASSUME NEW p \in Proc,
               \/ Restoring(p)
               \/ CancelConsumer(p) \/ LoseConnection(p)
               \/ Boot(p) \/ ControlEnds(p) \/ Signal(p) \/ StopAllConsumers(p)
               \/ CloseServer(p) \/ Exit(p) \/ Kill(p)
        PROVE  RegistryStep
    BY <1>11, <1>12, <1>15, <2>2 DEF Restoring
  <2>3. RegistryStep
    BY <1>10, <1>14, <1>17, <2>1, <2>2, CreateOpens DEF Next
  <2> QED
    BY <2>3, StepIsRegistry
<1> QED
  BY <1>16, <1>17

(* The life cycle implements the registry: a tenant is absent, then live,  *)
(* then deleted, is served only once registered, and a process that has    *)
(* deleted it, unless it was still creating it, does not serve it then or  *)
(* later.                                                                  *)
THEOREM Refinement == Spec => IsRegistry
<1>1. Init => Registry!Init
  BY DEF Init, Registry!Init, Creates, Idle
<1>2. IInv /\ [Next]_vars => [Registry!Next]_Registry!vars
  BY StepRefines
<1> QED
  BY <1>1, <1>2, Invariant, PTL DEF Spec, IsRegistry, Registry!Spec
=============================================================================
