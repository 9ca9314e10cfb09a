--------------------------- MODULE TenantLifecycle ---------------------------
(***************************************************************************)
(* Tenants in the database, in the broker and in the TenantManager of each *)
(* process: creation, deletion and configuration step by step, restoring   *)
(* at the start of a worker, the loss of subscriptions and connections,    *)
(* the shutdown sequence, and what becomes of a message posted meanwhile.  *)
(*                                                                         *)
(* The requests of the API process run concurrently; a worker handles one  *)
(* control message at a time.  tm.mutex is held over calls to database and *)
(* broker, so it is a variable.  WorkerPool says what happens inside a     *)
(* consumer, MessageFlow what happens to a message that was routed.        *)
(***************************************************************************)
EXTENDS Integers, FiniteSets

CONSTANTS
    Tenant,        \* the identifiers there are; uuid.NewString yields an unused one
    Api, Worker,   \* the API process and the set of worker processes
    Request,       \* requests and control messages in progress at one time
    Nobody,        \* no request, no tenant, no process
    Count,         \* worker counts that are asked for, by whoever asks: any integers
    NoCount,       \* no consumer, no configuration, no count
    DefaultCount,  \* tenants.current_workers: written once, by CreateTenant
    MaxRequests,   \* requests in all
    MaxFaults,     \* calls to the database or the broker that fail, links that are lost
    MaxBoots       \* starts of processes

Proc == {Api} \cup Worker

ASSUME LifecycleAssumption ==
    /\ Api \notin Worker
    /\ Nobody \notin Request \cup Tenant \cup Proc
    /\ Count \subseteq Int
    /\ NoCount \notin Count
    /\ DefaultCount \in Count /\ DefaultCount > 0
    /\ MaxRequests \in Nat
    /\ MaxFaults \in Nat
    /\ MaxBoots \in Nat

VARIABLES
    row,         \* tenants: status and deleted_at
    partition,   \* tenants whose partition of messages exists
    config,      \* the worker count in tenant_configs, if there is a row
    queue,       \* tenants whose queue exists in the broker
    phase,       \* where main is, in each process
    restore,     \* tenants a starting worker has read and not started yet
    declared,    \* the tenant whose queue it has just declared
    linked,      \* processes whose connection to the broker is open
    pool,        \* tm.consumers: the WorkerCount of each consumer registered
    subscribed,  \* consumers the broker still feeds
    mutex,       \* the request that holds tm.mutex
    openTx,      \* transactions a process has begun and not ended
    op,          \* what each request is doing
    sent, faults, boots,
    answer,      \* what the client of CreateTenant was told
    maker,       \* the process that created a tenant and has not stopped its consumers since
    doomed,      \* tenants somebody has asked to delete
    deletedBy,   \* processes that reported a tenant deleted
    updater,     \* the process that wrote config last, until it ends or creates the consumer
    unrouted,    \* created tenants a message was accepted for and dropped, for want of a queue
    cut          \* subscriptions each process has lost to the broker or with its connection

dbVars == <<row, partition, config>>
procVars == <<phase, restore, declared, linked>>
tmVars == <<pool, subscribed>>
history == <<answer, maker, doomed, deletedBy, updater, unrouted, cut>>
vars == <<row, partition, config, queue, phase, restore, declared, linked, pool, subscribed,
          mutex, openTx, op, sent, faults, boots, answer, maker, doomed, deletedBy,
          updater, unrouted, cut>>

Phase == {"down", "restoring", "serving", "deaf", "signalled", "stopped", "draining"}

\* create: insert, partition, commit, declare, consume; delete: lock, stop,
\* unqueue, row; update: lock, config, resize; publish: insert, route.
Op == [kind : {"create", "delete", "update", "publish"},
       at : {"insert", "partition", "commit", "declare", "consume", "lock", "stop",
             "unqueue", "row", "config", "resize", "route"},
       proc : Proc, tenant : Tenant, count : Count \cup {NoCount}]

Idle == [kind |-> "idle", at |-> "end", proc |-> Nobody, tenant |-> Nobody, count |-> NoCount]

TypeOK ==
    /\ row \in [Tenant -> {"absent", "live", "deleted"}]
    /\ partition \subseteq Tenant
    /\ config \in [Tenant -> Count \cup {NoCount}]
    /\ queue \subseteq Tenant
    /\ phase \in [Proc -> Phase]
    /\ restore \in [Proc -> SUBSET Tenant]
    /\ declared \in [Proc -> Tenant \cup {Nobody}]
    /\ linked \subseteq Proc
    /\ pool \in [Proc -> [Tenant -> Count \cup {NoCount}]]
    /\ subscribed \in [Proc -> SUBSET Tenant]
    /\ mutex \in [Proc -> Request \cup {Nobody}]
    /\ openTx \in [Proc -> SUBSET Tenant]
    /\ op \in [Request -> Op \cup {Idle}]
    /\ sent \in 0 .. MaxRequests
    /\ faults \in 0 .. MaxFaults
    /\ boots \in 0 .. MaxBoots
    /\ answer \in [Tenant -> {"none", "created", "error"}]
    /\ maker \in [Tenant -> Proc \cup {Nobody}]
    /\ doomed \subseteq Tenant
    /\ deletedBy \in [Tenant -> SUBSET Proc]
    /\ updater \in [Tenant -> Proc \cup {Nobody}]
    /\ unrouted \subseteq Tenant
    /\ cut \in [Proc -> SUBSET Tenant]

Init ==
    /\ row = [t \in Tenant |-> "absent"]
    /\ partition = {}
    /\ config = [t \in Tenant |-> NoCount]
    /\ queue = {}
    /\ phase = [p \in Proc |-> "down"]
    /\ restore = [p \in Proc |-> {}]
    /\ declared = [p \in Proc |-> Nobody]
    /\ linked = {}
    /\ pool = [p \in Proc |-> [t \in Tenant |-> NoCount]]
    /\ subscribed = [p \in Proc |-> {}]
    /\ mutex = [p \in Proc |-> Nobody]
    /\ openTx = [p \in Proc |-> {}]
    /\ op = [r \in Request |-> Idle]
    /\ sent = 0
    /\ faults = 0
    /\ boots = 0
    /\ answer = [t \in Tenant |-> "none"]
    /\ maker = [t \in Tenant |-> Nobody]
    /\ doomed = {}
    /\ deletedBy = [t \in Tenant |-> {}]
    /\ updater = [t \in Tenant |-> Nobody]
    /\ unrouted = {}
    /\ cut = [p \in Proc |-> {}]

-----------------------------------------------------------------------------
(* Requests *)

Fault == faults < MaxFaults /\ faults' = faults + 1
NoFault == UNCHANGED faults
\* A call fails when it has to, and sometimes when it would not have to.
Fails(possible) == IF possible THEN Fault ELSE NoFault

At(r, k, s) == op[r].kind = k /\ op[r].at = s
Goto(r, s) == op' = [op EXCEPT ![r].at = s]
End(r) == op' = [op EXCEPT ![r] = Idle]

InProgress(p) == {r \in Request : op[r].proc = p}
Creates(p, t) == \E r \in Request : op[r].kind = "create" /\ op[r].tenant = t /\ op[r].proc = p
\* An identifier nobody has used, not even in vain.
Unused(t) ==
    /\ row[t] = "absent" /\ answer[t] = "none" /\ t \notin doomed
    /\ \A r \in Request : op[r].tenant # t
\* Whom a request may be about: an identifier is known to others once its row
\* is there, long before the creation is over, and one without a row is made up.
Named(t) == row[t] # "absent" \/ \A p \in Proc : ~Creates(p, t)

\* The API accepts requests until Server.Shutdown is called; the control loop
\* of a worker takes a message when it is done with the last one.
Accepts(p) ==
    IF p = Api THEN phase[p] \in {"serving", "signalled", "stopped"}
    ELSE phase[p] = "serving" /\ InProgress(p) = {}

Begin(r, p, k, s, t, n) ==
    /\ op[r] = Idle
    /\ Accepts(p)
    /\ sent < MaxRequests /\ sent' = sent + 1
    /\ op' = [op EXCEPT ![r] = [kind |-> k, at |-> s, proc |-> p, tenant |-> t, count |-> n]]

\* StartConsumer once the queue is there: map entry, pool, subscription.
StartConsumer(p, t, n) ==
    /\ mutex[p] = Nobody
    /\ p \in linked /\ t \in queue
    /\ pool' = [pool EXCEPT ![p][t] = n]
    /\ subscribed' = [subscribed EXCEPT ![p] = @ \cup {t}]

-----------------------------------------------------------------------------
(* CreateTenant *)

\* The error paths of CreateTenant return at once: nothing done so far is
\* undone and a transaction that was begun stays open.
CreateFails(r) ==
    /\ End(r)
    /\ answer' = [answer EXCEPT ![op[r].tenant] = "error"]
    /\ UNCHANGED <<dbVars, queue, procVars, tmVars, mutex, openTx, sent, boots, maker,
                   doomed, deletedBy, updater, unrouted, cut>>

\* BeginTx comes before everything else; if it fails, so does the request.
BeginCreate(r, p) ==
    \E t \in Tenant :
      /\ Unused(t)
      /\ \/ /\ NoFault
            /\ Begin(r, p, "create", "insert", t, DefaultCount)
            /\ openTx' = [openTx EXCEPT ![p] = @ \cup {t}]
            /\ UNCHANGED answer
         \/ /\ Fault
            /\ op[r] = Idle /\ Accepts(p)
            /\ sent < MaxRequests /\ sent' = sent + 1
            /\ answer' = [answer EXCEPT ![t] = "error"]
            /\ UNCHANGED <<op, openTx>>
      /\ UNCHANGED <<dbVars, queue, procVars, tmVars, mutex, boots, maker, doomed, deletedBy,
                     updater, unrouted, cut>>

\* Mutant: the insert waits in the transaction for the commit, the partition does not.
InsertInTx(r) ==
    /\ At(r, "create", "insert")
    /\ Goto(r, "partition")
    /\ UNCHANGED <<dbVars, queue, procVars, tmVars, mutex, openTx, sent, faults, boots, history>>

\* The insert goes to tm.db, not to the transaction: it is visible at once.
InsertTenant(r) ==
    /\ At(r, "create", "insert")
    /\ \/ /\ NoFault
          /\ row' = [row EXCEPT ![op[r].tenant] = "live"]
          /\ Goto(r, "partition")
          /\ UNCHANGED <<partition, config, queue, procVars, tmVars, mutex, openTx, sent, boots, history>>
       \/ Fault /\ CreateFails(r)

CreatePartition(r) ==
    /\ At(r, "create", "partition")
    /\ \/ /\ NoFault
          /\ partition' = partition \cup {op[r].tenant}
          /\ Goto(r, "commit")
          /\ UNCHANGED <<row, config, queue, procVars, tmVars, mutex, openTx, sent, boots, history>>
       \/ Fault /\ CreateFails(r)

\* Commit ends the transaction whether it succeeds or not.
CommitTx(r) ==
    LET p == op[r].proc  t == op[r].tenant IN
    /\ At(r, "create", "commit")
    /\ openTx' = [openTx EXCEPT ![p] = @ \ {t}]
    /\ \/ NoFault /\ Goto(r, "declare") /\ UNCHANGED answer
       \/ Fault /\ End(r) /\ answer' = [answer EXCEPT ![t] = "error"]
    /\ UNCHANGED <<dbVars, queue, procVars, tmVars, mutex, sent, boots, maker, doomed,
                   deletedBy, updater, unrouted, cut>>

DeclareQueue(r) ==
    /\ At(r, "create", "declare")
    /\ \/ /\ NoFault
          /\ op[r].proc \in linked
          /\ queue' = queue \cup {op[r].tenant}
          /\ Goto(r, "consume")
          /\ UNCHANGED <<dbVars, procVars, tmVars, mutex, openTx, sent, boots, history>>
       \/ Fails(op[r].proc \in linked) /\ CreateFails(r)

\* Mutant: the error of StartConsumer is ignored.
ConsumeUnchecked(r) ==
    LET p == op[r].proc  t == op[r].tenant IN
    /\ At(r, "create", "consume")
    /\ \/ NoFault /\ StartConsumer(p, t, op[r].count)
       \/ Fails(p \in linked /\ t \in queue) /\ UNCHANGED tmVars
    /\ End(r)
    /\ answer' = [answer EXCEPT ![t] = "created"]
    /\ maker' = [maker EXCEPT ![t] = p]
    /\ UNCHANGED <<dbVars, queue, procVars, mutex, openTx, sent, boots, doomed,
                   deletedBy, updater, unrouted, cut>>

\* The last step, which also answers the client; consuming a queue that is gone
\* is an error of the broker.  Nothing asks whether the tenant has been deleted or
\* its configuration changed meanwhile.
ConsumeQueue(r) ==
    LET p == op[r].proc  t == op[r].tenant IN
    /\ At(r, "create", "consume")
    /\ mutex[p] = Nobody
    /\ \/ /\ NoFault
          /\ StartConsumer(p, t, op[r].count)
          /\ End(r)
          /\ answer' = [answer EXCEPT ![t] = "created"]
          /\ maker' = [maker EXCEPT ![t] = p]
          /\ updater' = [updater EXCEPT ![t] = IF @ = p THEN Nobody ELSE @]
          /\ UNCHANGED <<dbVars, queue, procVars, mutex, openTx, sent, boots, doomed,
                         deletedBy, unrouted, cut>>
       \/ Fails(p \in linked /\ t \in queue) /\ CreateFails(r)

-----------------------------------------------------------------------------
(* DeleteTenant *)

BeginDelete(r, p) ==
    \E t \in Tenant :
      /\ Named(t)
      /\ Begin(r, p, "delete", "lock", t, NoCount)
      /\ doomed' = doomed \cup {t}
      /\ UNCHANGED <<dbVars, queue, procVars, tmVars, mutex, openTx, faults, boots,
                     answer, maker, deletedBy, updater, unrouted, cut>>

Lock(r, k, s) ==
    /\ At(r, k, "lock")
    /\ mutex[op[r].proc] = Nobody
    /\ mutex' = [mutex EXCEPT ![op[r].proc] = r]
    /\ Goto(r, s)
    /\ UNCHANGED <<dbVars, queue, procVars, tmVars, openTx, faults, sent, boots, history>>

LockDelete(r) == Lock(r, "delete", "stop")

\* Mutant: the consumer is stopped and stays in the map.
StopWithoutRemoving(r) ==
    LET p == op[r].proc  t == op[r].tenant IN
    /\ At(r, "delete", "stop")
    /\ subscribed' = [subscribed EXCEPT ![p] = @ \ {t}]
    /\ Goto(r, "unqueue")
    /\ UNCHANGED <<dbVars, queue, procVars, pool, mutex, openTx, sent, faults, boots, history>>

StopConsumer(r) ==
    LET p == op[r].proc  t == op[r].tenant IN
    /\ At(r, "delete", "stop")
    /\ pool' = [pool EXCEPT ![p][t] = NoCount]
    /\ subscribed' = [subscribed EXCEPT ![p] = @ \ {t}]
    /\ Goto(r, "unqueue")
    /\ UNCHANGED <<dbVars, queue, procVars, mutex, openTx, faults, sent, boots, history>>

\* A failure is logged and forgotten.  Deleting the queue cancels every
\* subscription to it, but not the consumers of other processes, which stay in
\* their maps.
DeleteTenantQueue(r) ==
    LET t == op[r].tenant IN
    /\ At(r, "delete", "unqueue")
    /\ \/ /\ NoFault
          /\ op[r].proc \in linked
          /\ queue' = queue \ {t}
          /\ subscribed' = [p \in Proc |-> subscribed[p] \ {t}]
       \/ Fails(op[r].proc \in linked) /\ UNCHANGED <<queue, subscribed>>
    /\ Goto(r, "row")
    /\ UNCHANGED <<dbVars, procVars, pool, mutex, openTx, sent, boots, history>>

Unlock(p) == mutex' = [mutex EXCEPT ![p] = Nobody]

\* Mutant: the row is given the status alone.
StatusOnly(r) ==
    LET p == op[r].proc  t == op[r].tenant IN
    /\ At(r, "delete", "row")
    /\ row' = [row EXCEPT ![t] = "stopped"]
    /\ Unlock(p)
    /\ End(r)
    /\ UNCHANGED <<partition, config, queue, procVars, tmVars, openTx, sent, faults, boots,
                   answer, maker, doomed, deletedBy, updater, unrouted, cut>>

\* The update does not ask whether the row is deleted already: a second deletion
\* succeeds like the first.  It does not end a creation that is under way in the
\* same process either, which is then not noted as done with the tenant.
SoftDelete(r) ==
    LET p == op[r].proc  t == op[r].tenant IN
    /\ At(r, "delete", "row")
    /\ \/ /\ NoFault
          /\ row[t] # "absent"
          /\ row' = [row EXCEPT ![t] = "deleted"]
          /\ deletedBy' = IF Creates(p, t) THEN deletedBy
                          ELSE [deletedBy EXCEPT ![t] = @ \cup {p}]
       \/ /\ Fails(row[t] # "absent")
          /\ UNCHANGED <<row, deletedBy>>
    /\ Unlock(p)
    /\ End(r)
    /\ UNCHANGED <<partition, config, queue, procVars, tmVars, openTx, sent, boots, answer,
                   maker, doomed, updater, unrouted, cut>>

-----------------------------------------------------------------------------
(* UpdateConcurrency *)

\* The handler checks nothing, a worker that the count is positive.
BeginUpdate(r, p) ==
    \E t \in Tenant, n \in Count :
      /\ Named(t)
      /\ p \in Worker => n > 0
      /\ Begin(r, p, "update", "lock", t, n)
      /\ UNCHANGED <<dbVars, queue, procVars, tmVars, mutex, openTx, faults, boots, history>>

\* Mutant: an update takes no lock.
LockNothing(r) ==
    /\ At(r, "update", "lock")
    /\ Goto(r, "config")
    /\ UNCHANGED <<dbVars, queue, procVars, tmVars, mutex, openTx, sent, faults, boots, history>>

LockUpdate(r) == Lock(r, "update", "config")

\* Mutant: the early return does not release the mutex.
UpdateKeepsLock(r) ==
    LET p == op[r].proc  t == op[r].tenant IN
    /\ At(r, "update", "config")
    /\ \/ /\ NoFault
          /\ config[t] # NoCount
          /\ config' = [config EXCEPT ![t] = op[r].count]
          /\ updater' = [updater EXCEPT ![t] = p]
          /\ Goto(r, "resize")
       \/ /\ Fails(config[t] # NoCount)
          /\ End(r)
          /\ UNCHANGED <<config, updater>>
    /\ UNCHANGED <<row, partition, queue, procVars, tmVars, mutex, openTx, sent, boots,
                   answer, maker, doomed, deletedBy, unrouted, cut>>

\* UpdateAll; without a row to update it is an error.
UpdateConfig(r) ==
    LET p == op[r].proc  t == op[r].tenant IN
    /\ At(r, "update", "config")
    /\ \/ /\ NoFault
          /\ config[t] # NoCount
          /\ config' = [config EXCEPT ![t] = op[r].count]
          /\ updater' = [updater EXCEPT ![t] = p]
          /\ Goto(r, "resize")
          /\ UNCHANGED mutex
       \/ /\ Fails(config[t] # NoCount)
          /\ End(r) /\ Unlock(p)
          /\ UNCHANGED <<config, updater>>
    /\ UNCHANGED <<row, partition, queue, procVars, tmVars, openTx, sent, boots, answer,
                   maker, doomed, deletedBy, unrouted, cut>>

\* The consumer is looked up only now; without one it is an error, and config
\* has changed.  What a resize does to the pool is in WorkerPool.
Resize(r) ==
    LET p == op[r].proc  t == op[r].tenant IN
    /\ At(r, "update", "resize")
    /\ IF pool[p][t] = NoCount THEN UNCHANGED pool
       ELSE pool' = [pool EXCEPT ![p][t] = op[r].count]
    /\ End(r) /\ Unlock(p)
    /\ UNCHANGED <<dbVars, queue, procVars, subscribed, openTx, faults, sent, boots, history>>

\* Nothing in the program inserts a configuration; an operator does.
InsertConfig(t) ==
    /\ row[t] # "absent" /\ config[t] = NoCount
    /\ config' = [config EXCEPT ![t] = DefaultCount]
    /\ UNCHANGED <<row, partition, queue, procVars, tmVars, mutex, openTx, op, faults,
                   sent, boots, history>>

-----------------------------------------------------------------------------
(* PublishMessage, as far as tenants matter *)

BeginPublish(r, p) ==
    \E t \in Tenant :
      /\ p = Api /\ Named(t)
      /\ Begin(r, p, "publish", "insert", t, NoCount)
      /\ UNCHANGED <<dbVars, queue, procVars, tmVars, mutex, openTx, faults, boots, history>>

\* Without a partition the insert has nowhere to go.  The row may be deleted.
InsertMessage(r) ==
    /\ At(r, "publish", "insert")
    /\ \/ NoFault /\ op[r].tenant \in partition /\ Goto(r, "route")
       \/ Fails(op[r].tenant \in partition) /\ End(r)
    /\ UNCHANGED <<dbVars, queue, procVars, tmVars, mutex, openTx, sent, boots, history>>

\* A publication that is not mandatory succeeds without a queue, too: the client
\* is told "queued".
RouteMessage(r) ==
    LET t == op[r].tenant IN
    /\ At(r, "publish", "route")
    /\ \/ /\ NoFault
          /\ op[r].proc \in linked
          /\ unrouted' = IF t \in queue \/ answer[t] # "created" THEN unrouted
                         ELSE unrouted \cup {t}
       \/ Fails(op[r].proc \in linked) /\ UNCHANGED unrouted
    /\ End(r)
    /\ UNCHANGED <<dbVars, queue, procVars, tmVars, mutex, openTx, sent, boots, answer, maker,
                   doomed, deletedBy, updater, cut>>

-----------------------------------------------------------------------------
(* Processes *)

\* Mutant: the query does not leave out deleted tenants.
BootAll(p) ==
    /\ phase[p] = "down" /\ boots < MaxBoots
    /\ boots' = boots + 1
    /\ phase' = [phase EXCEPT ![p] = IF p = Api THEN "serving" ELSE "restoring"]
    /\ restore' = [restore EXCEPT ![p] = IF p = Api THEN {} ELSE {t \in Tenant : row[t] # "absent"}]
    /\ linked' = linked \cup {p}
    /\ UNCHANGED <<dbVars, queue, declared, tmVars, mutex, openTx, op, sent, faults, history>>

\* Without a connection to the broker a process does not start.  A worker reads
\* the live tenants once, before anything else.
Boot(p) ==
    /\ phase[p] = "down" /\ boots < MaxBoots
    /\ boots' = boots + 1
    /\ phase' = [phase EXCEPT ![p] = IF p = Api THEN "serving" ELSE "restoring"]
    /\ restore' = [restore EXCEPT ![p] = IF p = Api THEN {} ELSE {t \in Tenant : row[t] = "live"}]
    /\ linked' = linked \cup {p}
    /\ UNCHANGED <<dbVars, queue, declared, tmVars, mutex, openTx, op, sent, faults, history>>

\* StartTenant: the queue is declared, that is created if it is not there; then
\* the consumer is started.  An error is logged and the next tenant is tried.
RestoreQueue(p) ==
    /\ declared[p] = Nobody
    /\ \E t \in restore[p] :
         /\ restore' = [restore EXCEPT ![p] = @ \ {t}]
         /\ \/ /\ NoFault
               /\ p \in linked
               /\ queue' = queue \cup {t}
               /\ declared' = [declared EXCEPT ![p] = t]
            \/ Fails(p \in linked) /\ UNCHANGED <<queue, declared>>
    /\ UNCHANGED <<dbVars, phase, linked, tmVars, mutex, openTx, op, sent, boots, history>>

RestoreConsumer(p) ==
    LET t == declared[p] IN
    /\ t # Nobody
    /\ declared' = [declared EXCEPT ![p] = Nobody]
    /\ \/ NoFault /\ StartConsumer(p, t, DefaultCount)
       \/ Fails(p \in linked /\ t \in queue) /\ UNCHANGED tmVars
    /\ UNCHANGED <<dbVars, queue, phase, restore, linked, mutex, openTx, op, sent, boots, history>>

Restored(p) ==
    /\ phase[p] = "restoring" /\ restore[p] = {} /\ declared[p] = Nobody
    /\ phase' = [phase EXCEPT ![p] = "serving"]
    /\ UNCHANGED <<dbVars, queue, restore, declared, linked, tmVars, mutex, openTx, op, faults,
                   sent, boots, history>>

Move(p, from, to) ==
    /\ phase[p] = from
    /\ phase' = [phase EXCEPT ![p] = to]
    /\ UNCHANGED <<dbVars, queue, restore, declared, linked, tmVars, mutex, openTx, op, faults,
                   sent, boots, history>>

\* Only when its control channel is closed a worker gets to wait for a signal.
ControlEnds(p) == p \in Worker /\ InProgress(p) = {} /\ Move(p, "serving", "deaf")

Signal(p) == Move(p, IF p = Api THEN "serving" ELSE "deaf", "signalled")

\* Mutant: queues are declared to be deleted with their last consumer.
StopAllAutoDelete(p) ==
    /\ phase[p] = "signalled" /\ mutex[p] = Nobody
    /\ phase' = [phase EXCEPT ![p] = "stopped"]
    /\ pool' = [pool EXCEPT ![p] = [t \in Tenant |-> NoCount]]
    /\ subscribed' = [subscribed EXCEPT ![p] = {}]
    /\ queue' = UNION {subscribed[q] : q \in Proc \ {p}}
    /\ maker' = [t \in Tenant |-> IF maker[t] = p THEN Nobody ELSE maker[t]]
    /\ UNCHANGED <<dbVars, restore, declared, linked, mutex, openTx, op, faults, sent, boots,
                   answer, doomed, deletedBy, updater, unrouted, cut>>

StopAllConsumers(p) ==
    /\ phase[p] = "signalled" /\ mutex[p] = Nobody
    /\ phase' = [phase EXCEPT ![p] = "stopped"]
    /\ pool' = [pool EXCEPT ![p] = [t \in Tenant |-> NoCount]]
    /\ subscribed' = [subscribed EXCEPT ![p] = {}]
    /\ maker' = [t \in Tenant |-> IF maker[t] = p THEN Nobody ELSE maker[t]]
    /\ UNCHANGED <<dbVars, queue, restore, declared, linked, mutex, openTx, op, faults, sent, boots,
                   answer, doomed, deletedBy, updater, unrouted, cut>>

\* wg.Wait returns at once, nothing is ever added to it.
CloseServer(p) == Move(p, "stopped", "draining")

\* The process ends: its requests get no answer, the broker drops its
\* subscriptions, the database its transactions.
Ends(p) ==
    /\ phase' = [phase EXCEPT ![p] = "down"]
    /\ restore' = [restore EXCEPT ![p] = {}]
    /\ declared' = [declared EXCEPT ![p] = Nobody]
    /\ linked' = linked \ {p}
    /\ pool' = [pool EXCEPT ![p] = [t \in Tenant |-> NoCount]]
    /\ subscribed' = [subscribed EXCEPT ![p] = {}]
    /\ mutex' = [mutex EXCEPT ![p] = Nobody]
    /\ openTx' = [openTx EXCEPT ![p] = {}]
    /\ op' = [r \in Request |-> IF op[r].proc = p THEN Idle ELSE op[r]]
    /\ maker' = [t \in Tenant |-> IF maker[t] = p THEN Nobody ELSE maker[t]]
    /\ updater' = [t \in Tenant |-> IF updater[t] = p THEN Nobody ELSE updater[t]]
    /\ cut' = [cut EXCEPT ![p] = {}]
    /\ UNCHANGED <<dbVars, queue, faults, sent, boots, answer, doomed, deletedBy, unrouted>>

\* The broker cancels a consumer, or its channel breaks: runConsumer goes on with
\* a closed msgs, and the entry in the map stays.
CancelConsumer(p) ==
    \E t \in subscribed[p] :
      /\ Fault
      /\ subscribed' = [subscribed EXCEPT ![p] = @ \ {t}]
      /\ cut' = [cut EXCEPT ![p] = @ \cup {t}]
      /\ UNCHANGED <<dbVars, queue, procVars, pool, mutex, openTx, op, sent, boots, answer,
                     maker, doomed, deletedBy, updater, unrouted>>

\* Nothing opens a connection again that is lost, until the process is restarted.
LoseConnection(p) ==
    /\ p \in linked
    /\ Fault
    /\ linked' = linked \ {p}
    /\ subscribed' = [subscribed EXCEPT ![p] = {}]
    /\ cut' = [cut EXCEPT ![p] = @ \cup subscribed[p]]
    /\ UNCHANGED <<dbVars, queue, phase, restore, declared, pool, mutex, openTx, op, sent,
                   boots, answer, maker, doomed, deletedBy, updater, unrouted>>

\* Server.Shutdown waits for the requests that are being served.
Exit(p) == phase[p] = "draining" /\ InProgress(p) = {} /\ Ends(p)

Kill(p) == phase[p] # "down" /\ Ends(p)

-----------------------------------------------------------------------------

Advance(r) ==
    \/ InsertTenant(r) \/ CreatePartition(r) \/ CommitTx(r) \/ DeclareQueue(r)
    \/ StopConsumer(r) \/ DeleteTenantQueue(r) \/ SoftDelete(r)
    \/ UpdateConfig(r) \/ Resize(r)
    \/ InsertMessage(r) \/ RouteMessage(r)

WaitForMutex(r) == ConsumeQueue(r) \/ LockDelete(r) \/ LockUpdate(r)

Restoring(p) == RestoreQueue(p) \/ RestoreConsumer(p) \/ Restored(p)

Next ==
    \/ \E r \in Request :
          \/ Advance(r)
          \/ WaitForMutex(r)
          \/ \E p \in Proc :
                BeginCreate(r, p) \/ BeginDelete(r, p) \/ BeginUpdate(r, p) \/ BeginPublish(r, p)
    \/ \E t \in Tenant : InsertConfig(t)
    \/ \E p \in Proc :
          \/ Restoring(p)
          \/ CancelConsumer(p) \/ LoseConnection(p)
          \/ Boot(p) \/ ControlEnds(p) \/ Signal(p) \/ StopAllConsumers(p)
          \/ CloseServer(p) \/ Exit(p) \/ Kill(p)

Spec == Init /\ [][Next]_vars

-----------------------------------------------------------------------------
(* Properties *)

\* CreateTenant does the insert first: a tenant without a row has no partition,
\* no queue and no consumer anywhere, not even when several processes, restarts
\* and failures are involved (tenant_manager.go 82-103).
NothingWithoutRow ==
    \A t \in Tenant : row[t] = "absent" =>
        /\ t \notin partition \cup queue
        /\ \A p \in Proc : pool[p][t] = NoCount

\* A tenant whose creation was reported, and that nobody has asked to delete, has
\* a row, a partition and a queue; until its creator stops its consumers or ends,
\* it has the consumer registered, and subscribed unless the broker has cancelled
\* it or a channel or connection broke, after which nothing subscribes again -
\* whatever other requests, workers that restore, and failures do (61-110).
CreatedIsComplete ==
    \A t \in Tenant : (answer[t] = "created" /\ t \notin doomed) =>
        /\ row[t] = "live"
        /\ t \in partition \cap queue
        /\ \A p \in Proc : maker[t] = p =>
              pool[p][t] # NoCount /\ t \in subscribed[p] \cup cut[p]

\* A process that reported a tenant deleted, and was not still creating it, never
\* serves it again: neither a restart nor a request that was under way brings the
\* consumer back (112-158).  Processes that did not delete it may: a worker that
\* restores from a list it read before the deletion even creates the queue again.
DeletedStaysStopped ==
    \A t \in Tenant : \A p \in deletedBy[t] : pool[p][t] = NoCount

\* Database and pool change under one mutex: the consumer of the process that
\* wrote tenant_configs last has the count written there, also when several
\* updates run at a time, until the process ends; an update before the end of the
\* creation is lost on the consumer (160-218).
ConfigAgrees ==
    \A t \in Tenant, p \in Proc :
        (updater[t] = p /\ ~\E r \in Request : At(r, "update", "resize") /\ op[r].tenant = t
                                               /\ op[r].proc = p)
            => pool[p][t] \in {NoCount, config[t]}

\* A message the API answered "queued" for, of a tenant whose creation had been
\* reported, is dropped for want of a queue only if the tenant's deletion has been
\* asked for: neither failures nor restarts nor lost connections take the queue of
\* any other tenant, so the missing mandatory flag costs it nothing (message.go
\* 63, rabbitmq.go 43-64).
AcceptedIsRouted == unrouted \subseteq doomed

\* The mutex is held by a deletion or update past its lock, and by no other:
\* every return releases it, and its holder waits for nobody, so no order of
\* requests, failures and restarts leaves anyone waiting for ever (defer Unlock,
\* 113-114, 161-162).
MutexOwner ==
    \A p \in Proc, r \in Request :
        mutex[p] = r <=> /\ op[r].proc = p
                         /\ op[r].kind \in {"delete", "update"}
                         /\ op[r].at # "lock"

\* "Rollback tenant creation" (88-91): a tenant whose creation was answered
\* with an error is not live.
FailedCreationUndone ==
    \A t \in Tenant : answer[t] = "error" => row[t] # "live"

Registry == INSTANCE TenantRegistry WITH
    status <- row,
    makers <- [t \in Tenant |-> {p \in Proc : Creates(p, t)}],
    servers <- [t \in Tenant |-> {p \in Proc : pool[p][t] # NoCount}],
    retired <- deletedBy

\* The life cycle as its users see it: absent, live, deleted; served only once
\* registered; a process that deletes a tenant does not serve it at that moment,
\* and, unless it is still creating it, never again.
IsRegistry == Registry!Spec
=============================================================================
