----------------------- MODULE TenantLifecycleInvariant -----------------------
(***************************************************************************)
(* Proofs about TenantLifecycle for any number of tenants, workers,        *)
(* requests, failures and starts.  No property is inductive as it stands:  *)
(* what a step of a request may rely on is what its earlier steps did and  *)
(* what no other request can have undone since.  The inductive invariant   *)
(* says so, kind of request by kind of request; a lemma for each action    *)
(* shows that it is kept.                                                  *)
(***************************************************************************)
EXTENDS TenantLifecycle, TLAPS

-----------------------------------------------------------------------------
(* The inductive invariant *)

(* Until its row is inserted a tenant that is being created is nobody      *)
(* else's business; after that others may delete and configure it, but     *)
(* nobody else creates it, and nothing a creation has done so far is       *)
(* undone unless somebody has asked for the deletion.                      *)
CreationsOK ==
  \A r \in Request : op[r].kind = "create" =>
    LET t == op[r].tenant  at == op[r].at IN
      /\ at \in {"insert", "partition", "commit", "declare", "consume"}
      /\ t \in Tenant /\ op[r].count = DefaultCount
      /\ answer[t] = "none"
      /\ at = "insert" => /\ row[t] = "absent" /\ t \notin doomed
                         /\ \A s \in Request : op[s].tenant = t => s = r
      /\ at # "insert" => row[t] # "absent"
      /\ at # "insert" /\ t \notin doomed => row[t] = "live"
      /\ at \in {"commit", "declare", "consume"} => t \in partition
      /\ \A s \in Request : op[s].kind = "create" /\ op[s].tenant = t => s = r

(* What the other requests have done when they are where they are. *)
OthersOK ==
  \A r \in Request :
    /\ op[r].kind = "delete" =>
         /\ op[r].at \in {"lock", "stop", "unqueue", "row"}
         /\ op[r].tenant \in doomed
         /\ op[r].at \in {"unqueue", "row"} => pool[op[r].proc][op[r].tenant] = NoCount
    /\ op[r].kind = "update" =>
         /\ op[r].at \in {"lock", "config", "resize"}
         /\ op[r].count \in Count
    /\ op[r].kind = "publish" =>
         op[r].at \in {"insert", "route"}

(* A process that starts has no requests, one that has started restores    *)
(* nothing more.                                                           *)
PhasesOK ==
  /\ phase[Api] # "restoring"
  /\ \A p \in Proc :
       /\ phase[p] # "restoring" => restore[p] = {} /\ declared[p] = Nobody
       /\ phase[p] \in {"down", "restoring"} =>
            /\ \A r \in Request : op[r].proc # p
            /\ \A t \in Tenant : updater[t] # p

(* A tenant without a row has left no trace. *)
AbsentOK ==
  \A t \in Tenant : row[t] = "absent" =>
    /\ t \notin partition \cup queue
    /\ config[t] = NoCount
    /\ updater[t] = Nobody
    /\ deletedBy[t] = {}
    /\ \A p \in Proc : pool[p][t] = NoCount /\ t \notin restore[p] /\ declared[p] # t

(* A process that reported a tenant deleted has nothing left to do for it. *)
DeletedOK ==
  \A t \in Tenant : \A p \in deletedBy[t] :
    /\ row[t] = "deleted"
    /\ t \in doomed
    /\ pool[p][t] = NoCount
    /\ t \notin restore[p]
    /\ declared[p] # t
    /\ ~Creates(p, t)

(* Until its resize, an update knows the count in the database, unless a   *)
(* process with another mutex has changed it again.                        *)
UpdatesOK ==
  /\ \A r \in Request :
       op[r].kind = "update" /\ op[r].at = "resize" /\ updater[op[r].tenant] = op[r].proc
         => config[op[r].tenant] = op[r].count
  /\ \A t \in Tenant : updater[t] # Nobody => config[t] # NoCount

(* The inductive invariant: each conjunct is used by the proof that some   *)
(* other one is kept.                                                      *)
IInv ==
  /\ TypeOK /\ MutexOwner
  /\ CreationsOK /\ OthersOK /\ PhasesOK /\ AbsentOK /\ DeletedOK
  /\ CreatedIsComplete /\ UpdatesOK /\ ConfigAgrees /\ AcceptedIsRouted

-----------------------------------------------------------------------------
(* What a step does to the requests *)

Stage == {"insert", "partition", "commit", "declare", "consume", "lock", "stop",
          "unqueue", "row", "config", "resize", "route"}

OpOK == op \in [Request -> Op \cup {Idle}]

\* Only the request that makes the step changes.
OthersStay(r) == \A q \in Request : q # r => op'[q] = op[q]

\* It goes on to stage s, it ends, it begins; it is in progress.
Moved(r, s) ==
  /\ OpOK' /\ OthersStay(r)
  /\ op'[r].kind = op[r].kind /\ op'[r].at = s /\ op'[r].proc = op[r].proc
  /\ op'[r].tenant = op[r].tenant /\ op'[r].count = op[r].count

Ended(r) ==
  /\ OpOK' /\ OthersStay(r)
  /\ op'[r].kind = "idle" /\ op'[r].at = "end" /\ op'[r].proc = Nobody /\ op'[r].tenant = Nobody

Begun(r, p, k, s, t, n) ==
  /\ OpOK' /\ OthersStay(r)
  /\ op[r].kind = "idle"
  /\ op'[r].kind = k /\ op'[r].at = s /\ op'[r].proc = p /\ op'[r].tenant = t /\ op'[r].count = n

Active(r) ==
  /\ op[r] \in Op
  /\ op[r].proc \in Proc
  /\ op[r].tenant \in Tenant
  /\ op[r].count \in Count \cup {NoCount}

(* A request of a kind other than "idle" has a process and a tenant. *)
LEMMA AtActive ==
  ASSUME TypeOK, NEW r \in Request, op[r].kind # "idle"
  PROVE  Active(r)
  BY DEF TypeOK, Op, Idle, Active

(* A request that goes on keeps its kind, process and tenant. *)
LEMMA GotoMoves ==
  ASSUME TypeOK, NEW r \in Request, Active(r), NEW s \in Stage, Goto(r, s)
  PROVE  Moved(r, s)
  BY DEF TypeOK, Goto, Op, Active, Moved, OthersStay, OpOK, Stage

(* A request that ends is idle, and the others stay. *)
LEMMA EndEnds ==
  ASSUME TypeOK, NEW r \in Request, End(r)
  PROVE  Ended(r)
  BY DEF TypeOK, End, Ended, OthersStay, OpOK, Idle

(* A request that begins was idle and is what it was begun as. *)
LEMMA BeginBegins ==
  ASSUME TypeOK, NEW r \in Request, NEW p \in Proc, NEW t \in Tenant, NEW n \in Count \cup {NoCount},
         NEW k \in {"create", "delete", "update", "publish"}, NEW s \in Stage,
         Begin(r, p, k, s, t, n)
  PROVE  Begun(r, p, k, s, t, n) /\ sent' \in 0 .. MaxRequests
  BY LifecycleAssumption
  DEF TypeOK, Begin, Begun, OthersStay, OpOK, Op, Stage, Idle

(* A call that fails, or does not, leaves the number of failures in its    *)
(* bound.                                                                  *)
LEMMA FaultTyped ==
  ASSUME TypeOK, Fault \/ NoFault
  PROVE  faults' \in 0 .. MaxFaults
  BY LifecycleAssumption DEF TypeOK, Fault, NoFault

(* A request that ends and releases the mutex leaves nobody behind with it. *)
LEMMA UnlockKeepsMutex ==
  ASSUME TypeOK, MutexOwner, NEW r \in Request, Active(r),
         op[r].kind \in {"delete", "update"}, op[r].at # "lock",
         Ended(r), mutex' = [mutex EXCEPT ![op[r].proc] = Nobody]
  PROVE  MutexOwner'
  BY LifecycleAssumption DEF TypeOK, MutexOwner, Ended, OthersStay, Active

(* A map entry that is set keeps the type of the pools. *)
LEMMA PoolSet ==
  ASSUME TypeOK, NEW p \in Proc, NEW t \in Tenant, NEW n \in Count \cup {NoCount}
  PROVE  [pool EXCEPT ![p][t] = n] \in [Proc -> [Tenant -> Count \cup {NoCount}]]
  BY DEF TypeOK

-----------------------------------------------------------------------------
(* Creation *)

(* A creation that fails leaves everything as it is, and its tenant is    *)
(* known to nobody.                                                       *)
LEMMA CreateFailsKeeps ==
  ASSUME IInv, NEW r \in Request, Active(r), op[r].kind = "create", CreateFails(r),
         faults' \in 0 .. MaxFaults
  PROVE  IInv'
<1> USE LifecycleAssumption
<1>1. /\ Ended(r)
      /\ answer' = [answer EXCEPT ![op[r].tenant] = "error"]
      /\ UNCHANGED <<row, partition, config, queue, phase, restore, declared, pool,
                    subscribed, mutex, openTx, sent, boots, linked, maker, doomed, deletedBy,
                    updater, unrouted, cut>>
  BY EndEnds DEF IInv, CreateFails, dbVars, procVars, tmVars
<1>2. TypeOK'
  BY <1>1, PoolSet DEF IInv, TypeOK, Ended, OpOK, Active
<1>3. MutexOwner'
  BY <1>1 DEF IInv, MutexOwner, Ended, OthersStay, Active
<1>4. CreationsOK'
  BY <1>1 DEF IInv, CreationsOK, Ended, OthersStay, Active
<1>5. OthersOK'
  BY <1>1 DEF IInv, OthersOK, Ended, OthersStay, Active
<1>6. PhasesOK'
  BY <1>1 DEF IInv, PhasesOK, Ended, OthersStay, Active
<1>7. CreatedIsComplete'
  BY <1>1 DEF IInv, CreatedIsComplete, Ended, OthersStay, Active
<1>8. UpdatesOK'
  BY <1>1 DEF IInv, UpdatesOK, Ended, OthersStay, Active
<1>9. ConfigAgrees'
  BY <1>1 DEF IInv, ConfigAgrees, At, Ended, OthersStay, Active
<1>10. AcceptedIsRouted'
  BY <1>1 DEF IInv, AcceptedIsRouted, Ended, OthersStay, Active
<1>11. AbsentOK' /\ DeletedOK'
  BY <1>1 DEF IInv, AbsentOK, DeletedOK, Creates, OthersStay, Ended, Begun, Active
<1> QED
  BY <1>2, <1>3, <1>4, <1>5, <1>6, <1>7, <1>8, <1>9, <1>10, <1>11 DEF IInv

(* CreateTenant takes an identifier nobody has used: CreationsOK holds of  *)
(* it from the start.  Without a transaction it is used up, and nothing    *)
(* else has changed.                                                       *)
LEMMA BeginCreateKeeps ==
  ASSUME IInv, NEW r \in Request, NEW p \in Proc, BeginCreate(r, p)
  PROVE  IInv'
<1> USE LifecycleAssumption
<1> DEFINE Begins(t) == /\ Begin(r, p, "create", "insert", t, DefaultCount)
                        /\ openTx' = [openTx EXCEPT ![p] = @ \cup {t}]
                        /\ UNCHANGED <<answer>>
           Refused(t) == /\ op' = op
                        /\ answer' = [answer EXCEPT ![t] = "error"]
                        /\ UNCHANGED <<openTx>>
<1>1. PICK t \in Tenant :
          /\ row[t] = "absent" /\ answer[t] = "none" /\ t \notin doomed
          /\ \A q \in Request : op[q].tenant # t
          /\ Begins(t) \/ Refused(t)
          /\ faults' \in 0 .. MaxFaults /\ sent' \in 0 .. MaxRequests
          /\ UNCHANGED <<row, partition, config, queue, phase, restore, declared, pool,
                    subscribed, mutex, boots, linked, maker, doomed, deletedBy, updater,
                    unrouted, cut>>
  <2>1. PICK t \in Tenant :
            /\ Unused(t)
            /\ \/ /\ NoFault
                  /\ Begin(r, p, "create", "insert", t, DefaultCount)
                  /\ openTx' = [openTx EXCEPT ![p] = @ \cup {t}]
                  /\ UNCHANGED answer
               \/ /\ Fault
                  /\ sent < MaxRequests /\ sent' = sent + 1
                  /\ answer' = [answer EXCEPT ![t] = "error"]
                  /\ UNCHANGED <<op, openTx>>
            /\ UNCHANGED <<dbVars, queue, procVars, tmVars, mutex, boots, maker, doomed, deletedBy,
                           updater, unrouted, cut>>
    BY DEF BeginCreate
  <2>2. faults' \in 0 .. MaxFaults
    BY <2>1, FaultTyped DEF IInv
  <2>3. sent < MaxRequests /\ sent' = sent + 1
    BY <2>1 DEF Begin
  <2>4. sent' \in 0 .. MaxRequests
    BY <2>3 DEF IInv, TypeOK
  <2> QED
    BY <2>1, <2>2, <2>4 DEF Unused, dbVars, procVars, tmVars
<1>2. CASE Begins(t)
  <2>1. Begun(r, p, "create", "insert", t, DefaultCount)
    BY <1>2, BeginBegins DEF IInv, Stage
  <2>2. IF p = Api THEN phase[p] \in {"serving", "signalled", "stopped"} ELSE phase[p] = "serving"
    BY <1>2 DEF Begin, Accepts
  <2>3. TypeOK'
    BY <1>1, <1>2, <2>1, <2>2, PoolSet DEF IInv, TypeOK, Begun, OpOK
  <2>4. MutexOwner'
    BY <1>1, <2>1, <2>2 DEF IInv, MutexOwner, Begun, OthersStay
  <2>5. CreationsOK'
    BY <1>1, <1>2, <2>1, <2>2 DEF IInv, CreationsOK, AbsentOK, Begun, OthersStay
  <2>6. OthersOK'
    BY <1>1, <2>1, <2>2 DEF IInv, OthersOK, Begun, OthersStay
  <2>7. PhasesOK'
    BY <1>1, <2>1, <2>2 DEF IInv, PhasesOK, Begun, OthersStay
  <2>8. UpdatesOK'
    BY <1>1, <2>1, <2>2 DEF IInv, UpdatesOK, Begun, OthersStay
  <2>9. ConfigAgrees'
    BY <1>1, <2>1, <2>2 DEF IInv, ConfigAgrees, At, Begun, OthersStay
  <2>10. DeletedOK'
    BY <1>1, <2>1, <2>2 DEF IInv, DeletedOK, Creates, Begun, OthersStay
  <2>11. AbsentOK'
    BY <1>1 DEF IInv, AbsentOK
  <2>12. CreatedIsComplete' /\ AcceptedIsRouted'
    BY <1>1, <1>2 DEF IInv, CreatedIsComplete, AcceptedIsRouted
  <2> QED
    BY <2>3, <2>4, <2>5, <2>6, <2>7, <2>8, <2>9, <2>10, <2>11, <2>12 DEF IInv
<1>3. CASE Refused(t)
  <2>1. TypeOK'
    BY <1>1, <1>3, PoolSet DEF IInv, TypeOK
  <2>2. MutexOwner'
    BY <1>1, <1>3 DEF IInv, MutexOwner
  <2>3. CreationsOK'
    BY <1>1, <1>3 DEF IInv, TypeOK, CreationsOK
  <2>4. OthersOK'
    BY <1>1, <1>3 DEF IInv, OthersOK
  <2>5. PhasesOK'
    BY <1>1, <1>3 DEF IInv, PhasesOK
  <2>6. UpdatesOK'
    BY <1>1, <1>3 DEF IInv, UpdatesOK
  <2>7. ConfigAgrees'
    BY <1>1, <1>3 DEF IInv, ConfigAgrees, At
  <2>8. DeletedOK'
    BY <1>1, <1>3 DEF IInv, DeletedOK, Creates
  <2>9. AbsentOK'
    BY <1>1 DEF IInv, AbsentOK
  <2>10. CreatedIsComplete' /\ AcceptedIsRouted'
    BY <1>1, <1>3 DEF IInv, TypeOK, CreatedIsComplete, AcceptedIsRouted
  <2> QED
    BY <2>1, <2>2, <2>3, <2>4, <2>5, <2>6, <2>7, <2>8, <2>9, <2>10 DEF IInv
<1> QED
  BY <1>1, <1>2, <1>3

(* The insert makes the row live, which nobody but the creator can know    *)
(* of.                                                                     *)
LEMMA InsertTenantKeeps ==
  ASSUME IInv, NEW r \in Request, InsertTenant(r)
  PROVE  IInv'
<1> USE LifecycleAssumption
<1>1. Active(r) /\ op[r].kind = "create" /\ op[r].at = "insert"
  BY AtActive DEF IInv, InsertTenant, At
<1>2. faults' \in 0 .. MaxFaults
  BY FaultTyped DEF IInv, Fails, TypeOK, InsertTenant, CreateFails
<1>3. CASE CreateFails(r)
  BY <1>1, <1>2, <1>3, CreateFailsKeeps DEF Active
<1>4. CASE ~CreateFails(r)
  <2>1. /\ Moved(r, "partition")
        /\ row' = [row EXCEPT ![op[r].tenant] = "live"]
        /\ UNCHANGED <<partition, config, queue, phase, restore, declared, pool, subscribed,
                      mutex, openTx, sent, boots, linked, answer, maker, doomed, deletedBy,
                      updater, unrouted, cut>>
    BY <1>1, <1>4, GotoMoves, EndEnds DEF IInv, InsertTenant, Stage, dbVars, procVars, tmVars,
          history
  <2>2. TypeOK'
    BY <1>1, <1>2, <2>1, PoolSet DEF IInv, TypeOK, Moved, OpOK, Active
  <2>3. MutexOwner'
    BY <1>1, <1>2, <2>1 DEF IInv, MutexOwner, Moved, OthersStay, Active
  <2>4. CreationsOK'
    <3>1. op[r].tenant \notin doomed /\ \A q \in Request : op[q].tenant = op[r].tenant => q = r
      BY <1>1 DEF IInv, CreationsOK
    <3>2. /\ row'[op[r].tenant] = "live"
          /\ \A u \in Tenant : u # op[r].tenant => row'[u] = row[u]
      BY <1>1, <2>1 DEF IInv, TypeOK, Active
    <3>3. ASSUME NEW q \in Request, op'[q].kind = "create", q # r
          PROVE  op'[q] = op[q] /\ op[q].tenant \in Tenant /\ op[q].tenant # op[r].tenant
      BY <2>1, <3>1, <3>3 DEF IInv, CreationsOK, Moved, OthersStay
    <3> QED
      BY <1>1, <2>1, <3>1, <3>2, <3>3 DEF IInv, CreationsOK, Moved, OthersStay, Active
  <2>5. OthersOK'
    BY <1>1, <1>2, <2>1 DEF IInv, OthersOK, Moved, OthersStay, Active
  <2>6. PhasesOK'
    BY <1>1, <1>2, <2>1 DEF IInv, PhasesOK, Moved, OthersStay, Active
  <2>7. AbsentOK'
    BY <1>1, <1>2, <2>1 DEF IInv, AbsentOK, Moved, OthersStay, Active
  <2>8. DeletedOK'
    BY <1>1, <1>2, <2>1 DEF IInv, DeletedOK, CreationsOK, Moved, OthersStay, Active, Creates
  <2>9. CreatedIsComplete'
    BY <1>1, <1>2, <2>1 DEF IInv, CreatedIsComplete, Moved, OthersStay, Active
  <2>10. UpdatesOK'
    BY <1>1, <1>2, <2>1 DEF IInv, UpdatesOK, Moved, OthersStay, Active
  <2>11. ConfigAgrees'
    BY <1>1, <1>2, <2>1 DEF IInv, ConfigAgrees, At, Moved, OthersStay, Active
  <2>12. AcceptedIsRouted'
    BY <1>1, <1>2, <2>1 DEF IInv, AcceptedIsRouted, Moved, OthersStay, Active
  <2> QED
    BY <2>2, <2>3, <2>4, <2>5, <2>6, <2>7, <2>8, <2>9, <2>10, <2>11, <2>12 DEF IInv
<1> QED
  BY <1>3, <1>4

(* A partition appears only where the row is. *)
LEMMA CreatePartitionKeeps ==
  ASSUME IInv, NEW r \in Request, CreatePartition(r)
  PROVE  IInv'
<1> USE LifecycleAssumption
<1>1. Active(r) /\ op[r].kind = "create" /\ op[r].at = "partition"
  BY AtActive DEF IInv, CreatePartition, At
<1>2. faults' \in 0 .. MaxFaults
  BY FaultTyped DEF IInv, Fails, TypeOK, CreatePartition, CreateFails
<1>3. CASE CreateFails(r)
  BY <1>1, <1>2, <1>3, CreateFailsKeeps DEF Active
<1>4. CASE ~CreateFails(r)
  <2>1. /\ Moved(r, "commit")
        /\ partition' = partition \cup {op[r].tenant}
        /\ UNCHANGED <<row, config, queue, phase, restore, declared, pool, subscribed, mutex,
                      openTx, sent, boots, linked, answer, maker, doomed, deletedBy, updater,
                      unrouted, cut>>
    BY <1>1, <1>4, GotoMoves, EndEnds DEF IInv, CreatePartition, Stage, dbVars, procVars,
          tmVars, history
  <2>2. TypeOK'
    BY <1>1, <1>2, <2>1, PoolSet DEF IInv, TypeOK, Moved, OpOK, Active
  <2>3. MutexOwner'
    BY <1>1, <1>2, <2>1 DEF IInv, MutexOwner, Moved, OthersStay, Active
  <2>4. CreationsOK'
    BY <1>1, <1>2, <2>1 DEF IInv, CreationsOK, Moved, OthersStay, Active
  <2>5. OthersOK'
    BY <1>1, <1>2, <2>1 DEF IInv, OthersOK, Moved, OthersStay, Active
  <2>6. PhasesOK'
    BY <1>1, <1>2, <2>1 DEF IInv, PhasesOK, Moved, OthersStay, Active
  <2>7. AbsentOK'
    BY <1>1, <1>2, <2>1 DEF IInv, AbsentOK, CreationsOK, Moved, OthersStay, Active
  <2>8. CreatedIsComplete'
    BY <1>1, <1>2, <2>1 DEF IInv, CreatedIsComplete, Moved, OthersStay, Active
  <2>9. UpdatesOK'
    BY <1>1, <1>2, <2>1 DEF IInv, UpdatesOK, Moved, OthersStay, Active
  <2>10. ConfigAgrees'
    BY <1>1, <1>2, <2>1 DEF IInv, ConfigAgrees, At, Moved, OthersStay, Active
  <2>11. DeletedOK' /\ AcceptedIsRouted'
    BY <1>1, <1>2, <2>1 DEF IInv, DeletedOK, AcceptedIsRouted, Creates, OthersStay, Moved,
          Active
  <2> QED
    BY <2>2, <2>3, <2>4, <2>5, <2>6, <2>7, <2>8, <2>9, <2>10, <2>11 DEF IInv
<1> QED
  BY <1>3, <1>4

(* The commit changes no tenant, whether it succeeds or ends the request   *)
(* with an error.                                                          *)
LEMMA CommitTxKeeps ==
  ASSUME IInv, NEW r \in Request, CommitTx(r)
  PROVE  IInv'
<1> USE LifecycleAssumption
<1>1. Active(r) /\ op[r].kind = "create" /\ op[r].at = "commit"
  BY AtActive DEF IInv, CommitTx, At
<1>2. faults' \in 0 .. MaxFaults
  BY FaultTyped DEF IInv, Fails, TypeOK, CommitTx
<1> DEFINE Ok == /\ Moved(r, "declare")
                /\ openTx' = [openTx EXCEPT ![op[r].proc] = @ \ {op[r].tenant}]
                /\ UNCHANGED <<answer>>
           Failed == /\ Ended(r)
                    /\ openTx' = [openTx EXCEPT ![op[r].proc] = @ \ {op[r].tenant}]
                    /\ answer' = [answer EXCEPT ![op[r].tenant] = "error"]
<1>3. /\ Ok \/ Failed
      /\ UNCHANGED <<row, partition, config, queue, phase, restore, declared, pool,
                    subscribed, mutex, sent, boots, linked, maker, doomed, deletedBy,
                    updater, unrouted, cut>>
  BY <1>1, GotoMoves, EndEnds DEF IInv, CommitTx, Stage, dbVars, procVars, tmVars, history
<1>4. CASE Ok
  <2>1. TypeOK'
    BY <1>1, <1>2, <1>3, <1>4, PoolSet DEF IInv, TypeOK, Moved, OpOK, Active
  <2>2. MutexOwner'
    BY <1>1, <1>2, <1>3, <1>4 DEF IInv, MutexOwner, Moved, OthersStay, Active
  <2>3. CreationsOK'
    BY <1>1, <1>2, <1>3, <1>4 DEF IInv, CreationsOK, Moved, OthersStay, Active
  <2>4. OthersOK'
    BY <1>1, <1>2, <1>3, <1>4 DEF IInv, OthersOK, Moved, OthersStay, Active
  <2>5. PhasesOK'
    BY <1>1, <1>2, <1>3, <1>4 DEF IInv, PhasesOK, Moved, OthersStay, Active
  <2>6. UpdatesOK'
    BY <1>1, <1>2, <1>3, <1>4 DEF IInv, UpdatesOK, Moved, OthersStay, Active
  <2>7. ConfigAgrees'
    BY <1>1, <1>2, <1>3, <1>4 DEF IInv, ConfigAgrees, At, Moved, OthersStay, Active
  <2>8. AbsentOK' /\ DeletedOK' /\ CreatedIsComplete' /\ AcceptedIsRouted'
    BY <1>1, <1>2, <1>3, <1>4 DEF IInv, AbsentOK, DeletedOK, CreatedIsComplete,
          AcceptedIsRouted, Creates, OthersStay, Moved, Ended, Active
  <2> QED
    BY <2>1, <2>2, <2>3, <2>4, <2>5, <2>6, <2>7, <2>8 DEF IInv
<1>5. CASE Failed
  <2>1. TypeOK'
    BY <1>1, <1>2, <1>3, <1>5, PoolSet DEF IInv, TypeOK, Ended, OpOK, Active
  <2>2. MutexOwner'
    BY <1>1, <1>2, <1>3, <1>5 DEF IInv, MutexOwner, Ended, OthersStay, Active
  <2>3. CreationsOK'
    BY <1>1, <1>2, <1>3, <1>5 DEF IInv, CreationsOK, Ended, OthersStay, Active
  <2>4. OthersOK'
    BY <1>1, <1>2, <1>3, <1>5 DEF IInv, OthersOK, Ended, OthersStay, Active
  <2>5. PhasesOK'
    BY <1>1, <1>2, <1>3, <1>5 DEF IInv, PhasesOK, Ended, OthersStay, Active
  <2>6. CreatedIsComplete'
    BY <1>1, <1>2, <1>3, <1>5 DEF IInv, CreatedIsComplete, Ended, OthersStay, Active
  <2>7. UpdatesOK'
    BY <1>1, <1>2, <1>3, <1>5 DEF IInv, UpdatesOK, Ended, OthersStay, Active
  <2>8. ConfigAgrees'
    BY <1>1, <1>2, <1>3, <1>5 DEF IInv, ConfigAgrees, At, Ended, OthersStay, Active
  <2>9. AcceptedIsRouted'
    BY <1>1, <1>2, <1>3, <1>5 DEF IInv, AcceptedIsRouted, Ended, OthersStay, Active
  <2>10. AbsentOK' /\ DeletedOK'
    BY <1>1, <1>2, <1>3, <1>5 DEF IInv, AbsentOK, DeletedOK, Creates, OthersStay, Moved, Ended,
          Active
  <2> QED
    BY <2>1, <2>2, <2>3, <2>4, <2>5, <2>6, <2>7, <2>8, <2>9, <2>10 DEF IInv
<1> QED
  BY <1>3, <1>4, <1>5

(* A queue appears only where row and partition are. *)
LEMMA DeclareQueueKeeps ==
  ASSUME IInv, NEW r \in Request, DeclareQueue(r)
  PROVE  IInv'
<1> USE LifecycleAssumption
<1>1. Active(r) /\ op[r].kind = "create" /\ op[r].at = "declare"
  BY AtActive DEF IInv, DeclareQueue, At
<1>2. faults' \in 0 .. MaxFaults
  BY FaultTyped DEF IInv, Fails, TypeOK, DeclareQueue, CreateFails
<1>3. CASE CreateFails(r)
  BY <1>1, <1>2, <1>3, CreateFailsKeeps DEF Active
<1>4. CASE ~CreateFails(r)
  <2>1. /\ Moved(r, "consume")
        /\ queue' = queue \cup {op[r].tenant}
        /\ UNCHANGED <<row, partition, config, phase, restore, declared, pool, subscribed,
                      mutex, openTx, sent, boots, linked, answer, maker, doomed, deletedBy,
                      updater, unrouted, cut>>
    BY <1>1, <1>4, GotoMoves, EndEnds DEF IInv, DeclareQueue, Stage, dbVars, procVars, tmVars,
          history
  <2>2. TypeOK'
    BY <1>1, <1>2, <2>1, PoolSet DEF IInv, TypeOK, Moved, OpOK, Active
  <2>3. MutexOwner'
    BY <1>1, <1>2, <2>1 DEF IInv, MutexOwner, Moved, OthersStay, Active
  <2>4. CreationsOK'
    BY <1>1, <1>2, <2>1 DEF IInv, CreationsOK, Moved, OthersStay, Active
  <2>5. OthersOK'
    BY <1>1, <1>2, <2>1 DEF IInv, OthersOK, Moved, OthersStay, Active
  <2>6. PhasesOK'
    BY <1>1, <1>2, <2>1 DEF IInv, PhasesOK, Moved, OthersStay, Active
  <2>7. AbsentOK'
    BY <1>1, <1>2, <2>1 DEF IInv, AbsentOK, CreationsOK, Moved, OthersStay, Active
  <2>8. CreatedIsComplete'
    BY <1>1, <1>2, <2>1 DEF IInv, CreatedIsComplete, Moved, OthersStay, Active
  <2>9. UpdatesOK'
    BY <1>1, <1>2, <2>1 DEF IInv, UpdatesOK, Moved, OthersStay, Active
  <2>10. ConfigAgrees'
    BY <1>1, <1>2, <2>1 DEF IInv, ConfigAgrees, At, Moved, OthersStay, Active
  <2>11. DeletedOK' /\ AcceptedIsRouted'
    BY <1>1, <1>2, <2>1 DEF IInv, DeletedOK, AcceptedIsRouted, Creates, OthersStay, Moved,
          Active
  <2> QED
    BY <2>2, <2>3, <2>4, <2>5, <2>6, <2>7, <2>8, <2>9, <2>10, <2>11 DEF IInv
<1> QED
  BY <1>3, <1>4

(* With its last step a creation becomes known: all that CreatedIsComplete *)
(* asks for is there.                                                      *)
LEMMA ConsumeQueueKeeps ==
  ASSUME IInv, NEW r \in Request, ConsumeQueue(r)
  PROVE  IInv'
<1> USE LifecycleAssumption
<1>1. Active(r) /\ op[r].kind = "create" /\ op[r].at = "consume"
  BY AtActive DEF IInv, ConsumeQueue, At
<1>2. faults' \in 0 .. MaxFaults
  BY FaultTyped DEF IInv, Fails, TypeOK, ConsumeQueue, CreateFails
<1>3. CASE CreateFails(r)
  BY <1>1, <1>2, <1>3, CreateFailsKeeps DEF Active
<1>4. CASE ~CreateFails(r)
  <2>1. /\ Ended(r)
        /\ op[r].tenant \in queue
        /\ pool' = [pool EXCEPT ![op[r].proc][op[r].tenant] = op[r].count]
        /\ subscribed' = [subscribed EXCEPT ![op[r].proc] = @ \cup {op[r].tenant}]
        /\ answer' = [answer EXCEPT ![op[r].tenant] = "created"]
        /\ maker' = [maker EXCEPT ![op[r].tenant] = op[r].proc]
        /\ UNCHANGED <<row, partition, config, queue, phase, restore, declared, mutex, openTx,
                      sent, boots, linked, doomed, deletedBy, unrouted, cut>>
    BY <1>1, <1>4, EndEnds DEF IInv, ConsumeQueue, dbVars, procVars, StartConsumer
  <2>13. /\ mutex[op[r].proc] = Nobody
        /\ updater' = [updater EXCEPT ![op[r].tenant] = IF @ = op[r].proc THEN Nobody ELSE @]
    BY <1>4 DEF ConsumeQueue
  <2>14. \A u \in Tenant : updater'[u] = IF u = op[r].tenant /\ updater[u] = op[r].proc
                                       THEN Nobody ELSE updater[u]
    BY <1>1, <2>13 DEF IInv, TypeOK, Active
  <2>2. TypeOK'
    BY <1>1, <1>2, <2>1, <2>13, PoolSet DEF IInv, TypeOK, Ended, OpOK, Active
  <2>3. MutexOwner'
    BY <1>1, <1>2, <2>1, <2>13 DEF IInv, MutexOwner, Ended, OthersStay, Active
  <2>4. CreationsOK'
    BY <1>1, <1>2, <2>1, <2>13 DEF IInv, CreationsOK, Ended, OthersStay, Active
  <2>5. OthersOK'
    BY <1>1, <1>2, <2>1, <2>13 DEF IInv, OthersOK, MutexOwner, Ended, OthersStay, Active
  <2>6. PhasesOK'
    BY <1>1, <1>2, <2>1, <2>13 DEF IInv, PhasesOK, Ended, OthersStay, Active
  <2>7. AbsentOK'
    BY <1>1, <1>2, <2>1, <2>13 DEF IInv, AbsentOK, Ended, OthersStay, Active
  <2>8. DeletedOK'
    BY <1>1, <1>2, <2>1, <2>13 DEF IInv, DeletedOK, CreationsOK, Ended, OthersStay, Active, Creates,
          Moved
  <2>9. CreatedIsComplete'
    BY <1>1, <1>2, <2>1, <2>13 DEF IInv, CreatedIsComplete, TypeOK, CreationsOK, Ended, OthersStay,
          Active
  <2>10. UpdatesOK'
    <3>1. ASSUME NEW q \in Request, op'[q].kind = "update"
          PROVE  op'[q] = op[q] /\ op[q].tenant \in Tenant /\ op[q].proc \in Proc
      BY <2>1, <3>1, AtActive DEF IInv, Ended, OthersStay, Active
    <3> QED
      BY <1>1, <2>1, <2>14, <3>1 DEF IInv, UpdatesOK
  <2>11. ConfigAgrees'
    <3>1. SUFFICES ASSUME NEW t \in Tenant, NEW p \in Proc, updater'[t] = p,
                         ~\E q \in Request : At(q, "update", "resize")' /\ op'[q].tenant = t
                                             /\ op'[q].proc = p
                  PROVE  pool'[p][t] \in {NoCount, config'[t]}
      BY DEF ConfigAgrees
    <3>2. updater[t] = p /\ ~(t = op[r].tenant /\ p = op[r].proc)
      BY <2>14, <3>1
    <3>3. pool'[p][t] = pool[p][t]
      BY <1>1, <2>1, <3>2 DEF IInv, TypeOK, Active
    <3>4. ~\E q \in Request : At(q, "update", "resize") /\ op[q].tenant = t /\ op[q].proc = p
      BY <1>1, <2>1, <3>1 DEF Ended, OthersStay, At
    <3> QED
      BY <2>1, <3>2, <3>3, <3>4 DEF IInv, ConfigAgrees
  <2>12. AcceptedIsRouted'
    BY <1>1, <1>2, <2>1, <2>13 DEF IInv, AcceptedIsRouted
  <2> QED
    BY <2>2, <2>3, <2>4, <2>5, <2>6, <2>7, <2>8, <2>9, <2>10, <2>11, <2>12 DEF IInv
<1> QED
  BY <1>3, <1>4

-----------------------------------------------------------------------------
(* Deletion *)

(* A deletion is not about a tenant being created, and dooms its tenant    *)
(* before anything is undone.                                              *)
LEMMA BeginDeleteKeeps ==
  ASSUME IInv, NEW r \in Request, NEW p \in Proc, BeginDelete(r, p)
  PROVE  IInv'
<1> USE LifecycleAssumption
<1>1. PICK t \in Tenant :
          /\ Begin(r, p, "delete", "lock", t, NoCount)
          /\ Named(t)
          /\ doomed' = doomed \cup {t}
          /\ UNCHANGED <<row, partition, config, queue, phase, restore, declared, pool,
                    subscribed, mutex, openTx, faults, boots, linked, answer, maker,
                    deletedBy, updater, unrouted, cut>>
  BY DEF BeginDelete, dbVars, procVars, tmVars, history
<1>2. Begun(r, p, "delete", "lock", t, NoCount) /\ sent' \in 0 .. MaxRequests
  BY <1>1, BeginBegins DEF IInv, Stage
<1>0. \A q \in Request : op[q].kind = "create" /\ op[q].tenant = t => op[q].at # "insert"
  BY <1>1, AtActive DEF IInv, CreationsOK, Named, Creates, Active
<1>3. IF p = Api THEN phase[p] \in {"serving", "signalled", "stopped"} ELSE phase[p] = "serving"
  BY <1>1 DEF Begin, Accepts
<1>4. TypeOK'
  BY <1>1, <1>2, <1>3, PoolSet DEF IInv, TypeOK, Begun, OpOK
<1>5. MutexOwner'
  BY <1>1, <1>2, <1>3 DEF IInv, MutexOwner, Begun, OthersStay
<1>6. CreationsOK'
  BY <1>0, <1>1, <1>2, <1>3 DEF IInv, CreationsOK, Begun, OthersStay
<1>7. OthersOK'
  BY <1>1, <1>2, <1>3 DEF IInv, OthersOK, Begun, OthersStay
<1>8. PhasesOK'
  BY <1>1, <1>2, <1>3 DEF IInv, PhasesOK, Begun, OthersStay
<1>9. AbsentOK'
  BY <1>1, <1>2, <1>3 DEF IInv, AbsentOK, Begun, OthersStay
<1>10. DeletedOK'
  BY <1>1, <1>2, <1>3 DEF IInv, DeletedOK, Begun, OthersStay, Creates
<1>11. CreatedIsComplete'
  BY <1>1, <1>2, <1>3 DEF IInv, CreatedIsComplete, Begun, OthersStay
<1>12. UpdatesOK'
  BY <1>1, <1>2, <1>3 DEF IInv, UpdatesOK, Begun, OthersStay
<1>13. ConfigAgrees'
  BY <1>1, <1>2, <1>3 DEF IInv, ConfigAgrees, At, Begun, OthersStay
<1>14. AcceptedIsRouted'
  BY <1>1, <1>2, <1>3 DEF IInv, AcceptedIsRouted, Begun, OthersStay
<1> QED
  BY <1>4, <1>5, <1>6, <1>7, <1>8, <1>9, <1>10, <1>11, <1>12, <1>13, <1>14 DEF IInv

(* A deletion takes a free mutex. *)
LEMMA LockDeleteKeeps ==
  ASSUME IInv, NEW r \in Request, LockDelete(r)
  PROVE  IInv'
<1> USE LifecycleAssumption
<1>1. Active(r) /\ op[r].kind = "delete" /\ op[r].at = "lock"
  BY AtActive DEF IInv, LockDelete, At, Lock, At
<1>2. faults' \in 0 .. MaxFaults
  BY FaultTyped DEF IInv, Fails, TypeOK, LockDelete, Lock, At
<1>3. /\ Moved(r, "stop")
      /\ mutex[op[r].proc] = Nobody
      /\ mutex' = [mutex EXCEPT ![op[r].proc] = r]
      /\ UNCHANGED <<row, partition, config, queue, phase, restore, declared, pool,
                    subscribed, openTx, sent, boots, linked, answer, maker, doomed,
                    deletedBy, updater, unrouted, cut>>
  BY <1>1, GotoMoves, EndEnds DEF IInv, LockDelete, Stage, dbVars, procVars, tmVars, history,
        Lock, At
<1>4. TypeOK'
  BY <1>1, <1>2, <1>3, PoolSet DEF IInv, TypeOK, Moved, OpOK, Active
<1>5. MutexOwner'
  BY <1>1, <1>2, <1>3 DEF IInv, MutexOwner, TypeOK, Moved, OthersStay, Active
<1>6. CreationsOK'
  BY <1>1, <1>2, <1>3 DEF IInv, CreationsOK, Moved, OthersStay, Active
<1>7. OthersOK'
  BY <1>1, <1>2, <1>3 DEF IInv, OthersOK, Moved, OthersStay, Active
<1>8. PhasesOK'
  BY <1>1, <1>2, <1>3 DEF IInv, PhasesOK, Moved, OthersStay, Active
<1>9. UpdatesOK'
  BY <1>1, <1>2, <1>3 DEF IInv, UpdatesOK, Moved, OthersStay, Active
<1>10. ConfigAgrees'
  BY <1>1, <1>2, <1>3 DEF IInv, ConfigAgrees, At, Moved, OthersStay, Active
<1>11. AbsentOK' /\ DeletedOK' /\ CreatedIsComplete' /\ AcceptedIsRouted'
  BY <1>1, <1>2, <1>3 DEF IInv, AbsentOK, DeletedOK, CreatedIsComplete, AcceptedIsRouted,
        Creates, OthersStay, Moved, Begun, Active
<1> QED
  BY <1>4, <1>5, <1>6, <1>7, <1>8, <1>9, <1>10, <1>11 DEF IInv

(* The consumer of a doomed tenant goes. *)
LEMMA StopConsumerKeeps ==
  ASSUME IInv, NEW r \in Request, StopConsumer(r)
  PROVE  IInv'
<1> USE LifecycleAssumption
<1>1. Active(r) /\ op[r].kind = "delete" /\ op[r].at = "stop"
  BY AtActive DEF IInv, StopConsumer, At, NoFault
<1>2. faults' \in 0 .. MaxFaults
  BY FaultTyped DEF IInv, Fails, TypeOK, StopConsumer, NoFault
<1>3. /\ Moved(r, "unqueue")
      /\ pool' = [pool EXCEPT ![op[r].proc][op[r].tenant] = NoCount]
      /\ subscribed' = [subscribed EXCEPT ![op[r].proc] = @ \ {op[r].tenant}]
      /\ UNCHANGED <<row, partition, config, queue, phase, restore, declared, mutex, openTx,
                    sent, boots, linked, answer, maker, doomed, deletedBy, updater,
                    unrouted, cut>>
  BY <1>1, GotoMoves, EndEnds DEF IInv, StopConsumer, Stage, dbVars, procVars, tmVars, history,
        NoFault
<1>4. TypeOK'
  BY <1>1, <1>2, <1>3, PoolSet DEF IInv, TypeOK, Moved, OpOK, Active
<1>5. MutexOwner'
  BY <1>1, <1>2, <1>3 DEF IInv, MutexOwner, Moved, OthersStay, Active
<1>6. CreationsOK'
  BY <1>1, <1>2, <1>3 DEF IInv, CreationsOK, Moved, OthersStay, Active
<1>7. OthersOK'
  BY <1>1, <1>2, <1>3 DEF IInv, OthersOK, TypeOK, PhasesOK, Moved, OthersStay, Active
<1>8. PhasesOK'
  BY <1>1, <1>2, <1>3 DEF IInv, PhasesOK, Moved, OthersStay, Active
<1>9. AbsentOK'
  BY <1>1, <1>2, <1>3 DEF IInv, AbsentOK, Moved, OthersStay, Active
<1>10. DeletedOK'
  BY <1>1, <1>2, <1>3 DEF IInv, DeletedOK, Moved, OthersStay, Active, Creates
<1>11. CreatedIsComplete'
  BY <1>1, <1>2, <1>3 DEF IInv, CreatedIsComplete, OthersOK, Moved, OthersStay, Active
<1>12. UpdatesOK'
  BY <1>1, <1>2, <1>3 DEF IInv, UpdatesOK, Moved, OthersStay, Active
<1>13. ConfigAgrees'
  BY <1>1, <1>2, <1>3 DEF IInv, ConfigAgrees, At, Moved, OthersStay, Active
<1>14. AcceptedIsRouted'
  BY <1>1, <1>2, <1>3 DEF IInv, AcceptedIsRouted, Moved, OthersStay, Active
<1> QED
  BY <1>4, <1>5, <1>6, <1>7, <1>8, <1>9, <1>10, <1>11, <1>12, <1>13, <1>14 DEF IInv

(* The queue of a doomed tenant goes, or stays; so do all subscriptions to *)
(* it.                                                                     *)
LEMMA DeleteTenantQueueKeeps ==
  ASSUME IInv, NEW r \in Request, DeleteTenantQueue(r)
  PROVE  IInv'
<1> USE LifecycleAssumption
<1>1. Active(r) /\ op[r].kind = "delete" /\ op[r].at = "unqueue"
  BY AtActive DEF IInv, DeleteTenantQueue, At
<1>2. faults' \in 0 .. MaxFaults
  BY FaultTyped DEF IInv, Fails, TypeOK, DeleteTenantQueue
<1> DEFINE Deleted == /\ Moved(r, "row")
                     /\ queue' = queue \ {op[r].tenant}
                     /\ subscribed' = [p \in Proc |-> subscribed[p] \ {op[r].tenant}]
           Failed == /\ Moved(r, "row")
                    /\ UNCHANGED <<queue, subscribed>>
<1>3. /\ Deleted \/ Failed
      /\ UNCHANGED <<row, partition, config, phase, restore, declared, pool, mutex, openTx,
                    sent, boots, linked, answer, maker, doomed, deletedBy, updater,
                    unrouted, cut>>
  BY <1>1, GotoMoves, EndEnds DEF IInv, DeleteTenantQueue, Stage, dbVars, procVars, tmVars,
        history
<1>4. CASE Deleted
  <2>1. TypeOK'
    BY <1>1, <1>2, <1>3, <1>4, PoolSet DEF IInv, TypeOK, Moved, OpOK, Active
  <2>2. MutexOwner'
    BY <1>1, <1>2, <1>3, <1>4 DEF IInv, MutexOwner, Moved, OthersStay, Active
  <2>3. CreationsOK'
    BY <1>1, <1>2, <1>3, <1>4 DEF IInv, CreationsOK, Moved, OthersStay, Active
  <2>4. OthersOK'
    BY <1>1, <1>2, <1>3, <1>4 DEF IInv, OthersOK, Moved, OthersStay, Active
  <2>5. PhasesOK'
    BY <1>1, <1>2, <1>3, <1>4 DEF IInv, PhasesOK, Moved, OthersStay, Active
  <2>6. AbsentOK'
    BY <1>1, <1>2, <1>3, <1>4 DEF IInv, AbsentOK, Moved, OthersStay, Active
  <2>7. CreatedIsComplete'
    BY <1>1, <1>2, <1>3, <1>4 DEF IInv, CreatedIsComplete, OthersOK, Moved, OthersStay, Active
  <2>8. UpdatesOK'
    BY <1>1, <1>2, <1>3, <1>4 DEF IInv, UpdatesOK, Moved, OthersStay, Active
  <2>9. ConfigAgrees'
    BY <1>1, <1>2, <1>3, <1>4 DEF IInv, ConfigAgrees, At, Moved, OthersStay, Active
  <2>10. DeletedOK' /\ AcceptedIsRouted'
    BY <1>1, <1>2, <1>3, <1>4 DEF IInv, DeletedOK, AcceptedIsRouted, Creates, OthersStay, Moved,
          Active
  <2> QED
    BY <2>1, <2>2, <2>3, <2>4, <2>5, <2>6, <2>7, <2>8, <2>9, <2>10 DEF IInv
<1>5. CASE Failed
  <2>1. TypeOK'
    BY <1>1, <1>2, <1>3, <1>5, PoolSet DEF IInv, TypeOK, Moved, OpOK, Active
  <2>2. MutexOwner'
    BY <1>1, <1>2, <1>3, <1>5 DEF IInv, MutexOwner, Moved, OthersStay, Active
  <2>3. CreationsOK'
    BY <1>1, <1>2, <1>3, <1>5 DEF IInv, CreationsOK, Moved, OthersStay, Active
  <2>4. OthersOK'
    BY <1>1, <1>2, <1>3, <1>5 DEF IInv, OthersOK, Moved, OthersStay, Active
  <2>5. PhasesOK'
    BY <1>1, <1>2, <1>3, <1>5 DEF IInv, PhasesOK, Moved, OthersStay, Active
  <2>6. UpdatesOK'
    BY <1>1, <1>2, <1>3, <1>5 DEF IInv, UpdatesOK, Moved, OthersStay, Active
  <2>7. ConfigAgrees'
    BY <1>1, <1>2, <1>3, <1>5 DEF IInv, ConfigAgrees, At, Moved, OthersStay, Active
  <2>8. AbsentOK' /\ DeletedOK' /\ CreatedIsComplete' /\ AcceptedIsRouted'
    BY <1>1, <1>2, <1>3, <1>5 DEF IInv, AbsentOK, DeletedOK, CreatedIsComplete,
          AcceptedIsRouted, Creates, OthersStay, Moved, Active
  <2> QED
    BY <2>1, <2>2, <2>3, <2>4, <2>5, <2>6, <2>7, <2>8 DEF IInv
<1> QED
  BY <1>3, <1>4, <1>5

(* The row is marked deleted while the deleting process has neither a      *)
(* consumer nor, being past its start, anything left to restore.           *)
LEMMA SoftDeleteKeeps ==
  ASSUME IInv, NEW r \in Request, SoftDelete(r)
  PROVE  IInv'
<1> USE LifecycleAssumption
<1>1. Active(r) /\ op[r].kind = "delete" /\ op[r].at = "row"
  BY AtActive DEF IInv, SoftDelete, At, Unlock
<1>2. faults' \in 0 .. MaxFaults
  BY FaultTyped DEF IInv, Fails, TypeOK, SoftDelete, Unlock
<1> DEFINE Deleted == /\ Ended(r)
                     /\ row[op[r].tenant] # "absent"
                     /\ mutex' = [mutex EXCEPT ![op[r].proc] = Nobody]
                     /\ row' = [row EXCEPT ![op[r].tenant] = "deleted"]
                     /\ deletedBy' = IF Creates(op[r].proc, op[r].tenant) THEN deletedBy
                                     ELSE [deletedBy EXCEPT ![op[r].tenant] = @ \cup {op[r].proc}]
           Failed == /\ Ended(r)
                    /\ mutex' = [mutex EXCEPT ![op[r].proc] = Nobody]
                    /\ UNCHANGED <<row, deletedBy>>
<1>3. /\ Deleted \/ Failed
      /\ UNCHANGED <<partition, config, queue, phase, restore, declared, pool, subscribed,
                    openTx, sent, boots, linked, answer, maker, doomed, updater, unrouted, cut>>
  BY <1>1, EndEnds DEF IInv, SoftDelete, procVars, tmVars, Unlock
<1>4. CASE Deleted
  <2>1. TypeOK'
    BY <1>1, <1>2, <1>3, <1>4, PoolSet DEF IInv, TypeOK, Ended, OpOK, Active
  <2>2. MutexOwner'
    BY <1>1, <1>2, <1>3, <1>4 DEF IInv, MutexOwner, TypeOK, Ended, OthersStay, Active
  <2>3. CreationsOK'
    <3>1. op[r].tenant \in doomed
      BY <1>1 DEF IInv, OthersOK
    <3>2. \A u \in Tenant : row'[u] = IF u = op[r].tenant THEN "deleted" ELSE row[u]
      BY <1>1, <1>4 DEF IInv, TypeOK, Active
    <3>3. ASSUME NEW q \in Request, op'[q].kind = "create"
          PROVE  /\ op'[q] = op[q] /\ op[q].kind = "create" /\ op[q].tenant \in Tenant
                 /\ op[q].at # "insert" \/ op[q].tenant # op[r].tenant
      <4>1. op'[q] = op[q]
        BY <1>4, <3>3 DEF Ended, OthersStay
      <4> QED
        BY <1>1, <3>1, <3>3, <4>1 DEF IInv, CreationsOK
    <3>4. \A q \in Request :
             \/ op'[q].tenant = op[q].tenant /\ op'[q].kind = op[q].kind
             \/ op'[q].tenant = Nobody /\ op'[q].kind = "idle"
      BY <1>4 DEF Ended, OthersStay
    <3> QED
      BY <1>3, <3>1, <3>2, <3>3, <3>4 DEF IInv, CreationsOK
  <2>4. OthersOK'
    BY <1>1, <1>2, <1>3, <1>4 DEF IInv, OthersOK, Ended, OthersStay, Active
  <2>5. PhasesOK'
    BY <1>1, <1>2, <1>3, <1>4 DEF IInv, PhasesOK, Ended, OthersStay, Active
  <2>6. AbsentOK'
    BY <1>1, <1>2, <1>3, <1>4 DEF IInv, AbsentOK, Ended, OthersStay, Active
  <2>7. DeletedOK'
    <3>1. ASSUME NEW z \in Proc, NEW u \in Tenant, Creates(z, u)' PROVE Creates(z, u)
      BY <1>4, <3>1 DEF Creates, Ended, OthersStay
    <3>2. /\ op[r].tenant \in doomed /\ pool[op[r].proc][op[r].tenant] = NoCount
          /\ restore[op[r].proc] = {} /\ declared[op[r].proc] = Nobody
      BY <1>1 DEF IInv, OthersOK, PhasesOK, Active
    <3>3. \A u \in Tenant : row'[u] = IF u = op[r].tenant THEN "deleted" ELSE row[u]
      BY <1>1, <1>4 DEF IInv, TypeOK, Active
    <3>4. \A u \in Tenant : \A z \in deletedBy'[u] :
             \/ z \in deletedBy[u]
             \/ u = op[r].tenant /\ z = op[r].proc /\ ~Creates(z, u)
      BY <1>1, <1>4 DEF IInv, TypeOK, Active
    <3>5. \A u \in Tenant : deletedBy[u] \subseteq Proc
      BY DEF IInv, TypeOK
    <3> QED
      BY <1>1, <1>3, <3>1, <3>2, <3>3, <3>4, <3>5, LifecycleAssumption DEF IInv, DeletedOK, Active
  <2>8. CreatedIsComplete'
    BY <1>1, <1>2, <1>3, <1>4 DEF IInv, CreatedIsComplete, OthersOK, Ended, OthersStay, Active
  <2>9. UpdatesOK'
    BY <1>1, <1>2, <1>3, <1>4 DEF IInv, UpdatesOK, Ended, OthersStay, Active
  <2>10. ConfigAgrees'
    BY <1>1, <1>2, <1>3, <1>4 DEF IInv, ConfigAgrees, At, Ended, OthersStay, Active
  <2>11. AcceptedIsRouted'
    BY <1>1, <1>2, <1>3, <1>4 DEF IInv, AcceptedIsRouted, Ended, OthersStay, Active
  <2> QED
    BY <2>1, <2>2, <2>3, <2>4, <2>5, <2>6, <2>7, <2>8, <2>9, <2>10, <2>11 DEF IInv
<1>5. CASE Failed
  <2>1. TypeOK'
    BY <1>1, <1>2, <1>3, <1>5, PoolSet DEF IInv, TypeOK, Ended, OpOK, Active
  <2>2. MutexOwner'
    BY <1>1, <1>2, <1>3, <1>5 DEF IInv, MutexOwner, TypeOK, Ended, OthersStay, Active
  <2>3. CreationsOK'
    BY <1>1, <1>2, <1>3, <1>5 DEF IInv, CreationsOK, Ended, OthersStay, Active
  <2>4. OthersOK'
    BY <1>1, <1>2, <1>3, <1>5 DEF IInv, OthersOK, Ended, OthersStay, Active
  <2>5. PhasesOK'
    BY <1>1, <1>2, <1>3, <1>5 DEF IInv, PhasesOK, Ended, OthersStay, Active
  <2>6. UpdatesOK'
    BY <1>1, <1>2, <1>3, <1>5 DEF IInv, UpdatesOK, Ended, OthersStay, Active
  <2>7. ConfigAgrees'
    BY <1>1, <1>2, <1>3, <1>5 DEF IInv, ConfigAgrees, At, Ended, OthersStay, Active
  <2>8. AbsentOK' /\ DeletedOK' /\ CreatedIsComplete' /\ AcceptedIsRouted'
    BY <1>1, <1>2, <1>3, <1>5 DEF IInv, AbsentOK, DeletedOK, CreatedIsComplete,
          AcceptedIsRouted, Creates, OthersStay, Ended, Active
  <2> QED
    BY <2>1, <2>2, <2>3, <2>4, <2>5, <2>6, <2>7, <2>8 DEF IInv
<1> QED
  BY <1>3, <1>4, <1>5

-----------------------------------------------------------------------------
(* Configuration and publication *)

(* An update is not about a tenant being created. *)
LEMMA BeginUpdateKeeps ==
  ASSUME IInv, NEW r \in Request, NEW p \in Proc, BeginUpdate(r, p)
  PROVE  IInv'
<1> USE LifecycleAssumption
<1>1. PICK t \in Tenant, n \in Count :
          /\ Begin(r, p, "update", "lock", t, n)
          /\ Named(t)
          /\ UNCHANGED <<row, partition, config, queue, phase, restore, declared, pool,
                    subscribed, mutex, openTx, faults, boots, linked, answer, maker, doomed,
                    deletedBy, updater, unrouted, cut>>
  BY DEF BeginUpdate, dbVars, procVars, tmVars, history
<1>2. Begun(r, p, "update", "lock", t, n) /\ sent' \in 0 .. MaxRequests
  BY <1>1, BeginBegins DEF IInv, Stage
<1>0. \A q \in Request : op[q].kind = "create" /\ op[q].tenant = t => op[q].at # "insert"
  BY <1>1, AtActive DEF IInv, CreationsOK, Named, Creates, Active
<1>3. IF p = Api THEN phase[p] \in {"serving", "signalled", "stopped"} ELSE phase[p] = "serving"
  BY <1>1 DEF Begin, Accepts
<1>4. TypeOK'
  BY <1>1, <1>2, <1>3, PoolSet DEF IInv, TypeOK, Begun, OpOK
<1>5. MutexOwner'
  BY <1>1, <1>2, <1>3 DEF IInv, MutexOwner, Begun, OthersStay
<1>6. CreationsOK'
  BY <1>0, <1>1, <1>2, <1>3 DEF IInv, CreationsOK, Begun, OthersStay
<1>7. OthersOK'
  BY <1>1, <1>2, <1>3 DEF IInv, OthersOK, Begun, OthersStay
<1>8. PhasesOK'
  BY <1>1, <1>2, <1>3 DEF IInv, PhasesOK, Begun, OthersStay
<1>9. UpdatesOK'
  BY <1>1, <1>2, <1>3 DEF IInv, UpdatesOK, Begun, OthersStay
<1>10. ConfigAgrees'
  BY <1>1, <1>2, <1>3 DEF IInv, ConfigAgrees, At, Begun, OthersStay
<1>11. AbsentOK' /\ DeletedOK' /\ CreatedIsComplete' /\ AcceptedIsRouted'
  BY <1>1, <1>2, <1>3 DEF IInv, AbsentOK, DeletedOK, CreatedIsComplete, AcceptedIsRouted,
        Creates, OthersStay, Begun
<1> QED
  BY <1>4, <1>5, <1>6, <1>7, <1>8, <1>9, <1>10, <1>11 DEF IInv

(* An update takes a free mutex. *)
LEMMA LockUpdateKeeps ==
  ASSUME IInv, NEW r \in Request, LockUpdate(r)
  PROVE  IInv'
<1> USE LifecycleAssumption
<1>1. Active(r) /\ op[r].kind = "update" /\ op[r].at = "lock"
  BY AtActive DEF IInv, LockUpdate, At, Lock, At
<1>2. faults' \in 0 .. MaxFaults
  BY FaultTyped DEF IInv, Fails, TypeOK, LockUpdate, Lock, At
<1>3. /\ Moved(r, "config")
      /\ mutex[op[r].proc] = Nobody
      /\ mutex' = [mutex EXCEPT ![op[r].proc] = r]
      /\ UNCHANGED <<row, partition, config, queue, phase, restore, declared, pool,
                    subscribed, openTx, sent, boots, linked, answer, maker, doomed,
                    deletedBy, updater, unrouted, cut>>
  BY <1>1, GotoMoves, EndEnds DEF IInv, LockUpdate, Stage, dbVars, procVars, tmVars, history,
        Lock, At
<1>4. TypeOK'
  BY <1>1, <1>2, <1>3, PoolSet DEF IInv, TypeOK, Moved, OpOK, Active
<1>5. MutexOwner'
  BY <1>1, <1>2, <1>3 DEF IInv, MutexOwner, TypeOK, Moved, OthersStay, Active
<1>6. CreationsOK'
  BY <1>1, <1>2, <1>3 DEF IInv, CreationsOK, Moved, OthersStay, Active
<1>7. OthersOK'
  BY <1>1, <1>2, <1>3 DEF IInv, OthersOK, Moved, OthersStay, Active
<1>8. PhasesOK'
  BY <1>1, <1>2, <1>3 DEF IInv, PhasesOK, Moved, OthersStay, Active
<1>9. UpdatesOK'
  BY <1>1, <1>2, <1>3 DEF IInv, UpdatesOK, Moved, OthersStay, Active
<1>10. ConfigAgrees'
  BY <1>1, <1>2, <1>3 DEF IInv, ConfigAgrees, At, Moved, OthersStay, Active
<1>11. AbsentOK' /\ DeletedOK' /\ CreatedIsComplete' /\ AcceptedIsRouted'
  BY <1>1, <1>2, <1>3 DEF IInv, AbsentOK, DeletedOK, CreatedIsComplete, AcceptedIsRouted,
        Creates, OthersStay, Moved, Begun, Active
<1> QED
  BY <1>4, <1>5, <1>6, <1>7, <1>8, <1>9, <1>10, <1>11 DEF IInv

(* The process that writes the configuration becomes the updater, and no   *)
(* other of its updates can be before its resize: it would hold the same   *)
(* mutex.                                                                  *)
LEMMA UpdateConfigKeeps ==
  ASSUME IInv, NEW r \in Request, UpdateConfig(r)
  PROVE  IInv'
<1> USE LifecycleAssumption
<1>1. Active(r) /\ op[r].kind = "update" /\ op[r].at = "config"
  BY AtActive DEF IInv, UpdateConfig, At, Unlock
<1>2. faults' \in 0 .. MaxFaults
  BY FaultTyped DEF IInv, Fails, TypeOK, UpdateConfig, Unlock
<1> DEFINE Ok == /\ Moved(r, "resize")
                /\ config[op[r].tenant] # NoCount
                /\ config' = [config EXCEPT ![op[r].tenant] = op[r].count]
                /\ updater' = [updater EXCEPT ![op[r].tenant] = op[r].proc]
                /\ UNCHANGED <<mutex>>
           Failed == /\ Ended(r)
                    /\ mutex' = [mutex EXCEPT ![op[r].proc] = Nobody]
                    /\ UNCHANGED <<config, updater>>
<1>3. /\ Ok \/ Failed
      /\ UNCHANGED <<row, partition, queue, phase, restore, declared, pool, subscribed,
                    openTx, sent, boots, linked, answer, maker, doomed, deletedBy, unrouted, cut>>
  BY <1>1, GotoMoves, EndEnds DEF IInv, UpdateConfig, Stage, dbVars, procVars, tmVars, history,
        Unlock
<1>4. CASE Ok
  <2>1. TypeOK'
    BY <1>1, <1>2, <1>3, <1>4, PoolSet DEF IInv, TypeOK, Moved, OpOK, Active
  <2>2. MutexOwner'
    BY <1>1, <1>2, <1>3, <1>4 DEF IInv, MutexOwner, Moved, OthersStay, Active
  <2>3. CreationsOK'
    BY <1>1, <1>2, <1>3, <1>4 DEF IInv, CreationsOK, Moved, OthersStay, Active
  <2>4. OthersOK'
    BY <1>1, <1>2, <1>3, <1>4 DEF IInv, OthersOK, Moved, OthersStay, Active
  <2>5. PhasesOK'
    BY <1>1, <1>2, <1>3, <1>4 DEF IInv, PhasesOK, Moved, OthersStay, Active
  <2>6. AbsentOK'
    BY <1>1, <1>2, <1>3, <1>4 DEF IInv, AbsentOK, Moved, OthersStay, Active
  <2>7. UpdatesOK'
    <3>1. ASSUME NEW q \in Request, op'[q].kind = "update", op'[q].at = "resize",
                updater'[op'[q].tenant] = op'[q].proc
         PROVE  config'[op'[q].tenant] = op'[q].count
      <4>1. CASE q = r
        BY <1>1, <1>4, <4>1 DEF IInv, TypeOK, Moved, Active
      <4>2. CASE q # r
        <5>1. op'[q] = op[q] /\ op[q].proc \in Proc /\ op[q].tenant \in Tenant
          BY <1>4, <3>1, <4>2, AtActive DEF IInv, Moved, OthersStay, Active
        <5>2. op[q].tenant # op[r].tenant
          <6>1. SUFFICES ASSUME op[q].tenant = op[r].tenant PROVE FALSE
            OBVIOUS
          <6>2. op[q].proc = op[r].proc
            BY <1>1, <1>4, <3>1, <5>1, <6>1 DEF IInv, TypeOK, Active
          <6> QED
            BY <1>1, <3>1, <4>2, <5>1, <6>2 DEF IInv, MutexOwner, Active
        <5> QED
          BY <1>4, <3>1, <5>1, <5>2 DEF IInv, TypeOK, UpdatesOK
      <4> QED
        BY <4>1, <4>2
    <3>2. ASSUME NEW t \in Tenant, updater'[t] # Nobody PROVE config'[t] # NoCount
      BY <1>1, <1>4, <3>2 DEF IInv, TypeOK, UpdatesOK, OthersOK, Active
    <3> QED
      BY <3>1, <3>2 DEF UpdatesOK
  <2>8. ConfigAgrees'
    <3>1. SUFFICES ASSUME NEW t \in Tenant, NEW p \in Proc, updater'[t] = p,
                         ~\E q \in Request : At(q, "update", "resize")' /\ op'[q].tenant = t
                                             /\ op'[q].proc = p
                  PROVE  pool'[p][t] \in {NoCount, config'[t]}
      BY DEF ConfigAgrees
    <3>2. t # op[r].tenant
      BY <1>1, <1>4, <3>1 DEF IInv, TypeOK, Moved, Active, At
    <3>3. updater[t] = p /\ config'[t] = config[t] /\ pool' = pool
      BY <1>1, <1>3, <1>4, <3>1, <3>2 DEF IInv, TypeOK, Active
    <3>4. ~\E q \in Request : At(q, "update", "resize") /\ op[q].tenant = t /\ op[q].proc = p
      BY <1>1, <1>4, <3>1 DEF Moved, OthersStay, At
    <3> QED
      BY <3>3, <3>4 DEF IInv, ConfigAgrees
  <2>9. DeletedOK' /\ CreatedIsComplete' /\ AcceptedIsRouted'
    BY <1>1, <1>2, <1>3, <1>4 DEF IInv, DeletedOK, CreatedIsComplete, AcceptedIsRouted, Creates,
          OthersStay, Moved, Ended, Active
  <2> QED
    BY <2>1, <2>2, <2>3, <2>4, <2>5, <2>6, <2>7, <2>8, <2>9 DEF IInv
<1>5. CASE Failed
  <2>1. TypeOK'
    BY <1>1, <1>2, <1>3, <1>5, PoolSet DEF IInv, TypeOK, Ended, OpOK, Active
  <2>2. MutexOwner'
    BY <1>1, <1>2, <1>3, <1>5 DEF IInv, MutexOwner, TypeOK, Ended, OthersStay, Active
  <2>3. CreationsOK'
    BY <1>1, <1>2, <1>3, <1>5 DEF IInv, CreationsOK, Ended, OthersStay, Active
  <2>4. OthersOK'
    BY <1>1, <1>2, <1>3, <1>5 DEF IInv, OthersOK, Ended, OthersStay, Active
  <2>5. PhasesOK'
    BY <1>1, <1>2, <1>3, <1>5 DEF IInv, PhasesOK, Ended, OthersStay, Active
  <2>6. UpdatesOK'
    BY <1>1, <1>2, <1>3, <1>5 DEF IInv, UpdatesOK, Ended, OthersStay, Active
  <2>7. ConfigAgrees'
    BY <1>1, <1>2, <1>3, <1>5 DEF IInv, ConfigAgrees, At, Ended, OthersStay, Active
  <2>8. AbsentOK' /\ DeletedOK' /\ CreatedIsComplete' /\ AcceptedIsRouted'
    BY <1>1, <1>2, <1>3, <1>5 DEF IInv, AbsentOK, DeletedOK, CreatedIsComplete,
          AcceptedIsRouted, Creates, OthersStay, Ended, Active
  <2> QED
    BY <2>1, <2>2, <2>3, <2>4, <2>5, <2>6, <2>7, <2>8 DEF IInv
<1> QED
  BY <1>3, <1>4, <1>5

(* The consumer gets the count the same request has written, if nobody     *)
(* wrote another since.                                                    *)
LEMMA ResizeKeeps ==
  ASSUME IInv, NEW r \in Request, Resize(r)
  PROVE  IInv'
<1> USE LifecycleAssumption
<1>1. Active(r) /\ op[r].kind = "update" /\ op[r].at = "resize"
  BY AtActive DEF IInv, Resize, At, Unlock
<1>2. faults' \in 0 .. MaxFaults
  BY FaultTyped DEF IInv, Fails, TypeOK, Resize, Unlock
<1> DEFINE Resized == /\ Ended(r)
                     /\ pool[op[r].proc][op[r].tenant] # NoCount
                     /\ mutex' = [mutex EXCEPT ![op[r].proc] = Nobody]
                     /\ pool' = [pool EXCEPT ![op[r].proc][op[r].tenant] = op[r].count]
           Missing == /\ Ended(r)
                     /\ pool[op[r].proc][op[r].tenant] = NoCount
                     /\ mutex' = [mutex EXCEPT ![op[r].proc] = Nobody]
                     /\ UNCHANGED <<pool>>
<1>3. /\ Resized \/ Missing
      /\ UNCHANGED <<row, partition, config, queue, phase, restore, declared, subscribed,
                    openTx, sent, boots, linked, answer, maker, doomed, deletedBy, updater,
                    unrouted, cut>>
  BY <1>1, GotoMoves, EndEnds DEF IInv, Resize, Stage, dbVars, procVars, tmVars, history,
        Unlock
<1>4. CASE Resized
  <2>1. TypeOK'
    BY <1>1, <1>2, <1>3, <1>4, PoolSet DEF IInv, TypeOK, Ended, OpOK, Active
  <2>2. MutexOwner'
    BY <1>1, <1>4, UnlockKeepsMutex DEF IInv
  <2>3. CreationsOK'
    BY <1>1, <1>2, <1>3, <1>4 DEF IInv, CreationsOK, Ended, OthersStay, Active
  <2>4. OthersOK'
    BY <1>1, <1>2, <1>3, <1>4 DEF IInv, OthersOK, Ended, OthersStay, Active
  <2>5. PhasesOK'
    BY <1>1, <1>2, <1>3, <1>4 DEF IInv, PhasesOK, Ended, OthersStay, Active
  <2>6. AbsentOK'
    BY <1>1, <1>2, <1>3, <1>4 DEF IInv, AbsentOK, Ended, OthersStay, Active
  <2>7. DeletedOK'
    BY <1>1, <1>2, <1>3, <1>4 DEF IInv, DeletedOK, Ended, OthersStay, Active, Creates
  <2>8. CreatedIsComplete'
    BY <1>1, <1>2, <1>3, <1>4 DEF IInv, CreatedIsComplete, OthersOK, Ended, OthersStay, Active
  <2>9. UpdatesOK'
    BY <1>1, <1>2, <1>3, <1>4 DEF IInv, UpdatesOK, Ended, OthersStay, Active
  <2>10. ConfigAgrees'
    <3>1. SUFFICES ASSUME NEW t \in Tenant, NEW p \in Proc, updater'[t] = p,
                         ~\E q \in Request : At(q, "update", "resize")' /\ op'[q].tenant = t
                                             /\ op'[q].proc = p
                  PROVE  pool'[p][t] \in {NoCount, config'[t]}
      BY DEF ConfigAgrees
    <3>2. CASE t = op[r].tenant /\ p = op[r].proc
      <4>1. config[t] = op[r].count
        BY <1>1, <1>3, <3>1, <3>2 DEF IInv, UpdatesOK
      <4> QED
        BY <1>1, <1>3, <1>4, <3>2, <4>1 DEF IInv, TypeOK, Active
    <3>3. CASE ~(t = op[r].tenant /\ p = op[r].proc)
      <4>1. pool'[p][t] = pool[p][t]
        BY <1>1, <1>4, <3>3 DEF IInv, TypeOK, Active
      <4>2. ~\E q \in Request : At(q, "update", "resize") /\ op[q].tenant = t /\ op[q].proc = p
        BY <1>4, <3>1, <3>3 DEF Ended, OthersStay, At
      <4> QED
        BY <1>3, <3>1, <4>1, <4>2 DEF IInv, ConfigAgrees
    <3> QED
      BY <3>2, <3>3
  <2>11. AcceptedIsRouted'
    BY <1>1, <1>2, <1>3, <1>4 DEF IInv, AcceptedIsRouted, Ended, OthersStay, Active
  <2> QED
    BY <2>1, <2>2, <2>3, <2>4, <2>5, <2>6, <2>7, <2>8, <2>9, <2>10, <2>11 DEF IInv
<1>5. CASE Missing
  <2>1. TypeOK'
    BY <1>1, <1>2, <1>3, <1>5, PoolSet DEF IInv, TypeOK, Ended, OpOK, Active
  <2>2. MutexOwner'
    BY <1>1, <1>2, <1>3, <1>5 DEF IInv, MutexOwner, TypeOK, Ended, OthersStay, Active
  <2>3. CreationsOK'
    BY <1>1, <1>2, <1>3, <1>5 DEF IInv, CreationsOK, Ended, OthersStay, Active
  <2>4. OthersOK'
    BY <1>1, <1>2, <1>3, <1>5 DEF IInv, OthersOK, Ended, OthersStay, Active
  <2>5. PhasesOK'
    BY <1>1, <1>2, <1>3, <1>5 DEF IInv, PhasesOK, Ended, OthersStay, Active
  <2>6. UpdatesOK'
    BY <1>1, <1>2, <1>3, <1>5 DEF IInv, UpdatesOK, Ended, OthersStay, Active
  <2>7. ConfigAgrees'
    BY <1>1, <1>2, <1>3, <1>5 DEF IInv, ConfigAgrees, At, Ended, OthersStay, Active
  <2>8. AbsentOK' /\ DeletedOK' /\ CreatedIsComplete' /\ AcceptedIsRouted'
    BY <1>1, <1>2, <1>3, <1>5 DEF IInv, AbsentOK, DeletedOK, CreatedIsComplete,
          AcceptedIsRouted, Creates, OthersStay, Ended
  <2> QED
    BY <2>1, <2>2, <2>3, <2>4, <2>5, <2>6, <2>7, <2>8 DEF IInv
<1> QED
  BY <1>3, <1>4, <1>5

(* A configuration is inserted only where there is none, so that nobody    *)
(* has updated it.                                                         *)
LEMMA InsertConfigKeeps ==
  ASSUME IInv, NEW t \in Tenant, InsertConfig(t)
  PROVE  IInv'
<1> USE LifecycleAssumption
<1>1. /\ row[t] # "absent" /\ config[t] = NoCount
      /\ config' = [config EXCEPT ![t] = DefaultCount]
      /\ UNCHANGED <<row, partition, queue, phase, restore, declared, pool, subscribed, mutex,
                    openTx, op, sent, faults, boots, linked, answer, maker, doomed,
                    deletedBy, updater, unrouted, cut>>
  BY FaultTyped DEF IInv, Fails, InsertConfig, dbVars, procVars, tmVars, history
<1>2. TypeOK'
  BY <1>1, PoolSet DEF IInv, TypeOK, OpOK, Phase
<1>3. MutexOwner'
  BY <1>1 DEF IInv, MutexOwner
<1>4. CreationsOK'
  BY <1>1 DEF IInv, CreationsOK
<1>5. OthersOK'
  BY <1>1 DEF IInv, OthersOK
<1>6. PhasesOK'
  BY <1>1 DEF IInv, PhasesOK
<1>7. AbsentOK'
  BY <1>1 DEF IInv, AbsentOK
<1>8. UpdatesOK'
  BY <1>1 DEF IInv, UpdatesOK, OthersOK
<1>9. ConfigAgrees'
  BY <1>1 DEF IInv, ConfigAgrees, At
<1>10. DeletedOK' /\ CreatedIsComplete' /\ AcceptedIsRouted'
  BY <1>1 DEF IInv, DeletedOK, CreatedIsComplete, AcceptedIsRouted, Creates, OthersStay
<1> QED
  BY <1>2, <1>3, <1>4, <1>5, <1>6, <1>7, <1>8, <1>9, <1>10 DEF IInv

(* A publication is not about a tenant being created. *)
LEMMA BeginPublishKeeps ==
  ASSUME IInv, NEW r \in Request, NEW p \in Proc, BeginPublish(r, p)
  PROVE  IInv'
<1> USE LifecycleAssumption
<1>1. PICK t \in Tenant :
          /\ Begin(r, p, "publish", "insert", t, NoCount)
          /\ Named(t)
          /\ UNCHANGED <<row, partition, config, queue, phase, restore, declared, pool,
                    subscribed, mutex, openTx, faults, boots, linked, answer, maker, doomed,
                    deletedBy, updater, unrouted, cut>>
  BY DEF BeginPublish, dbVars, procVars, tmVars, history
<1>2. Begun(r, p, "publish", "insert", t, NoCount) /\ sent' \in 0 .. MaxRequests
  BY <1>1, BeginBegins DEF IInv, Stage
<1>0. \A q \in Request : op[q].kind = "create" /\ op[q].tenant = t => op[q].at # "insert"
  BY <1>1, AtActive DEF IInv, CreationsOK, Named, Creates, Active
<1>3. IF p = Api THEN phase[p] \in {"serving", "signalled", "stopped"} ELSE phase[p] = "serving"
  BY <1>1 DEF Begin, Accepts
<1>4. TypeOK'
  BY <1>1, <1>2, <1>3, PoolSet DEF IInv, TypeOK, Begun, OpOK
<1>5. MutexOwner'
  BY <1>1, <1>2, <1>3 DEF IInv, MutexOwner, Begun, OthersStay
<1>6. CreationsOK'
  BY <1>0, <1>1, <1>2, <1>3 DEF IInv, CreationsOK, Begun, OthersStay
<1>7. OthersOK'
  BY <1>1, <1>2, <1>3 DEF IInv, OthersOK, Begun, OthersStay
<1>8. PhasesOK'
  BY <1>1, <1>2, <1>3 DEF IInv, PhasesOK, Begun, OthersStay
<1>9. UpdatesOK'
  BY <1>1, <1>2, <1>3 DEF IInv, UpdatesOK, Begun, OthersStay
<1>10. ConfigAgrees'
  BY <1>1, <1>2, <1>3 DEF IInv, ConfigAgrees, At, Begun, OthersStay
<1>11. AbsentOK' /\ DeletedOK' /\ CreatedIsComplete' /\ AcceptedIsRouted'
  BY <1>1, <1>2, <1>3 DEF IInv, AbsentOK, DeletedOK, CreatedIsComplete, AcceptedIsRouted,
        Creates, OthersStay, Begun
<1> QED
  BY <1>4, <1>5, <1>6, <1>7, <1>8, <1>9, <1>10, <1>11 DEF IInv

(* Only a tenant with a partition gets messages. *)
LEMMA InsertMessageKeeps ==
  ASSUME IInv, NEW r \in Request, InsertMessage(r)
  PROVE  IInv'
<1> USE LifecycleAssumption
<1>1. Active(r) /\ op[r].kind = "publish" /\ op[r].at = "insert"
  BY AtActive DEF IInv, InsertMessage, At
<1>2. faults' \in 0 .. MaxFaults
  BY FaultTyped DEF IInv, Fails, TypeOK, InsertMessage
<1> DEFINE Ok == /\ Moved(r, "route")
                /\ op[r].tenant \in partition
           Failed == /\ Ended(r)
<1>3. /\ Ok \/ Failed
      /\ UNCHANGED <<row, partition, config, queue, phase, restore, declared, pool,
                    subscribed, mutex, openTx, sent, boots, linked, answer, maker, doomed,
                    deletedBy, updater, unrouted, cut>>
  BY <1>1, GotoMoves, EndEnds DEF IInv, InsertMessage, Stage, dbVars, procVars, tmVars, history
<1>4. CASE Ok
  <2>1. TypeOK'
    BY <1>1, <1>2, <1>3, <1>4, PoolSet DEF IInv, TypeOK, Moved, OpOK, Active
  <2>2. MutexOwner'
    BY <1>1, <1>2, <1>3, <1>4 DEF IInv, MutexOwner, Moved, OthersStay, Active
  <2>3. CreationsOK'
    BY <1>1, <1>2, <1>3, <1>4 DEF IInv, CreationsOK, Moved, OthersStay, Active
  <2>4. OthersOK'
    BY <1>1, <1>2, <1>3, <1>4 DEF IInv, OthersOK, Moved, OthersStay, Active
  <2>5. PhasesOK'
    BY <1>1, <1>2, <1>3, <1>4 DEF IInv, PhasesOK, Moved, OthersStay, Active
  <2>6. UpdatesOK'
    BY <1>1, <1>2, <1>3, <1>4 DEF IInv, UpdatesOK, Moved, OthersStay, Active
  <2>7. ConfigAgrees'
    BY <1>1, <1>2, <1>3, <1>4 DEF IInv, ConfigAgrees, At, Moved, OthersStay, Active
  <2>8. AbsentOK' /\ DeletedOK' /\ CreatedIsComplete' /\ AcceptedIsRouted'
    BY <1>1, <1>2, <1>3, <1>4 DEF IInv, AbsentOK, DeletedOK, CreatedIsComplete,
          AcceptedIsRouted, Creates, OthersStay, Moved, Ended, Begun, Active
  <2> QED
    BY <2>1, <2>2, <2>3, <2>4, <2>5, <2>6, <2>7, <2>8 DEF IInv
<1>5. CASE Failed
  <2>1. TypeOK'
    BY <1>1, <1>2, <1>3, <1>5, PoolSet DEF IInv, TypeOK, Ended, OpOK, Active
  <2>2. MutexOwner'
    BY <1>1, <1>2, <1>3, <1>5 DEF IInv, MutexOwner, Ended, OthersStay, Active
  <2>3. CreationsOK'
    BY <1>1, <1>2, <1>3, <1>5 DEF IInv, CreationsOK, Ended, OthersStay, Active
  <2>4. OthersOK'
    BY <1>1, <1>2, <1>3, <1>5 DEF IInv, OthersOK, Ended, OthersStay, Active
  <2>5. PhasesOK'
    BY <1>1, <1>2, <1>3, <1>5 DEF IInv, PhasesOK, Ended, OthersStay, Active
  <2>6. UpdatesOK'
    BY <1>1, <1>2, <1>3, <1>5 DEF IInv, UpdatesOK, Ended, OthersStay, Active
  <2>7. ConfigAgrees'
    BY <1>1, <1>2, <1>3, <1>5 DEF IInv, ConfigAgrees, At, Ended, OthersStay, Active
  <2>8. AbsentOK' /\ DeletedOK' /\ CreatedIsComplete' /\ AcceptedIsRouted'
    BY <1>1, <1>2, <1>3, <1>5 DEF IInv, AbsentOK, DeletedOK, CreatedIsComplete,
          AcceptedIsRouted, Creates, OthersStay, Moved, Ended, Active
  <2> QED
    BY <2>1, <2>2, <2>3, <2>4, <2>5, <2>6, <2>7, <2>8 DEF IInv
<1> QED
  BY <1>3, <1>4, <1>5

(* A message is lost only where a partition is and no queue: not at a      *)
(* created tenant that is not doomed, and not while one is being created.  *)
LEMMA RouteMessageKeeps ==
  ASSUME IInv, NEW r \in Request, RouteMessage(r)
  PROVE  IInv'
<1> USE LifecycleAssumption
<1>1. Active(r) /\ op[r].kind = "publish" /\ op[r].at = "route"
  BY AtActive DEF IInv, RouteMessage, At
<1>2. faults' \in 0 .. MaxFaults
  BY FaultTyped DEF IInv, Fails, TypeOK, RouteMessage
<1> DEFINE Dropped == /\ Ended(r)
                     /\ op[r].tenant \notin queue /\ answer[op[r].tenant] = "created"
                     /\ unrouted' = unrouted \cup {op[r].tenant}
           Else == /\ Ended(r)
                  /\ UNCHANGED <<unrouted, cut>>
<1>3. /\ Dropped \/ Else
      /\ UNCHANGED <<row, partition, config, queue, phase, restore, declared, pool,
                    subscribed, mutex, openTx, sent, boots, linked, answer, maker, doomed,
                    deletedBy, updater, cut>>
  BY <1>1, GotoMoves, EndEnds DEF IInv, RouteMessage, Stage, dbVars, procVars, tmVars, history
<1>4. CASE Dropped
  <2>1. TypeOK'
    BY <1>1, <1>2, <1>3, <1>4, PoolSet DEF IInv, TypeOK, Ended, OpOK, Active
  <2>2. MutexOwner'
    BY <1>1, <1>2, <1>3, <1>4 DEF IInv, MutexOwner, Ended, OthersStay, Active
  <2>3. CreationsOK'
    BY <1>1, <1>2, <1>3, <1>4 DEF IInv, CreationsOK, Ended, OthersStay, Active
  <2>4. OthersOK'
    BY <1>1, <1>2, <1>3, <1>4 DEF IInv, OthersOK, Ended, OthersStay, Active
  <2>5. PhasesOK'
    BY <1>1, <1>2, <1>3, <1>4 DEF IInv, PhasesOK, Ended, OthersStay, Active
  <2>6. AbsentOK'
    BY <1>1, <1>2, <1>3, <1>4 DEF IInv, AbsentOK, OthersOK, Ended, OthersStay, Active
  <2>7. UpdatesOK'
    BY <1>1, <1>2, <1>3, <1>4 DEF IInv, UpdatesOK, Ended, OthersStay, Active
  <2>8. ConfigAgrees'
    BY <1>1, <1>2, <1>3, <1>4 DEF IInv, ConfigAgrees, At, Ended, OthersStay, Active
  <2>9. AcceptedIsRouted'
    BY <1>1, <1>3, <1>4 DEF IInv, AcceptedIsRouted, CreatedIsComplete, Active
  <2>10. DeletedOK' /\ CreatedIsComplete'
    BY <1>1, <1>2, <1>3, <1>4 DEF IInv, DeletedOK, CreatedIsComplete, Creates, OthersStay,
          Ended, Active
  <2> QED
    BY <2>1, <2>2, <2>3, <2>4, <2>5, <2>6, <2>7, <2>8, <2>9, <2>10 DEF IInv
<1>5. CASE Else
  <2>1. TypeOK'
    BY <1>1, <1>2, <1>3, <1>5, PoolSet DEF IInv, TypeOK, Ended, OpOK, Active
  <2>2. MutexOwner'
    BY <1>1, <1>2, <1>3, <1>5 DEF IInv, MutexOwner, Ended, OthersStay, Active
  <2>3. CreationsOK'
    BY <1>1, <1>2, <1>3, <1>5 DEF IInv, CreationsOK, Ended, OthersStay, Active
  <2>4. OthersOK'
    BY <1>1, <1>2, <1>3, <1>5 DEF IInv, OthersOK, Ended, OthersStay, Active
  <2>5. PhasesOK'
    BY <1>1, <1>2, <1>3, <1>5 DEF IInv, PhasesOK, Ended, OthersStay, Active
  <2>6. UpdatesOK'
    BY <1>1, <1>2, <1>3, <1>5 DEF IInv, UpdatesOK, Ended, OthersStay, Active
  <2>7. ConfigAgrees'
    BY <1>1, <1>2, <1>3, <1>5 DEF IInv, ConfigAgrees, At, Ended, OthersStay, Active
  <2>8. AbsentOK' /\ DeletedOK' /\ CreatedIsComplete' /\ AcceptedIsRouted'
    BY <1>1, <1>2, <1>3, <1>5 DEF IInv, AbsentOK, DeletedOK, CreatedIsComplete,
          AcceptedIsRouted, Creates, OthersStay, Ended, Active
  <2> QED
    BY <2>1, <2>2, <2>3, <2>4, <2>5, <2>6, <2>7, <2>8 DEF IInv
<1> QED
  BY <1>3, <1>4, <1>5

-----------------------------------------------------------------------------
(* Processes *)

(* A process that starts has no consumers yet, and a worker restores live  *)
(* tenants alone.                                                          *)
LEMMA BootKeeps ==
  ASSUME IInv, NEW p \in Proc, Boot(p)
  PROVE  IInv'
<1> USE LifecycleAssumption
<1>1. /\ phase[p] = "down"
      /\ boots' \in 0 .. MaxBoots
      /\ phase' = [phase EXCEPT ![p] = IF p = Api THEN "serving" ELSE "restoring"]
      /\ restore' = [restore EXCEPT ![p] = IF p = Api THEN {} ELSE {t \in Tenant : row[t] =
                    "live"}]
      /\ linked' = linked \cup {p}
      /\ UNCHANGED <<row, partition, config, queue, declared, pool, subscribed, mutex, openTx,
                    op, sent, faults, answer, maker, doomed, deletedBy, updater,
                    unrouted, cut>>
  BY FaultTyped DEF IInv, Fails, Boot, dbVars, procVars, tmVars, history, TypeOK
<1>2. TypeOK'
  BY <1>1, PoolSet DEF IInv, TypeOK, OpOK, Phase
<1>3. MutexOwner'
  BY <1>1 DEF IInv, MutexOwner
<1>4. CreationsOK'
  BY <1>1 DEF IInv, CreationsOK
<1>5. OthersOK'
  BY <1>1 DEF IInv, OthersOK
<1>6. PhasesOK'
  BY <1>1 DEF IInv, PhasesOK, TypeOK
<1>7. AbsentOK'
  BY <1>1 DEF IInv, AbsentOK
<1>8. DeletedOK'
  BY <1>1 DEF IInv, DeletedOK, Creates, OthersStay
<1>9. UpdatesOK'
  BY <1>1 DEF IInv, UpdatesOK
<1>10. ConfigAgrees'
  BY <1>1 DEF IInv, ConfigAgrees, At
<1>11. CreatedIsComplete' /\ AcceptedIsRouted'
  BY <1>1 DEF IInv, CreatedIsComplete, AcceptedIsRouted
<1> QED
  BY <1>2, <1>3, <1>4, <1>5, <1>6, <1>7, <1>8, <1>9, <1>10, <1>11 DEF IInv

(* Restoring declares the queue of a tenant that has a row. *)
LEMMA RestoreQueueKeeps ==
  ASSUME IInv, NEW p \in Proc, RestoreQueue(p)
  PROVE  IInv'
<1> USE LifecycleAssumption DEF Proc
<1> DEFINE Declared(t) == queue' = queue \cup {t} /\ declared' = [declared EXCEPT ![p] = t]
           Failed == UNCHANGED <<queue, declared>>
<1>1. PICK t \in restore[p] :
          /\ declared[p] = Nobody /\ faults' \in 0 .. MaxFaults
          /\ restore' = [restore EXCEPT ![p] = @ \ {t}]
          /\ Declared(t) \/ Failed
          /\ UNCHANGED <<row, partition, config, phase, pool, subscribed, mutex, openTx, op, sent,
                    boots, linked, answer, maker, doomed, deletedBy, updater, unrouted, cut>>
  BY FaultTyped DEF IInv, Fails, RestoreQueue, dbVars, tmVars, history
<1>2. t \in Tenant
  BY <1>1 DEF IInv, TypeOK
<1>3. CASE Declared(t)
  <2>1. TypeOK'
    BY <1>1, <1>2, <1>3, PoolSet DEF IInv, TypeOK
  <2>2. MutexOwner'
    BY <1>1, <1>2, <1>3 DEF IInv, MutexOwner
  <2>3. CreationsOK'
    BY <1>1, <1>2, <1>3 DEF IInv, CreationsOK
  <2>4. OthersOK'
    BY <1>1, <1>2, <1>3 DEF IInv, OthersOK
  <2>5. PhasesOK'
    BY <1>1, <1>2, <1>3 DEF IInv, PhasesOK
  <2>6. AbsentOK'
    BY <1>1, <1>2, <1>3 DEF IInv, AbsentOK
  <2>7. DeletedOK'
    BY <1>1, <1>2, <1>3 DEF IInv, DeletedOK, Creates, OthersStay
  <2>8. CreatedIsComplete'
    BY <1>1, <1>2, <1>3 DEF IInv, CreatedIsComplete
  <2>9. UpdatesOK'
    BY <1>1, <1>2, <1>3 DEF IInv, UpdatesOK
  <2>10. ConfigAgrees'
    BY <1>1, <1>2, <1>3 DEF IInv, ConfigAgrees, At
  <2>11. AcceptedIsRouted'
    BY <1>1, <1>2, <1>3 DEF IInv, AcceptedIsRouted
  <2> QED
    BY <2>1, <2>2, <2>3, <2>4, <2>5, <2>6, <2>7, <2>8, <2>9, <2>10, <2>11 DEF IInv
<1>4. CASE Failed
  <2>1. TypeOK'
    BY <1>1, <1>2, <1>4, PoolSet DEF IInv, TypeOK
  <2>2. MutexOwner'
    BY <1>1, <1>2, <1>4 DEF IInv, MutexOwner
  <2>3. CreationsOK'
    BY <1>1, <1>2, <1>4 DEF IInv, CreationsOK
  <2>4. OthersOK'
    BY <1>1, <1>2, <1>4 DEF IInv, OthersOK
  <2>5. PhasesOK'
    BY <1>1, <1>2, <1>4 DEF IInv, PhasesOK
  <2>6. AbsentOK'
    BY <1>1, <1>2, <1>4 DEF IInv, AbsentOK
  <2>7. DeletedOK'
    BY <1>1, <1>2, <1>4 DEF IInv, DeletedOK, Creates, OthersStay
  <2>8. CreatedIsComplete'
    BY <1>1, <1>2, <1>4 DEF IInv, CreatedIsComplete
  <2>9. UpdatesOK'
    BY <1>1, <1>2, <1>4 DEF IInv, UpdatesOK
  <2>10. ConfigAgrees'
    BY <1>1, <1>2, <1>4 DEF IInv, ConfigAgrees, At
  <2>11. AcceptedIsRouted'
    BY <1>1, <1>2, <1>4 DEF IInv, AcceptedIsRouted
  <2> QED
    BY <2>1, <2>2, <2>3, <2>4, <2>5, <2>6, <2>7, <2>8, <2>9, <2>10, <2>11 DEF IInv
<1> QED
  BY <1>1, <1>3, <1>4

(* Restoring starts a consumer of a tenant that has a row; the process has *)
(* neither deleted nor updated it.                                         *)
LEMMA RestoreConsumerKeeps ==
  ASSUME IInv, NEW p \in Proc, RestoreConsumer(p)
  PROVE  IInv'
<1> USE LifecycleAssumption
<1> DEFINE t == declared[p]
           Started == /\ pool' = [pool EXCEPT ![p][t] = DefaultCount]
                      /\ subscribed' = [subscribed EXCEPT ![p] = @ \cup {t}]
           Failed == UNCHANGED <<pool, subscribed>>
<1>1. /\ t \in Tenant /\ faults' \in 0 .. MaxFaults
      /\ declared' = [declared EXCEPT ![p] = Nobody]
      /\ Started \/ Failed
      /\ UNCHANGED <<row, partition, config, queue, phase, restore, mutex, openTx, op, sent,
                    boots, linked, answer, maker, doomed, deletedBy, updater, unrouted, cut>>
  BY FaultTyped DEF IInv, Fails, TypeOK, RestoreConsumer, StartConsumer, dbVars, tmVars, history
<1>2. phase[p] = "restoring"
  BY <1>1 DEF IInv, PhasesOK
<1>3. CASE Started
  <2>1. TypeOK'
    BY <1>1, <1>2, <1>3, PoolSet DEF IInv, TypeOK
  <2>2. MutexOwner'
    BY <1>1, <1>2, <1>3 DEF IInv, MutexOwner
  <2>3. CreationsOK'
    BY <1>1, <1>2, <1>3 DEF IInv, CreationsOK
  <2>4. OthersOK'
    BY <1>1, <1>2, <1>3 DEF IInv, OthersOK, PhasesOK
  <2>5. PhasesOK'
    BY <1>1, <1>2, <1>3 DEF IInv, PhasesOK
  <2>6. AbsentOK'
    BY <1>1, <1>2, <1>3 DEF IInv, AbsentOK
  <2>7. DeletedOK'
    BY <1>1, <1>2, <1>3 DEF IInv, DeletedOK, Creates, OthersStay
  <2>8. CreatedIsComplete'
    BY <1>1, <1>2, <1>3 DEF IInv, CreatedIsComplete
  <2>9. UpdatesOK'
    BY <1>1, <1>2, <1>3 DEF IInv, UpdatesOK
  <2>10. ConfigAgrees'
    BY <1>1, <1>2, <1>3 DEF IInv, ConfigAgrees, PhasesOK, At
  <2>11. AcceptedIsRouted'
    BY <1>1, <1>2, <1>3 DEF IInv, AcceptedIsRouted
  <2> QED
    BY <2>1, <2>2, <2>3, <2>4, <2>5, <2>6, <2>7, <2>8, <2>9, <2>10, <2>11 DEF IInv
<1>4. CASE Failed
  <2>1. TypeOK'
    BY <1>1, <1>2, <1>4, PoolSet DEF IInv, TypeOK
  <2>2. MutexOwner'
    BY <1>1, <1>2, <1>4 DEF IInv, MutexOwner
  <2>3. CreationsOK'
    BY <1>1, <1>2, <1>4 DEF IInv, CreationsOK
  <2>4. OthersOK'
    BY <1>1, <1>2, <1>4 DEF IInv, OthersOK
  <2>5. PhasesOK'
    BY <1>1, <1>2, <1>4 DEF IInv, PhasesOK
  <2>6. AbsentOK'
    BY <1>1, <1>2, <1>4 DEF IInv, AbsentOK
  <2>7. DeletedOK'
    BY <1>1, <1>2, <1>4 DEF IInv, DeletedOK, Creates, OthersStay
  <2>8. CreatedIsComplete'
    BY <1>1, <1>2, <1>4 DEF IInv, CreatedIsComplete
  <2>9. UpdatesOK'
    BY <1>1, <1>2, <1>4 DEF IInv, UpdatesOK
  <2>10. ConfigAgrees'
    BY <1>1, <1>2, <1>4 DEF IInv, ConfigAgrees, At
  <2>11. AcceptedIsRouted'
    BY <1>1, <1>2, <1>4 DEF IInv, AcceptedIsRouted
  <2> QED
    BY <2>1, <2>2, <2>3, <2>4, <2>5, <2>6, <2>7, <2>8, <2>9, <2>10, <2>11 DEF IInv
<1> QED
  BY <1>1, <1>3, <1>4

(* A process that has nothing left to restore may be asked for things. *)
LEMMA RestoredKeeps ==
  ASSUME IInv, NEW p \in Proc, Restored(p)
  PROVE  IInv'
<1> USE LifecycleAssumption
<1>1. /\ phase[p] = "restoring" /\ restore[p] = {} /\ declared[p] = Nobody
      /\ phase' = [phase EXCEPT ![p] = "serving"]
      /\ UNCHANGED <<row, partition, config, queue, restore, declared, pool, subscribed,
                    mutex, openTx, op, sent, faults, boots, linked, answer, maker, doomed,
                    deletedBy, updater, unrouted, cut>>
  BY FaultTyped DEF IInv, Fails, Restored, dbVars, procVars, tmVars, history
<1>2. TypeOK'
  BY <1>1, PoolSet DEF IInv, TypeOK, OpOK, Phase
<1>3. MutexOwner'
  BY <1>1 DEF IInv, MutexOwner
<1>4. CreationsOK'
  BY <1>1 DEF IInv, CreationsOK
<1>5. OthersOK'
  BY <1>1 DEF IInv, OthersOK
<1>6. PhasesOK'
  BY <1>1 DEF IInv, PhasesOK
<1>7. UpdatesOK'
  BY <1>1 DEF IInv, UpdatesOK
<1>8. ConfigAgrees'
  BY <1>1 DEF IInv, ConfigAgrees, At
<1>9. AbsentOK' /\ DeletedOK' /\ CreatedIsComplete' /\ AcceptedIsRouted'
  BY <1>1 DEF IInv, AbsentOK, DeletedOK, CreatedIsComplete, AcceptedIsRouted, Creates,
        OthersStay
<1> QED
  BY <1>2, <1>3, <1>4, <1>5, <1>6, <1>7, <1>8, <1>9 DEF IInv

(* The phases after restoring differ in nothing the invariant speaks of.  *)
LEMMA MoveKeeps ==
  ASSUME IInv, NEW p \in Proc, 
         NEW from \in Phase \ {"down", "restoring"}, NEW to \in Phase \ {"down", "restoring"},
         Move(p, from, to)
  PROVE  IInv'
<1> USE LifecycleAssumption
<1>1. /\ phase[p] = from /\ phase' = [phase EXCEPT ![p] = to]
      /\ UNCHANGED <<row, partition, config, queue, restore, declared, pool, subscribed,
                    mutex, openTx, op, sent, faults, boots, linked, answer, maker, doomed,
                    deletedBy, updater, unrouted, cut>>
  BY DEF Move, dbVars, tmVars, history
<1>2. TypeOK'
  BY <1>1, PoolSet DEF IInv, TypeOK, Phase
<1>3. MutexOwner'
  BY <1>1 DEF IInv, MutexOwner
<1>4. CreationsOK'
  BY <1>1 DEF IInv, CreationsOK
<1>5. OthersOK'
  BY <1>1 DEF IInv, OthersOK
<1>6. PhasesOK'
  BY <1>1 DEF IInv, PhasesOK
<1>7. UpdatesOK'
  BY <1>1 DEF IInv, UpdatesOK
<1>8. ConfigAgrees'
  BY <1>1 DEF IInv, ConfigAgrees, At
<1>9. AbsentOK' /\ DeletedOK' /\ CreatedIsComplete' /\ AcceptedIsRouted'
  BY <1>1 DEF IInv, AbsentOK, DeletedOK, CreatedIsComplete, AcceptedIsRouted, Creates,
        OthersStay
<1> QED
  BY <1>2, <1>3, <1>4, <1>5, <1>6, <1>7, <1>8, <1>9 DEF IInv

(* The consumers of one process go, which then no longer answers for the   *)
(* tenants it made.                                                        *)
LEMMA StopAllConsumersKeeps ==
  ASSUME IInv, NEW p \in Proc, StopAllConsumers(p)
  PROVE  IInv'
<1> USE LifecycleAssumption
<1>1. /\ phase[p] = "signalled"
      /\ phase' = [phase EXCEPT ![p] = "stopped"]
      /\ pool' = [pool EXCEPT ![p] = [t \in Tenant |-> NoCount]]
      /\ subscribed' = [subscribed EXCEPT ![p] = {}]
      /\ maker' = [t \in Tenant |-> IF maker[t] = p THEN Nobody ELSE maker[t]]
      /\ UNCHANGED <<row, partition, config, queue, restore, declared, mutex, openTx, op,
                    sent, faults, boots, linked, answer, doomed, deletedBy, updater,
                    unrouted, cut>>
  BY FaultTyped DEF IInv, Fails, StopAllConsumers, dbVars, procVars, tmVars, history
<1>2. TypeOK'
  BY <1>1, PoolSet DEF IInv, TypeOK, OpOK, Phase
<1>3. MutexOwner'
  BY <1>1 DEF IInv, MutexOwner
<1>4. CreationsOK'
  BY <1>1 DEF IInv, CreationsOK
<1>5. OthersOK'
  BY <1>1 DEF IInv, OthersOK, TypeOK
<1>6. PhasesOK'
  BY <1>1 DEF IInv, PhasesOK
<1>7. AbsentOK'
  BY <1>1 DEF IInv, AbsentOK
<1>8. DeletedOK'
  BY <1>1 DEF IInv, DeletedOK, Creates, OthersStay
<1>9. CreatedIsComplete'
  BY <1>1 DEF IInv, CreatedIsComplete
<1>10. UpdatesOK'
  BY <1>1 DEF IInv, UpdatesOK
<1>11. ConfigAgrees'
  BY <1>1 DEF IInv, ConfigAgrees, At
<1>12. AcceptedIsRouted'
  BY <1>1 DEF IInv, AcceptedIsRouted
<1> QED
  BY <1>2, <1>3, <1>4, <1>5, <1>6, <1>7, <1>8, <1>9, <1>10, <1>11, <1>12 DEF IInv

(* A subscription the broker takes is noted; everything else stays.        *)
LEMMA LinkKeeps ==
  ASSUME IInv, NEW p \in Proc, CancelConsumer(p) \/ LoseConnection(p)
  PROVE  IInv'
<1> USE LifecycleAssumption
<1>1. /\ faults' \in 0 .. MaxFaults
      /\ linked' \subseteq linked
      /\ \E lost \in SUBSET subscribed[p] :
            /\ subscribed' = [subscribed EXCEPT ![p] = @ \ lost]
            /\ cut' = [cut EXCEPT ![p] = @ \cup lost]
      /\ UNCHANGED <<row, partition, config, queue, phase, restore, declared, pool, mutex,
                    openTx, op, sent, boots, answer, maker, doomed, deletedBy, updater,
                    unrouted>>
  <2>1. faults' \in 0 .. MaxFaults
    BY FaultTyped DEF IInv, CancelConsumer, LoseConnection
  <2>2. CASE CancelConsumer(p)
    <3>1. PICK t \in subscribed[p] :
              /\ subscribed' = [subscribed EXCEPT ![p] = @ \ {t}]
              /\ cut' = [cut EXCEPT ![p] = @ \cup {t}]
              /\ UNCHANGED <<row, partition, config, queue, phase, restore, declared, linked,
                            pool, mutex, openTx, op, sent, boots, answer, maker, doomed,
                            deletedBy, updater, unrouted>>
      BY <2>2 DEF CancelConsumer, dbVars, procVars
    <3>2. {t} \in SUBSET subscribed[p]
      BY <3>1
    <3> QED
      BY <2>1, <3>1, <3>2
  <2>3. CASE LoseConnection(p)
    <3>1. subscribed' = [subscribed EXCEPT ![p] = @ \ subscribed[p]]
      BY <2>3 DEF LoseConnection
    <3>2. subscribed[p] \in SUBSET subscribed[p]
      OBVIOUS
    <3>3. /\ linked' \subseteq linked
          /\ cut' = [cut EXCEPT ![p] = @ \cup subscribed[p]]
          /\ UNCHANGED <<row, partition, config, queue, phase, restore, declared, pool, mutex,
                    openTx, op, sent, boots, answer, maker, doomed, deletedBy, updater,
                    unrouted>>
      BY <2>3 DEF LoseConnection, dbVars
    <3> QED
      BY <2>1, <3>1, <3>2, <3>3
  <2> QED
    BY <2>2, <2>3
<1>2. TypeOK'
  BY <1>1 DEF IInv, TypeOK
<1>3. MutexOwner'
  BY <1>1 DEF IInv, MutexOwner
<1>4. CreationsOK'
  BY <1>1 DEF IInv, CreationsOK
<1>5. OthersOK'
  BY <1>1 DEF IInv, OthersOK
<1>6. PhasesOK'
  BY <1>1 DEF IInv, PhasesOK
<1>7. CreatedIsComplete'
  BY <1>1 DEF IInv, TypeOK, CreatedIsComplete
<1>8. UpdatesOK'
  BY <1>1 DEF IInv, UpdatesOK
<1>9. ConfigAgrees'
  BY <1>1 DEF IInv, ConfigAgrees, At
<1>10. DeletedOK'
  BY <1>1 DEF IInv, DeletedOK, Creates
<1>11. AbsentOK' /\ AcceptedIsRouted'
  BY <1>1 DEF IInv, AbsentOK, AcceptedIsRouted
<1> QED
  BY <1>2, <1>3, <1>4, <1>5, <1>6, <1>7, <1>8, <1>9, <1>10, <1>11 DEF IInv

(* A process takes its requests, its consumers and what it knew with it.  *)
LEMMA EndsKeeps ==
  ASSUME IInv, NEW p \in Proc, Ends(p)
  PROVE  IInv'
<1> USE LifecycleAssumption
<1>1. /\ phase' = [phase EXCEPT ![p] = "down"]
      /\ restore' = [restore EXCEPT ![p] = {}]
      /\ declared' = [declared EXCEPT ![p] = Nobody]
      /\ pool' = [pool EXCEPT ![p] = [t \in Tenant |-> NoCount]]
      /\ subscribed' = [subscribed EXCEPT ![p] = {}]
      /\ mutex' = [mutex EXCEPT ![p] = Nobody]
      /\ openTx' = [openTx EXCEPT ![p] = {}]
      /\ maker' = [t \in Tenant |-> IF maker[t] = p THEN Nobody ELSE maker[t]]
      /\ updater' = [t \in Tenant |-> IF updater[t] = p THEN Nobody ELSE updater[t]]
      /\ linked' = linked \ {p}
      /\ cut' = [cut EXCEPT ![p] = {}]
      /\ UNCHANGED <<row, partition, config, queue, sent, faults, boots, answer, doomed,
                    deletedBy, unrouted>>
  BY DEF Ends, dbVars
<1>2. /\ OpOK'
      /\ \A r \in Request : IF op[r].proc = p THEN op'[r] = Idle ELSE op'[r] = op[r]
  BY DEF IInv, TypeOK, Ends, OpOK
<1>3. Idle.kind = "idle" /\ Idle.at = "end" /\ Idle.proc = Nobody /\ Idle.tenant = Nobody
  BY DEF Idle
<1>4. TypeOK'
  BY <1>1, <1>2, <1>3, PoolSet DEF IInv, TypeOK, OpOK, Phase
<1>5. MutexOwner'
  <2>1. SUFFICES ASSUME NEW z \in Proc, NEW q \in Request
                PROVE  mutex'[z] = q <=> /\ op'[q].proc = z
                                         /\ op'[q].kind \in {"delete", "update"}
                                         /\ op'[q].at # "lock"
    BY DEF MutexOwner
  <2>2. CASE z = p
    <3>1. mutex'[z] = Nobody /\ op'[q].proc # z
      BY <1>1, <1>2, <1>3, <2>2 DEF IInv, TypeOK
    <3> QED
      BY <3>1
  <2>3. CASE z # p
    <3>1. mutex'[z] = mutex[z]
      BY <1>1, <2>3 DEF IInv, TypeOK
    <3>2. CASE op[q].proc = p
      BY <1>2, <1>3, <2>3, <3>1, <3>2 DEF IInv, MutexOwner
    <3>3. CASE op[q].proc # p
      BY <1>2, <3>1, <3>3 DEF IInv, MutexOwner
    <3> QED
      BY <3>2, <3>3
  <2> QED
    BY <2>2, <2>3
<1>6. CreationsOK'
  BY <1>1, <1>2, <1>3 DEF IInv, CreationsOK
<1>7. OthersOK'
  BY <1>1, <1>2, <1>3 DEF IInv, OthersOK
<1>8. PhasesOK'
  <2>1. phase'[Api] # "restoring"
    BY <1>1 DEF IInv, TypeOK, PhasesOK, Proc
  <2>2. ASSUME NEW z \in Proc, phase'[z] # "restoring"
       PROVE  restore'[z] = {} /\ declared'[z] = Nobody
    BY <1>1, <2>2 DEF IInv, TypeOK, PhasesOK
  <2>3. ASSUME NEW z \in Proc, phase'[z] \in {"down", "restoring"}, NEW q \in Request
       PROVE  op'[q].proc # z
    <3>1. z = p \/ op[q].proc # z
      BY <1>1, <2>3 DEF IInv, TypeOK, PhasesOK
    <3> QED
      BY <1>2, <1>3, <3>1
  <2>4. ASSUME NEW z \in Proc, phase'[z] \in {"down", "restoring"}, NEW t \in Tenant
       PROVE  updater'[t] # z
    <3>1. z = p \/ updater[t] # z
      BY <1>1, <2>4 DEF IInv, TypeOK, PhasesOK
    <3> QED
      BY <1>1, <3>1
  <2> QED
    BY <2>1, <2>2, <2>3, <2>4 DEF PhasesOK
<1>9. AbsentOK'
  BY <1>1, <1>2, <1>3 DEF IInv, AbsentOK
<1>10. DeletedOK'
  BY <1>1, <1>2, <1>3 DEF IInv, DeletedOK, Creates, OthersStay
<1>11. CreatedIsComplete'
  BY <1>1, <1>2, <1>3 DEF IInv, CreatedIsComplete
<1>12. UpdatesOK'
  <2>1. ASSUME NEW q \in Request, op'[q].kind = "update", op'[q].at = "resize",
              updater'[op'[q].tenant] = op'[q].proc
       PROVE  config'[op'[q].tenant] = op'[q].count
    <3>1. op'[q] = op[q] /\ op[q].proc \in Proc /\ op[q].tenant \in Tenant
      BY <1>2, <1>3, <2>1, AtActive DEF IInv, Active
    <3>2. updater[op[q].tenant] = op[q].proc
      BY <1>1, <2>1, <3>1
    <3> QED
      BY <1>1, <2>1, <3>1, <3>2 DEF IInv, UpdatesOK
  <2>2. ASSUME NEW t \in Tenant, updater'[t] # Nobody PROVE config'[t] # NoCount
    BY <1>1, <2>2 DEF IInv, UpdatesOK
  <2> QED
    BY <2>1, <2>2 DEF UpdatesOK
<1>13. ConfigAgrees'
  BY <1>1, <1>2, <1>3 DEF IInv, ConfigAgrees, At
<1>14. AcceptedIsRouted'
  BY <1>1, <1>2, <1>3 DEF IInv, AcceptedIsRouted
<1> QED
  BY <1>4, <1>5, <1>6, <1>7, <1>8, <1>9, <1>10, <1>11, <1>12, <1>13, <1>14 DEF IInv

=============================================================================
