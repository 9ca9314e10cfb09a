------------------------------ MODULE WorkerPool ------------------------------
(***************************************************************************)
(* One TenantConsumer (internal/services/tenant_manager.go): the goroutine *)
(* runConsumer, the buffered channel WorkerPool whose elements are the     *)
(* right to run a handler, the handler goroutines it spawns, and the       *)
(* operations of TenantManager that touch a running consumer: resizing     *)
(* (UpdateConcurrency) and stopping (DeleteTenant, StopAllConsumers).      *)
(*                                                                         *)
(* The operations hold tm.mutex, the goroutines do not, so every channel   *)
(* operation of a resize is a step of its own that the loop and the        *)
(* handlers interleave with.  Deliveries are counted, not named: what one  *)
(* of them carries is the subject of module MessageFlow.                   *)
(***************************************************************************)
EXTENDS Integers

CONSTANTS
  Cap,         \* workerCount given to StartConsumer: the channel's capacity
  Targets,     \* values of config.Workers that reach UpdateConcurrency
  MaxBacklog,  \* bound: deliveries waiting in msgs
  MaxResizes   \* bound: calls of UpdateConcurrency

(* CreateTenant (63-65) and the worker's restore loop (main.go 58-61)      *)
(* replace a count <= 0 by 3.  A PUT request hands UpdateConcurrency any   *)
(* integer: no code evaluates the binding tag of TenantConfigRequest.      *)
ASSUME PoolAssumption ==
  /\ Cap \in Nat \ {0}
  /\ Targets \subseteq Int
  /\ MaxBacklog \in Nat
  /\ MaxResizes \in Nat

VARIABLES
  loop,        \* runConsumer: in its select, holding a message, or returned
  backlog,     \* deliveries the client library holds for msgs
  open,        \* the broker still feeds msgs; once not, msgs closes when drained
  stop,        \* StopChannel is closed
  tokens,      \* len(WorkerPool)
  busy,        \* handlers inside processMessage
  returning,   \* handlers at the deferred send that returns the token
  count,       \* WorkerCount
  mu,          \* who holds tm.mutex, and for what
  target,      \* config.Workers of the resize in progress
  left,        \* iterations its loop still has to do
  registered,  \* tm.consumers has the consumer
  growMiss,    \* history: sends of a resize that found the channel full
  shrinkMiss,  \* history: receives of a resize that found it empty
  resizes      \* history: calls of UpdateConcurrency

poolVars == <<tokens, busy, returning>>
resizeVars == <<count, target, left, growMiss, shrinkMiss, resizes>>
vars == <<loop, backlog, open, stop, mu, registered, poolVars, resizeVars>>

(* "delivery" and "zero": the loop has received and waits for a token.     *)
(* "zero" is the zero Delivery a receive from a closed msgs yields.        *)
LoopState == {"select", "delivery", "zero", "returned"}
MutexState == {"free", "grow", "shrink", "closing"}

FlagsOK == open \in BOOLEAN /\ stop \in BOOLEAN /\ registered \in BOOLEAN

NumbersOK ==
  /\ backlog \in 0 .. MaxBacklog
  /\ tokens \in 0 .. Cap
  /\ busy \in Nat /\ returning \in Nat
  /\ count \in Int /\ target \in Int
  /\ left \in Nat
  /\ growMiss \in Nat /\ shrinkMiss \in Nat
  /\ resizes \in 0 .. MaxResizes

(* The channel holds at most the Cap tokens it was made for (289). *)
TypeOK ==
  /\ loop \in LoopState
  /\ mu \in MutexState
  /\ FlagsOK
  /\ NumbersOK

-----------------------------------------------------------------------------

(* StartConsumer has returned: the channel holds workerCount tokens. *)
Init ==
  /\ loop = "select"
  /\ backlog = 0
  /\ open = TRUE /\ stop = FALSE /\ registered = TRUE
  /\ tokens = Cap /\ busy = 0 /\ returning = 0
  /\ mu = "free"
  /\ count = Cap /\ target = Cap /\ left = 0
  /\ growMiss = 0 /\ shrinkMiss = 0 /\ resizes = 0

-----------------------------------------------------------------------------
(* The broker.  No prefetch is set, so it pushes what the queue has. *)

Deliver ==
  /\ open /\ backlog < MaxBacklog
  /\ backlog' = backlog + 1
  /\ UNCHANGED <<loop, open, stop, mu, registered, poolVars, resizeVars>>

(* The queue was deleted by another process (the library drains what it    *)
(* holds, then closes msgs) or the channel was lost (it drops it at once). *)
LoseSubscription ==
  /\ open
  /\ open' = FALSE
  /\ backlog' \in {backlog, 0}
  /\ UNCHANGED <<loop, stop, mu, registered, poolVars, resizeVars>>

-----------------------------------------------------------------------------
(* runConsumer and the handler goroutines. *)

MsgsClosed == ~open /\ backlog = 0

(* Mutant: the return is missing after the stop signal is received. *)
ReceiveStopWithoutReturn ==
  /\ loop = "select" /\ stop
  /\ UNCHANGED vars

ReceiveStop ==
  /\ loop = "select" /\ stop
  /\ loop' = "returned"
  /\ UNCHANGED <<backlog, open, stop, mu, registered, poolVars, resizeVars>>

ReceiveDelivery ==
  /\ loop = "select" /\ backlog > 0
  /\ loop' = "delivery"
  /\ backlog' = backlog - 1
  /\ UNCHANGED <<open, stop, mu, registered, poolVars, resizeVars>>

(* "case msg := <-msgs" does not ask whether msgs is closed. *)
ReceiveZero ==
  /\ loop = "select" /\ MsgsClosed
  /\ loop' = "zero"
  /\ UNCHANGED <<backlog, open, stop, mu, registered, poolVars, resizeVars>>

(* Mutant: a handler is spawned without taking a token. *)
SpawnWithoutToken ==
  /\ loop \in {"delivery", "zero"}
  /\ loop' = "select"
  /\ busy' = busy + 1
  /\ UNCHANGED <<backlog, open, stop, mu, registered, tokens, returning, resizeVars>>

(* The loop blocks here until there is a token: it sees neither a closed   *)
(* StopChannel nor another message meanwhile.                              *)
Spawn ==
  /\ loop \in {"delivery", "zero"} /\ tokens > 0
  /\ loop' = "select"
  /\ tokens' = tokens - 1
  /\ busy' = busy + 1
  /\ UNCHANGED <<backlog, open, stop, mu, registered, returning, resizeVars>>

Finish ==
  /\ busy > 0
  /\ busy' = busy - 1
  /\ returning' = returning + 1
  /\ UNCHANGED <<loop, backlog, open, stop, mu, registered, tokens, resizeVars>>

(* Mutants: the token is not given back, or is given back twice. *)
ReturnNothing ==
  /\ returning > 0
  /\ returning' = returning - 1
  /\ UNCHANGED <<loop, backlog, open, stop, mu, registered, tokens, busy, resizeVars>>

ReturnTwice ==
  /\ returning > 0 /\ tokens < Cap
  /\ returning' = returning - 1
  /\ tokens' = tokens + 2
  /\ UNCHANGED <<loop, backlog, open, stop, mu, registered, busy, resizeVars>>

(* The send in the deferred function blocks while the channel is full. *)
Return ==
  /\ returning > 0 /\ tokens < Cap
  /\ returning' = returning - 1
  /\ tokens' = tokens + 1
  /\ UNCHANGED <<loop, backlog, open, stop, mu, registered, busy, resizeVars>>

-----------------------------------------------------------------------------
(* UpdateConcurrency, once it has the mutex, its UPDATE affected a row and *)
(* it found the consumer.  Its error returns change nothing here.          *)

(* Mutants: the loops count the wanted workers instead of the difference,  *)
(* or run once too often.                                                  *)
BeginResizeByTarget(w) ==
  /\ mu = "free" /\ registered /\ resizes < MaxResizes
  /\ target' = w
  /\ mu' = IF w < count THEN "shrink" ELSE "grow"
  /\ left' = IF w < 0 THEN 0 ELSE w
  /\ resizes' = resizes + 1
  /\ UNCHANGED <<loop, backlog, open, stop, registered, poolVars,
                 count, growMiss, shrinkMiss>>

BeginResizeOnceMore(w) ==
  /\ mu = "free" /\ registered /\ resizes < MaxResizes
  /\ target' = w
  /\ mu' = IF w < count THEN "shrink" ELSE "grow"
  /\ left' = IF w < count THEN count - w + 1 ELSE w - count
  /\ resizes' = resizes + 1
  /\ UNCHANGED <<loop, backlog, open, stop, registered, poolVars,
                 count, growMiss, shrinkMiss>>

BeginResize(w) ==
  /\ mu = "free" /\ registered /\ resizes < MaxResizes
  /\ target' = w
  /\ mu' = IF w < count THEN "shrink" ELSE "grow"
  /\ left' = IF w < count THEN count - w ELSE w - count
  /\ resizes' = resizes + 1
  /\ UNCHANGED <<loop, backlog, open, stop, registered, poolVars,
                 count, growMiss, shrinkMiss>>

(* One iteration of a loop with a non-blocking select.  The break in its   *)
(* default branch leaves the select, not the loop.                         *)
GrowStep ==
  /\ mu = "grow" /\ left > 0
  /\ left' = left - 1
  /\ \/ tokens < Cap /\ tokens' = tokens + 1 /\ UNCHANGED growMiss
     \/ tokens = Cap /\ growMiss' = growMiss + 1 /\ UNCHANGED tokens
  /\ UNCHANGED <<loop, backlog, open, stop, mu, registered, busy, returning,
                 count, target, shrinkMiss, resizes>>

ShrinkStep ==
  /\ mu = "shrink" /\ left > 0
  /\ left' = left - 1
  /\ \/ tokens > 0 /\ tokens' = tokens - 1 /\ UNCHANGED shrinkMiss
     \/ tokens = 0 /\ shrinkMiss' = shrinkMiss + 1 /\ UNCHANGED tokens
  /\ UNCHANGED <<loop, backlog, open, stop, mu, registered, busy, returning,
                 count, target, growMiss, resizes>>

(* The count becomes config.Workers whatever the channel did. *)
StoreCount ==
  /\ mu \in {"grow", "shrink"} /\ left = 0
  /\ count' = target
  /\ mu' = "free"
  /\ UNCHANGED <<loop, backlog, open, stop, registered, poolVars,
                 target, left, growMiss, shrinkMiss, resizes>>

-----------------------------------------------------------------------------
(* DeleteTenant and StopAllConsumers, as far as they touch the consumer. *)

DeleteStops ==
  /\ mu = "free" /\ registered
  /\ mu' = "closing"
  /\ stop' = TRUE
  /\ UNCHANGED <<loop, backlog, open, registered, poolVars, resizeVars>>

(* A non-blocking send succeeds only if the loop is parked in its select;  *)
(* else the default branch closes the channel.  A loop on its way to the   *)
(* select is not parked yet, so both may happen there.                     *)
StopAllSignals ==
  /\ mu = "free" /\ registered
  /\ mu' = "closing"
  /\ \/ /\ loop = "select" /\ ~stop /\ ~MsgsClosed
        /\ loop' = "returned"
        /\ UNCHANGED stop
     \/ stop' = TRUE /\ UNCHANGED loop
  /\ UNCHANGED <<backlog, open, registered, poolVars, resizeVars>>

(* Mutant: the stopped consumer stays in the map. *)
CloseChannelKeepsConsumer ==
  /\ mu = "closing"
  /\ open' = FALSE /\ backlog' = 0
  /\ mu' = "free"
  /\ UNCHANGED <<loop, stop, registered, poolVars, resizeVars>>

(* Channel.Close drops what the library holds and closes msgs; then the    *)
(* consumer leaves the map and the mutex is released.                      *)
CloseChannel ==
  /\ mu = "closing"
  /\ open' = FALSE /\ backlog' = 0
  /\ registered' = FALSE
  /\ mu' = "free"
  /\ UNCHANGED <<loop, stop, poolVars, resizeVars>>

-----------------------------------------------------------------------------

LoopStep == ReceiveStop \/ ReceiveDelivery \/ ReceiveZero \/ Spawn
MutexStep == GrowStep \/ ShrinkStep \/ StoreCount \/ CloseChannel

Next ==
  \/ Deliver \/ LoseSubscription
  \/ LoopStep \/ Finish \/ Return
  \/ \E w \in Targets : BeginResize(w)
  \/ DeleteStops \/ StopAllSignals
  \/ MutexStep

(* Goroutines that can run do run, and a select with several ready cases   *)
(* picks one at random, so a closed StopChannel is not passed over for     *)
(* ever.  Nothing obliges the broker or an operator to act.                *)
Fairness ==
  /\ WF_vars(LoopStep) /\ SF_vars(ReceiveStop)
  /\ WF_vars(Finish) /\ WF_vars(Return)
  /\ WF_vars(MutexStep)

Spec == Init /\ [][Next]_vars
FairSpec == Spec /\ Fairness

-----------------------------------------------------------------------------
(* The rights to run a handler, wherever they are, and how many of them    *)
(* the resize in progress, or the last one, is meant to leave.             *)

Slots == tokens + busy + returning

Wanted ==
  CASE mu = "grow"   -> target - left
    [] mu = "shrink" -> target + left
    [] OTHER         -> count

(* Between the pool and WorkerCount nothing gets lost but what a resize    *)
(* missed: whatever handlers, the loop and a resize (161-217) do to the    *)
(* channel in whatever order, the rights in existence differ from the      *)
(* count by the failed receives minus the failed sends (189-208).          *)
PoolAccounting == Slots = Wanted + shrinkMiss - growMiss

(* While no one asks for more workers than the channel was made for, a     *)
(* resize (189-208) never leaves a tenant fewer rights than its            *)
(* WorkerCount says, even if handlers take and return tokens during it.    *)
(* That the pool cannot run dry, on which the loop's blocking receive at   *)
(* 319 depends, follows.                                                   *)
NeverBelowCount == Slots >= Wanted

(* StopChannel is not closed while a consumer can be found in the map, so  *)
(* no order of DeleteTenant and StopAllConsumers closes it twice and       *)
(* panics, which the comment at 232 shows was not clear to its author.     *)
StopClosedOnce == mu = "free" /\ registered => ~stop

(* Between resizes at most WorkerCount handlers of the tenant exist (319), *)
(* those that wait to return their token included, as long as no resize    *)
(* has met a busy handler where it needed a token (204).                   *)
ConcurrencyLimit ==
  mu = "free" /\ shrinkMiss = 0 => busy + returning <= count

(* The pool is a counting semaphore: a handler starts (319) only on a free *)
(* right, which it gives back once (325), and a resize (191, 202) removes  *)
(* none that is in use.                                                    *)
Sem == INSTANCE Semaphore WITH
         InitialPermits <- Cap, permits <- Slots, inUse <- busy + returning
IsSemaphore == Sem!Spec

(* A message the loop has received (317) is handed to a handler (322): the *)
(* wait for a token in between ends.                                       *)
EveryDeliveryHandled == loop = "delivery" ~> loop = "select"

(* After its StopChannel is closed (119, 233), runConsumer returns (316),  *)
(* also if it was waiting for a token or is fed zero deliveries then.      *)
StopEndsLoop == stop ~> loop = "returned"

(* After the loop has ended, every handler of the tenant ends as well and  *)
(* returns its token (325), on the same condition.                         *)
AllWorkersReturn ==
  loop = "returned" /\ shrinkMiss = 0 ~> busy + returning = 0

-----------------------------------------------------------------------------
(* What comments, messages and the README say, and the code does not do.   *)

(* "Updated tenant %s worker count" (214): after a resize has returned, no *)
(* handler starts while as many as the new count, or more, are running.    *)
CountIsRespected ==
  [][busy' > busy /\ mu = "free" => busy' + returning' <= count]_vars

(* "Consumer for tenant %s stopped successfully" (129): afterwards no      *)
(* handler of it is started.                                               *)
StoppedStartsNothing == [][~registered => busy' <= busy]_vars

=============================================================================
