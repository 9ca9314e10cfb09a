----------------------------- MODULE MessageFlow -----------------------------
(***************************************************************************)
(* The life of the messages of one tenant: the publishing request of the   *)
(* API (services/message.go), the tenant's queue in the broker, the        *)
(* handlers of the processes that consume it (processMessage and what it   *)
(* calls in tenant_manager.go), delayed retries and dead letters.          *)
(*                                                                         *)
(* A message is what a client posted, a copy is one publication of it in   *)
(* the broker.  A retry is a new copy.  A copy the broker takes back, when *)
(* the channel it was delivered on is lost, may be handled a second time   *)
(* while its first handler is still running.  Publications are neither     *)
(* confirmed nor mandatory nor persistent: a copy is silently dropped when *)
(* the queue is not there, and copies go with a deleted queue and with a   *)
(* broker that is started again.                                           *)
(*                                                                         *)
(* Left out: the contents of messages (those of the API always parse and   *)
(* no business function returns an error, so a handler fails only with the *)
(* database), the back-off time, message_processing_logs (nothing reads    *)
(* it), the channel operations inside a process and the resizing of its    *)
(* pool (module WorkerPool), and the tenant's row (TenantLifecycle).       *)
(***************************************************************************)
EXTENDS Integers, FiniteSets

CONSTANTS
  Msg,            \* messages clients post
  Copy,           \* bound: copies that exist at one time
  Proc, Api,      \* processes with a TenantManager; the one that serves HTTP
  NoProc,
  MaxRunning,     \* handlers of the tenant one process runs at a time
  HeaderTypes,    \* Go types the client library may give an integer header
  MaxTroubles,    \* bound: database and publishing calls that fail, and twice
  MaxDisruptions  \* (bound) the crashes, lost channels and queues

ASSUME FlowAssumption ==
  /\ Api \in Proc /\ NoProc \notin Proc
  /\ MaxRunning \in Nat \ {0}
  /\ HeaderTypes \subseteq {"int", "int32"}
  /\ MaxTroubles \in Nat /\ MaxDisruptions \in Nat

VARIABLES
  request,      \* the posting request of each message
  row,          \* messages.status
  dead,         \* messages with a row in dead_letter_messages
  place,        \* where each copy is: in the broker or in a sleeping goroutine
  holder,       \* the process it was delivered to or whose goroutine sleeps
  msg, retry,   \* its message and its retry_count header
  job,          \* what each process is doing with each copy
  link,         \* the process's connection and its consumer of the tenant
  queue,        \* the tenant's queue exists in the broker
  headerType,   \* the type the library gives an integer header
  attempts,     \* history: failed handlings of each message
  successes,    \* history: handlings that reached the end
  excused,      \* history: messages a copy or dead letter of which was lost
  faults, disruptions

brokerVars == <<place, holder, msg, retry>>
linkVars == <<link, queue, headerType>>
historyVars == <<attempts, successes, excused>>
vars == <<request, row, dead, brokerVars, job, linkVars, historyVars,
          faults, disruptions>>

Request == {"idle", "inserted", "published", "refused"}
Status == {"none", "pending", "processing", "completed"}
Place == {"unused", "ready", "unacked", "timer"}

(* "buffered": in the client library or with runConsumer, which waits for  *)
(* a token; "started", "stored", "failed": the points between the database *)
(* calls of processMessage; "decided": only the acknowledgement is left.   *)
Stage == {"idle", "buffered", "started", "stored", "failed", "decided"}
Undecided == {"buffered", "started", "stored", "failed"}

(* "down": the connection is lost, nothing reconnects; "open": there is no *)
(* consumer channel; "cancelled": there is one, and the broker has ended   *)
(* its subscription with the queue.                                        *)
Link == {"down", "open", "cancelled", "subscribed"}

TypeOK ==
  /\ request \in [Msg -> Request]
  /\ row \in [Msg -> Status]
  /\ dead \subseteq Msg /\ excused \subseteq Msg
  /\ place \in [Copy -> Place]
  /\ holder \in [Copy -> Proc \cup {NoProc}]
  /\ msg \in [Copy -> Msg]
  /\ retry \in [Copy -> Nat]
  /\ job \in [Copy -> [Proc -> Stage]]
  /\ link \in [Proc -> Link] /\ queue \in BOOLEAN
  /\ headerType \in HeaderTypes
  /\ attempts \in [Msg -> Nat] /\ successes \in [Msg -> Nat]
  /\ faults \in 0 .. MaxTroubles
  /\ disruptions \in 0 .. MaxDisruptions

(* The API process created the tenant and consumes its queue.  A worker    *)
(* process does if it was started after that.                              *)
Init ==
  /\ request = [m \in Msg |-> "idle"]
  /\ row = [m \in Msg |-> "none"]
  /\ dead = {} /\ excused = {}
  /\ place = [c \in Copy |-> "unused"]
  /\ holder = [c \in Copy |-> NoProc]
  /\ msg \in {[c \in Copy |-> m] : m \in Msg}
  /\ retry = [c \in Copy |-> 0]
  /\ job = [c \in Copy |-> [p \in Proc |-> "idle"]]
  /\ link \in {f \in [Proc -> {"open", "subscribed"}] : f[Api] = "subscribed"}
  /\ queue = TRUE
  /\ headerType \in HeaderTypes
  /\ attempts = [m \in Msg |-> 0] /\ successes = [m \in Msg |-> 0]
  /\ faults = 0 /\ disruptions = 0

-----------------------------------------------------------------------------

Troubles == faults + 2 * disruptions
Fault == Troubles < MaxTroubles /\ faults' = faults + 1
NoFault == UNCHANGED faults

Disrupt ==
  /\ disruptions < MaxDisruptions /\ Troubles + 1 < MaxTroubles
  /\ disruptions' = disruptions + 1

(* No copy is there and no handler works on one under this name. *)
Unused(c) == place[c] = "unused" /\ \A p \in Proc : job[c][p] = "idle"

Fresh == CHOOSE c \in Copy : Unused(c)

(* A copy of m comes to be, in the queue or with a sleeping goroutine. *)
NewCopy(m, n, where, p) ==
  /\ \E c \in Copy : Unused(c)
  /\ place' = [place EXCEPT ![Fresh] = where]
  /\ holder' = [holder EXCEPT ![Fresh] = p]
  /\ msg' = [msg EXCEPT ![Fresh] = m]
  /\ retry' = [retry EXCEPT ![Fresh] = n]

MoveJob(p, c, from, to) ==
  /\ job[c][p] = from
  /\ job' = [job EXCEPT ![c][p] = to]

(* Handlers past runConsumer; each holds one token of the worker pool. *)
Running(p) == {c \in Copy : job[c][p] \notin {"idle", "buffered"}}

(* Mutant: the attempts are counted from one. *)
RetryCountFromOne(c) == IF headerType = "int" THEN retry[c] + 1 ELSE 0

(* getRetryCount: the assertion .(int) fails for any other type.  The type *)
(* is the client library's choice; the pinned one gives int32.             *)
RetryCount(c) == IF headerType = "int" THEN retry[c] ELSE 0

(* Publish through a process's connection: no confirmation is asked for,   *)
(* so a copy that gets no queue, or is lost on its way, looks delivered.   *)
Enqueued(p) == NoFault /\ queue /\ link[p] # "down"
Dropped(p) ==
  /\ link[p] # "down"
  /\ (~queue /\ NoFault) \/ Fault
Rejected(p) == (link[p] = "down" /\ NoFault) \/ Fault

(* Someone is responsible for the copy: the broker, a sleeping retry, or   *)
(* the handler the broker waits for, which has not come to its end.  A     *)
(* handler whose copy is not with the broker does not count.               *)
OwedCopy(c) ==
  \/ place[c] \in {"ready", "timer"}
  \/ place[c] = "unacked" /\ job[c][holder[c]] \in Undecided

-----------------------------------------------------------------------------
(* MessageService.Publish. *)

InsertRow(m) ==
  /\ request[m] = "idle"
  /\ \/ /\ NoFault
        /\ request' = [request EXCEPT ![m] = "inserted"]
        /\ row' = [row EXCEPT ![m] = "pending"]
     \/ Fault /\ request' = [request EXCEPT ![m] = "refused"] /\ UNCHANGED row
  /\ UNCHANGED <<dead, brokerVars, job, linkVars, historyVars, disruptions>>

PublishMessage(m) ==
  /\ request[m] = "inserted"
  /\ \/ /\ Enqueued(Api) /\ NewCopy(m, 0, "ready", NoProc)
        /\ request' = [request EXCEPT ![m] = "published"]
        /\ UNCHANGED excused
     \/ /\ Dropped(Api) /\ UNCHANGED brokerVars
        /\ request' = [request EXCEPT ![m] = "published"]
        /\ excused' = excused \cup {m}
     \/ /\ Rejected(Api) /\ UNCHANGED <<brokerVars, excused>>
        /\ request' = [request EXCEPT ![m] = "refused"]
  /\ UNCHANGED <<row, dead, job, linkVars, attempts, successes, disruptions>>

-----------------------------------------------------------------------------
(* The broker and runConsumer. *)

(* Mutant: the consumer is declared with auto-ack. *)
ReceiveAutoAck(p, c) ==
  /\ place[c] = "ready" /\ link[p] = "subscribed"
  /\ MoveJob(p, c, "idle", "buffered")
  /\ place' = [place EXCEPT ![c] = "unused"]
  /\ UNCHANGED <<request, row, dead, holder, msg, retry, linkVars, historyVars,
                 faults, disruptions>>

Receive(p, c) ==
  /\ place[c] = "ready" /\ link[p] = "subscribed"
  /\ MoveJob(p, c, "idle", "buffered")
  /\ place' = [place EXCEPT ![c] = "unacked"]
  /\ holder' = [holder EXCEPT ![c] = p]
  /\ UNCHANGED <<request, row, dead, msg, retry, linkVars, historyVars,
                 faults, disruptions>>

Start(p, c) ==
  /\ Cardinality(Running(p)) < MaxRunning
  /\ MoveJob(p, c, "buffered", "started")
  /\ UNCHANGED <<request, row, dead, brokerVars, linkVars, historyVars,
                 faults, disruptions>>

-----------------------------------------------------------------------------
(* processMessage. *)

(* handleBusinessLogic: the upsert, and after it nothing that fails. *)
Store(p, c) ==
  /\ \/ /\ MoveJob(p, c, "started", "stored")
        /\ row' = [row EXCEPT ![msg[c]] = "processing"]
        /\ NoFault /\ UNCHANGED attempts
     \/ /\ MoveJob(p, c, "started", "failed")
        /\ attempts' = [attempts EXCEPT ![msg[c]] = @ + 1]
        /\ Fault /\ UNCHANGED row
  /\ UNCHANGED <<request, dead, brokerVars, linkVars, successes, excused,
                 disruptions>>

(* Mutant: the status written is none of the messages table's. *)
CompleteAsDone(p, c) ==
  /\ MoveJob(p, c, "stored", "decided")
  /\ successes' = [successes EXCEPT ![msg[c]] = @ + 1]
  /\ \/ NoFault /\ row' = [row EXCEPT ![msg[c]] = "done"]
     \/ Fault /\ UNCHANGED row
  /\ UNCHANGED <<request, dead, brokerVars, linkVars, attempts, excused,
                 disruptions>>

(* updateMessageStatus ignores the result of its UPDATE. *)
Complete(p, c) ==
  /\ MoveJob(p, c, "stored", "decided")
  /\ successes' = [successes EXCEPT ![msg[c]] = @ + 1]
  /\ \/ NoFault /\ row' = [row EXCEPT ![msg[c]] = "completed"]
     \/ Fault /\ UNCHANGED row
  /\ UNCHANGED <<request, dead, brokerVars, linkVars, attempts, excused,
                 disruptions>>

(* Mutant: a failed message is acknowledged and not requeued. *)
RetryForgotten(p, c) ==
  /\ RetryCount(c) < 3
  /\ MoveJob(p, c, "failed", "decided")
  /\ UNCHANGED <<request, row, dead, brokerVars, linkVars, historyVars,
                 faults, disruptions>>

(* Mutant: without the return the handler goes on as if it had succeeded. *)
RetryWithoutReturn(p, c) ==
  /\ RetryCount(c) < 3
  /\ MoveJob(p, c, "failed", "stored")
  /\ NewCopy(msg[c], RetryCount(c) + 1, "timer", p)
  /\ UNCHANGED <<request, row, dead, linkVars, historyVars, faults, disruptions>>

(* requeueMessage starts a goroutine that sleeps before it publishes. *)
Retry(p, c) ==
  /\ RetryCount(c) < 3
  /\ MoveJob(p, c, "failed", "decided")
  /\ NewCopy(msg[c], RetryCount(c) + 1, "timer", p)
  /\ UNCHANGED <<request, row, dead, linkVars, historyVars, faults, disruptions>>

(* sendToDeadLetter ignores the result of its INSERT. *)
DeadLetter(p, c) ==
  /\ RetryCount(c) >= 3
  /\ MoveJob(p, c, "failed", "decided")
  /\ \/ NoFault /\ dead' = dead \cup {msg[c]} /\ UNCHANGED excused
     \/ Fault /\ excused' = excused \cup {msg[c]} /\ UNCHANGED dead
  /\ UNCHANGED <<request, row, brokerVars, linkVars, attempts, successes,
                 disruptions>>

(* Mutant: the handler ends with Nack and requeue. *)
NackRequeue(p, c) ==
  /\ MoveJob(p, c, "decided", "idle")
  /\ IF link[p] = "subscribed"
       THEN /\ place' = [place EXCEPT ![c] = "ready"]
            /\ holder' = [holder EXCEPT ![c] = NoProc]
       ELSE UNCHANGED <<place, holder>>
  /\ UNCHANGED <<request, row, dead, msg, retry, linkVars, historyVars,
                 faults, disruptions>>

(* On a channel that is closed the acknowledgement fails; no one looks. *)
Ack(p, c) ==
  /\ MoveJob(p, c, "decided", "idle")
  /\ IF link[p] = "subscribed"
       THEN /\ place' = [place EXCEPT ![c] = "unused"]
            /\ holder' = [holder EXCEPT ![c] = NoProc]
       ELSE UNCHANGED <<place, holder>>
  /\ UNCHANGED <<request, row, dead, msg, retry, linkVars, historyVars,
                 faults, disruptions>>

(* The goroutine of requeueMessage wakes up; it ignores Publish's error.   *)
Wake(c) ==
  /\ place[c] = "timer"
  /\ holder' = [holder EXCEPT ![c] = NoProc]
  /\ \/ /\ Enqueued(holder[c])
        /\ place' = [place EXCEPT ![c] = "ready"] /\ UNCHANGED excused
     \/ /\ Dropped(holder[c]) \/ Rejected(holder[c])
        /\ place' = [place EXCEPT ![c] = "unused"]
        /\ excused' = excused \cup {msg[c]}
  /\ UNCHANGED <<request, row, dead, msg, retry, job, linkVars, attempts,
                 successes, disruptions>>

-----------------------------------------------------------------------------

InBroker == {c \in Copy : place[c] \in {"ready", "unacked"}}
Held(p) == {c \in Copy : place[c] = "unacked" /\ holder[c] = p}
Sleeping(p) == {c \in Copy : place[c] = "timer" /\ holder[c] = p}

(* The broker puts back what was not acknowledged. *)
Requeue(p) ==
  [c \in Copy |-> IF c \in Held(p) THEN "ready" ELSE place[c]]
Release(cs) ==
  [c \in Copy |-> IF c \in cs THEN NoProc ELSE holder[c]]

(* These copies are gone. *)
Destroy(cs) ==
  /\ place' = [c \in Copy |-> IF c \in cs THEN "unused" ELSE place[c]]
  /\ holder' = Release(cs)
  /\ excused' = excused \cup {msg[c] : c \in {d \in cs : OwedCopy(d)}}

(* A library whose consumer channel closes drops what it holds, except a   *)
(* delivery runConsumer has received already; running handlers go on.      *)
Buffered(p) == {c \in Copy : job[c][p] = "buffered"}
DropBuffered(ps) ==
  \E kept \in [ps -> {{}} \cup {{c} : c \in UNION {Buffered(p) : p \in ps}}] :
    job' = [c \in Copy |-> [p \in Proc |->
              IF p \in ps /\ c \in Buffered(p) \ kept[p] THEN "idle" ELSE job[c][p]]]

(* The process loses its consumer channel: StopAllConsumers or             *)
(* DeleteTenant closes it, or the broker does; or it loses its connection, *)
(* on which it publishes too.                                              *)
LoseChannel(p) ==
  /\ Disrupt
  /\ \/ /\ link[p] \in {"cancelled", "subscribed"}
        /\ link' = [link EXCEPT ![p] = "open"]
     \/ link[p] # "down" /\ link' = [link EXCEPT ![p] = "down"]
  /\ place' = Requeue(p)
  /\ holder' = Release(Held(p))
  /\ DropBuffered({p})
  /\ UNCHANGED <<request, row, dead, msg, retry, queue, headerType,
                 historyVars, faults>>

(* DeleteTenant, after it has closed the channel of its own consumer: the  *)
(* queue goes with the copies in it and those that were delivered from it, *)
(* the broker cancels the other consumers.  What their libraries hold they *)
(* still hand over.                                                        *)
DeleteQueue(p) ==
  /\ queue /\ link[p] = "open" /\ Disrupt
  /\ queue' = FALSE
  /\ link' = [q \in Proc |-> IF link[q] = "subscribed" THEN "cancelled" ELSE link[q]]
  /\ Destroy(InBroker)
  /\ UNCHANGED <<request, row, dead, msg, retry, job, headerType, attempts,
                 successes, faults>>

(* The broker ends and is started again: connections and copies are lost,  *)
(* the durable queue stays.                                                *)
RestartBroker ==
  /\ Disrupt
  /\ link' = [p \in Proc |-> "down"]
  /\ Destroy(InBroker)
  /\ DropBuffered(Proc)
  /\ UNCHANGED <<request, row, dead, msg, retry, queue, headerType, attempts,
                 successes, faults>>

(* Main of a worker calls StartTenant for every tenant that is not marked  *)
(* deleted, and goes on if it fails, before the queue's declaration or     *)
(* after it; main of the API starts none.                                  *)
Reconnect(p) ==
  \/ link' = [link EXCEPT ![p] = "open"] /\ UNCHANGED queue
  \/ p # Api /\ queue' = TRUE /\ link' \in {[link EXCEPT ![p] = l] : l \in {"open", "subscribed"}}

(* The process ends and is started again: its goroutines are gone, a       *)
(* request it was serving ends without an answer.                          *)
Restart(p) ==
  /\ Disrupt /\ Reconnect(p)
  /\ place' = [c \in Copy |-> IF c \in Sleeping(p) THEN "unused" ELSE Requeue(p)[c]]
  /\ holder' = Release(Held(p) \cup Sleeping(p))
  /\ excused' = excused \cup {msg[c] : c \in Sleeping(p)}
  /\ job' = [c \in Copy |-> [job[c] EXCEPT ![p] = "idle"]]
  /\ request' = [m \in Msg |-> IF p = Api /\ request[m] = "inserted"
                                 THEN "refused" ELSE request[m]]
  /\ UNCHANGED <<row, dead, msg, retry, headerType, attempts, successes, faults>>

-----------------------------------------------------------------------------

HandlerStep(p, c) ==
  \/ Start(p, c)
  \/ Store(p, c) \/ Complete(p, c)
  \/ Retry(p, c) \/ DeadLetter(p, c)
  \/ Ack(p, c)

Next ==
  \/ \E m \in Msg : InsertRow(m) \/ PublishMessage(m)
  \/ \E p \in Proc, c \in Copy : Receive(p, c) \/ HandlerStep(p, c)
  \/ \E c \in Copy : Wake(c)
  \/ \E p \in Proc : LoseChannel(p) \/ DeleteQueue(p) \/ Restart(p)
  \/ RestartBroker

(* Goroutines run, timers expire, the broker delivers to a consumer that   *)
(* is there.  A client need not post, nothing need fail.                   *)
Fairness ==
  \A c \in Copy :
    /\ WF_vars(Wake(c))
    /\ WF_vars(\E p \in Proc : Receive(p, c))
    /\ \A p \in Proc : WF_vars(HandlerStep(p, c))

Spec == Init /\ [][Next]_vars
FairSpec == Spec /\ Fairness

-----------------------------------------------------------------------------
(* Properties. *)

Owed(m) == \E c \in Copy : msg[c] = m /\ OwedCopy(c)

Settled(m) == successes[m] > 0 \/ m \in dead

(* A message whose posting was answered with 202 (handlers/message.go 57)  *)
(* is owed, or handled, or dead-lettered, unless one of these destroyed a  *)
(* copy of it: a publication the broker dropped or refused with nobody     *)
(* looking (rabbitmq.go 48, 487), a dead letter that was not stored (507), *)
(* the end of a process with a sleeping retry, the deletion of the queue   *)
(* (133), the end of the broker.  This is what the order of requeue and    *)
(* Ack at 362-363 and the manual acknowledgement are for.                  *)
NothingVanishes ==
  \A m \in Msg : request[m] = "published" => Owed(m) \/ Settled(m) \/ m \in excused

(* While no process, channel or queue is lost, a message has at most one   *)
(* outcome: it is handled to the end once or dead-lettered, not both, and  *)
(* no handler still works on it then (334-376).                            *)
OneOutcome ==
  disruptions = 0 =>
    \A m \in Msg :
      /\ successes[m] <= 1
      /\ ~(successes[m] = 1 /\ m \in dead)
      /\ Settled(m) => ~Owed(m)

(* A dead letter says "Max retries exceeded" (507) only of a message whose *)
(* handling did fail four times, once and three retries (360), even if     *)
(* lost channels have doubled its copies.                                  *)
DeadAfterRetries == \A m \in dead : attempts[m] >= 4

(* The row of a message that was handled to the end does not go back to    *)
(* "processing" (393) or "pending": as long as nothing is lost, no other   *)
(* handler, retry or posting of it is under way then.                      *)
CompletedStays ==
  [][disruptions = 0 =>
       \A m \in Msg : row[m] = "completed" => row'[m] = "completed"]_vars

(* Once the database stops failing, a posted message is settled in the end *)
(* whichever way its handlers, retries, lost channels and restarts         *)
(* interleaved, as long as some process consumes the queue and no copy of  *)
(* it was destroyed - whatever type the retry header comes back with.  A   *)
(* database that never recovers gives int32 headers no end (RetryBound),   *)
(* and a pool that is resized may give no token (WorkerPool).              *)
EventuallySettled ==
  \A m \in Msg :
    request[m] = "published" ~>
      Settled(m) \/ m \in excused \/ \A p \in Proc : link[p] # "subscribed"

-----------------------------------------------------------------------------
(* The refinement. *)

(* A copy is a claim on its message while someone is responsible for it,   *)
(* and so is a handler whose copy is not with the broker, until its end.   *)
Stray(c, p) == job[c][p] \in Undecided /\ ~(place[c] = "unacked" /\ holder[c] = p)

Claimed(c, q) == IF q = NoProc THEN OwedCopy(c) ELSE Stray(c, q)
Claims(m) ==
  {x \in Copy \X (Proc \cup {NoProc}) : msg[x[1]] = m /\ Claimed(x[1], x[2])}

Promise == INSTANCE Delivery WITH
  Claim <- Copy \X (Proc \cup {NoProc}),
  claims <- [m \in Msg |-> Claims(m)],
  handled <- successes,
  lost <- excused

(* At-least-once delivery with exactly one outcome for each claim: a       *)
(* handler that completes, dead-letters or drops a message does only one   *)
(* of these, and leaves nothing behind that would do it again; a retry     *)
(* replaces the copy it was made from.  Messages are doubled by lost       *)
(* channels and processes alone.                                           *)
IsDelivery == Promise!Spec

-----------------------------------------------------------------------------
(* What a comment says, and the code does not do. *)

(* "retryCount < 3 // Max retries" (360): while nothing is lost, no        *)
(* message fails more often than that allows.                              *)
RetryBound ==
  disruptions = 0 => \A m \in Msg : attempts[m] <= 4

=============================================================================
