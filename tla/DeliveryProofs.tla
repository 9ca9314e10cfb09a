---------------------------- MODULE DeliveryProofs ----------------------------
(***************************************************************************)
(* More about MessageFlow for any number of messages, copies, processes,   *)
(* faults and disruptions: what holds while no channel, process or queue   *)
(* is lost, and that it implements Delivery.                               *)
(***************************************************************************)
EXTENDS MessageFlowProofs

-----------------------------------------------------------------------------
(* Only posted messages are anybody's business *)

InUse(c) == place[c] # "unused" \/ \E p \in Proc : job[c][p] # "idle"

PostedInv ==
  /\ \A c \in Copy : InUse(c) => request[msg[c]] = "published"
  /\ \A m \in Msg : Settled(m) \/ m \in excused \/ attempts[m] > 0
                      => request[m] = "published"

(* A published request stays published, and no step but the publication    *)
(* brings a copy of a message into use that had none.                      *)
LEMMA NextPosted ==
  ASSUME TypeOK, Safe, PostedInv, [Next]_vars
  PROVE  PostedInv'
<1> USE FlowAssumption DEF TypeOK, PostedInv, InUse, Settled, brokerVars,
                           linkVars, historyVars, MoveJob
<1>1. ASSUME NEW m \in Msg, InsertRow(m) PROVE PostedInv'
  BY <1>1 DEF InsertRow
<1>2. ASSUME NEW m \in Msg, PublishMessage(m) PROVE PostedInv'
  <2>1. CASE /\ NewCopy(m, 0, "ready", NoProc)
             /\ request' = [request EXCEPT ![m] = "published"]
    BY <1>2, <2>1, FreshUnused DEF PublishMessage, NewCopy, Unused
  <2>2. CASE /\ UNCHANGED <<brokerVars, excused>>
             /\ request' = [request EXCEPT ![m] = "refused"]
    BY <1>2, <2>2 DEF PublishMessage
  <2>3. CASE /\ UNCHANGED brokerVars /\ excused' = excused \cup {m}
             /\ request' = [request EXCEPT ![m] = "published"]
    BY <1>2, <2>3 DEF PublishMessage
  <2> QED
    BY <1>2, <2>1, <2>2, <2>3 DEF PublishMessage
<1>3. ASSUME NEW p \in Proc, NEW c \in Copy, Receive(p, c) PROVE PostedInv'
  BY <1>3 DEF Receive
<1>4. ASSUME NEW p \in Proc, NEW c \in Copy, Start(p, c) PROVE PostedInv'
  BY <1>4 DEF Start
<1>5. ASSUME NEW p \in Proc, NEW c \in Copy, Store(p, c) PROVE PostedInv'
  <2>1. UNCHANGED <<request, place, msg, dead, excused, successes>>
    BY <1>5 DEF Store
  <2>2. PICK s \in {"stored", "failed"} :
          job[c][p] = "started" /\ job' = [job EXCEPT ![c][p] = s]
    BY <1>5 DEF Store
  <2>3. \A m \in Msg : attempts'[m] > 0 => attempts[m] > 0 \/ m = msg[c]
    BY <1>5 DEF Store
  <2>4. \A d \in Copy : InUse(d)' => InUse(d)
    BY <2>1, <2>2
  <2> QED
    BY <2>1, <2>2, <2>3, <2>4
<1>6. ASSUME NEW p \in Proc, NEW c \in Copy, Complete(p, c) PROVE PostedInv'
  BY <1>6 DEF Complete
<1>7. ASSUME NEW p \in Proc, NEW c \in Copy, Retry(p, c) PROVE PostedInv'
  BY <1>7, FreshUnused DEF Retry, NewCopy, Unused
<1>8. ASSUME NEW p \in Proc, NEW c \in Copy, DeadLetter(p, c) PROVE PostedInv'
  BY <1>8 DEF DeadLetter
<1>9. ASSUME NEW p \in Proc, NEW c \in Copy, Ack(p, c) PROVE PostedInv'
  BY <1>9 DEF Ack
<1>10. ASSUME NEW c \in Copy, Wake(c) PROVE PostedInv'
  BY <1>10 DEF Wake
<1>11. ASSUME NEW p \in Proc, LoseChannel(p) PROVE PostedInv'
  <2>1. /\ UNCHANGED <<request, msg, dead, excused, successes, attempts>>
        /\ \A c \in Copy : place'[c] = place[c] \/ place[c] = "unacked"
    BY <1>11 DEF LoseChannel, Requeue, Held
  <2>2. \A c \in Copy, q \in Proc : job'[c][q] # "idle" => job[c][q] # "idle"
    BY <1>11, Dropping DEF LoseChannel
  <2> QED
    BY <2>1, <2>2
<1>12. ASSUME NEW p \in Proc, Restart(p) PROVE PostedInv'
  BY <1>12 DEF Restart, Requeue, Release, Held, Sleeping
<1>13. ASSUME Destroy(InBroker), UNCHANGED <<request, msg, dead, successes, attempts>>,
              \A c \in Copy, q \in Proc : job'[c][q] # "idle" => job[c][q] # "idle"
       PROVE  PostedInv'
  <2>1. \A c \in Copy : place'[c] # "unused" => place[c] # "unused"
    <3>1. InBroker \in SUBSET Copy
      BY DEF InBroker
    <3> QED
      BY <1>13, <3>1, Destruction
  <2>2. \A m \in excused' : m \in excused \/ \E c \in Copy : m = msg[c] /\ InUse(c)
    BY <1>13 DEF Destroy, InBroker
  <2> QED
    BY <1>13, <2>1, <2>2
<1>14. ASSUME NEW p \in Proc, DeleteQueue(p) PROVE PostedInv'
  BY <1>13, <1>14 DEF DeleteQueue
<1>15. CASE RestartBroker
  <2>1. \A c \in Copy, q \in Proc : job'[c][q] # "idle" => job[c][q] # "idle"
    BY <1>15, Dropping DEF RestartBroker
  <2> QED
    BY <1>13, <1>15, <2>1 DEF RestartBroker
<1>16. CASE UNCHANGED vars
  BY <1>16 DEF vars
<1> QED
  BY <1>1, <1>2, <1>3, <1>4, <1>5, <1>6, <1>7, <1>8, <1>9, <1>10, <1>11,
     <1>12, <1>14, <1>15, <1>16 DEF Next, HandlerStep

-----------------------------------------------------------------------------
(* While nothing is lost *)

(* Every handler works on a copy the broker holds for it; a message has at *)
(* most one copy that somebody is responsible for, and none once it has an *)
(* outcome.                                                                *)
OneLine ==
  /\ \A c \in Copy, p \in Proc :
       job[c][p] # "idle" => link[p] = "subscribed" /\ place[c] = "unacked" /\ holder[c] = p
  /\ \A c, d \in Copy : OwedCopy(c) /\ OwedCopy(d) /\ msg[c] = msg[d] => c = d
  /\ \A c \in Copy : OwedCopy(c) => successes[msg[c]] = 0 /\ msg[c] \notin dead
  /\ \A m \in Msg : successes[m] <= 1 /\ ~(successes[m] = 1 /\ m \in dead)

(* A disruption is counted and never forgotten.                            *)
Disruption ==
  \/ \E p \in Proc : LoseChannel(p) \/ DeleteQueue(p) \/ Restart(p)
  \/ RestartBroker

LEMMA Counts ==
  ASSUME TypeOK, Disruption
  PROVE  disruptions' # 0
<1>1. disruptions' = disruptions + 1
  BY DEF Disruption, LoseChannel, DeleteQueue, Restart, RestartBroker, Disrupt
<1>2. disruptions \in Nat
  BY FlowAssumption DEF TypeOK
<1> QED
  BY <1>1, <1>2

LEMMA NextOneLine ==
  ASSUME TypeOK, Safe, PostedInv, disruptions = 0 => OneLine, [Next]_vars, disruptions' = 0
  PROVE  OneLine'
<1> USE FlowAssumption DEF TypeOK, Safe, HolderInv, OneLine, OwedCopy, Undecided, brokerVars,
                           linkVars, historyVars, MoveJob
<1>1. ASSUME NEW m \in Msg, InsertRow(m) PROVE OneLine'
  BY <1>1 DEF InsertRow
<1>2. ASSUME NEW m \in Msg, PublishMessage(m) PROVE OneLine'
  <2>1. CASE NewCopy(m, 0, "ready", NoProc)
    <3>1. request[m] # "published" /\ Fresh \in Copy /\ Unused(Fresh)
      BY <1>2, <2>1, FreshUnused DEF PublishMessage, NewCopy
    <3>2. successes[m] = 0 /\ m \notin dead
      BY <3>1 DEF PostedInv, Settled
    <3>3. \A c \in Copy : OwedCopy(c) => msg[c] # m
      BY <3>1 DEF PostedInv, InUse
    <3>4. /\ place' = [place EXCEPT ![Fresh] = "ready"]
          /\ holder' = [holder EXCEPT ![Fresh] = NoProc]
          /\ msg' = [msg EXCEPT ![Fresh] = m]
          /\ UNCHANGED <<job, dead, successes, link, disruptions>>
      BY <1>2, <2>1 DEF PublishMessage, NewCopy
    <3> QED
      BY <3>1, <3>2, <3>3, <3>4 DEF Unused
  <2>2. CASE UNCHANGED brokerVars
    BY <1>2, <2>2 DEF PublishMessage
  <2> QED
    BY <1>2, <2>1, <2>2 DEF PublishMessage
<1>3. ASSUME NEW p \in Proc, NEW c \in Copy, Receive(p, c) PROVE OneLine'
  BY <1>3 DEF Receive
<1>4. ASSUME NEW p \in Proc, NEW c \in Copy, Start(p, c) PROVE OneLine'
  BY <1>4 DEF Start
<1>5. ASSUME NEW p \in Proc, NEW c \in Copy, Store(p, c) PROVE OneLine'
  <2>1. UNCHANGED <<place, holder, msg, dead, successes, link, disruptions>>
    BY <1>5 DEF Store
  <2>2. PICK s \in {"stored", "failed"} :
          job[c][p] = "started" /\ job' = [job EXCEPT ![c][p] = s]
    BY <1>5 DEF Store
  <2> QED
    BY <2>1, <2>2
<1>6. ASSUME NEW p \in Proc, NEW c \in Copy, Complete(p, c) PROVE OneLine'
  BY <1>6 DEF Complete
<1>7. ASSUME NEW p \in Proc, NEW c \in Copy, Retry(p, c) PROVE OneLine'
  <2>1. Fresh \in Copy /\ Unused(Fresh) /\ Fresh # c
    BY <1>7, FreshUnused DEF Retry, NewCopy, Unused
  <2>2. /\ job[c][p] = "failed" /\ job' = [job EXCEPT ![c][p] = "decided"]
        /\ place' = [place EXCEPT ![Fresh] = "timer"]
        /\ holder' = [holder EXCEPT ![Fresh] = p]
        /\ msg' = [msg EXCEPT ![Fresh] = msg[c]]
        /\ UNCHANGED <<dead, successes, link, disruptions>>
    BY <1>7 DEF Retry, NewCopy
  <2>3. OwedCopy(c) /\ ~OwedCopy(c)'
    BY <2>1, <2>2
  <2>4. \A d \in Copy : OwedCopy(d)' => d = Fresh \/ (OwedCopy(d) /\ msg'[d] = msg[d] /\ d # c)
    BY <2>1, <2>2, <2>3
  <2> QED
    BY <2>1, <2>2, <2>3, <2>4 DEF Unused
<1>8. ASSUME NEW p \in Proc, NEW c \in Copy, DeadLetter(p, c) PROVE OneLine'
  BY <1>8 DEF DeadLetter
<1>9. ASSUME NEW p \in Proc, NEW c \in Copy, Ack(p, c) PROVE OneLine'
  BY <1>9 DEF Ack
<1>10. ASSUME NEW c \in Copy, Wake(c) PROVE OneLine'
  BY <1>10 DEF Wake
<1>11. ASSUME Disruption PROVE FALSE
  BY <1>11, Counts
<1>12. CASE UNCHANGED vars
  BY <1>12 DEF vars
<1> QED
  BY <1>1, <1>2, <1>3, <1>4, <1>5, <1>6, <1>7, <1>8, <1>9, <1>10, <1>11,
     <1>12 DEF Next, HandlerStep, Disruption

-----------------------------------------------------------------------------
(* The invariant *)

DInv ==
  /\ TypeOK /\ Safe /\ NothingVanishes /\ PostedInv
  /\ disruptions = 0 => OneLine

LEMMA InitDInv == Init => DInv
<1> SUFFICES ASSUME Init PROVE DInv
  OBVIOUS
<1>1. TypeOK /\ Safe
  BY InitTypeOK, InitSafe
<1>2. NothingVanishes /\ PostedInv
  BY DEF Init, NothingVanishes, PostedInv, InUse, Settled
<1>3. OneLine
  BY DEF Init, OneLine, OwedCopy
<1> QED
  BY <1>1, <1>2, <1>3 DEF DInv

LEMMA NextDInv ==
  ASSUME DInv, [Next]_vars
  PROVE  DInv'
<1>1. TypeOK' /\ Safe'
  BY NextTypeOK, NextSafe DEF DInv
<1>2. NothingVanishes'
  BY NextKept DEF DInv, NothingVanishes, Kept
<1>3. PostedInv'
  BY NextPosted DEF DInv
<1>4. disruptions' = 0 => OneLine'
  BY NextOneLine DEF DInv
<1> QED
  BY <1>1, <1>2, <1>3, <1>4 DEF DInv

THEOREM DeliveryInvariant == Spec => []DInv
<1>1. DInv /\ [Next]_vars => DInv'
  BY NextDInv
<1> QED
  BY InitDInv, <1>1, PTL DEF Spec

(* While no channel, process or queue is lost, a message has one outcome.  *)
THEOREM Outcome == Spec => []OneOutcome
<1>1. DInv => OneOutcome
  BY DEF DInv, OneOutcome, OneLine, TypeOK, Settled, Owed, OwedCopy
<1> QED
  BY <1>1, DeliveryInvariant, PTL

(* A completed row is that of a message that was handled.                  *)
RowInv == \A m \in Msg : row[m] = "completed" => successes[m] > 0

LEMMA NextRow ==
  ASSUME TypeOK, RowInv, [Next]_vars
  PROVE  RowInv'
<1> USE DEF TypeOK, RowInv, historyVars
<1>1. ASSUME NEW m \in Msg, InsertRow(m) PROVE RowInv'
  BY <1>1 DEF InsertRow
<1>2. ASSUME NEW m \in Msg, PublishMessage(m) PROVE RowInv'
  BY <1>2 DEF PublishMessage
<1>3. ASSUME NEW p \in Proc, NEW c \in Copy, Receive(p, c) \/ Start(p, c) PROVE RowInv'
  BY <1>3 DEF Receive, Start
<1>4. ASSUME NEW p \in Proc, NEW c \in Copy, Store(p, c) PROVE RowInv'
  <2>1. /\ UNCHANGED successes
        /\ row' = [row EXCEPT ![msg[c]] = "processing"] \/ UNCHANGED row
    BY <1>4 DEF Store
  <2> QED
    BY <2>1
<1>5. ASSUME NEW p \in Proc, NEW c \in Copy, Complete(p, c) PROVE RowInv'
  <2>1. /\ successes' = [successes EXCEPT ![msg[c]] = @ + 1]
        /\ row' = [row EXCEPT ![msg[c]] = "completed"] \/ UNCHANGED row
    BY <1>5 DEF Complete
  <2> QED
    BY <2>1
<1>6. ASSUME NEW p \in Proc, NEW c \in Copy,
             Retry(p, c) \/ DeadLetter(p, c) \/ Ack(p, c)
      PROVE  RowInv'
  BY <1>6 DEF Retry, DeadLetter, Ack
<1>7. ASSUME NEW c \in Copy, Wake(c) PROVE RowInv'
  BY <1>7 DEF Wake
<1>8. CASE Disruption
  BY <1>8 DEF Disruption, LoseChannel, DeleteQueue, Restart, RestartBroker
<1>9. CASE UNCHANGED vars
  BY <1>9 DEF vars
<1> QED
  BY <1>1, <1>2, <1>3, <1>4, <1>5, <1>6, <1>7, <1>8, <1>9
  DEF Next, HandlerStep, Disruption

(* What a handler stores belongs to a message that has no outcome, as long *)
(* as nothing is lost: a completed row stays so.                           *)
LEMMA RowStays ==
  ASSUME DInv, RowInv, disruptions = 0, [Next]_vars, NEW m \in Msg, row[m] = "completed"
  PROVE  row'[m] = "completed"
<1>1. TypeOK /\ OneLine /\ request[m] = "published" /\ successes[m] > 0
  BY DEF DInv, RowInv, PostedInv, Settled
<1>2. ASSUME NEW n \in Msg, InsertRow(n) PROVE row'[m] = "completed"
  BY <1>1, <1>2 DEF InsertRow, TypeOK
<1>3. ASSUME NEW p \in Proc, NEW c \in Copy, Store(p, c) PROVE row'[m] = "completed"
  <2>1. /\ job[c][p] = "started"
        /\ row' = [row EXCEPT ![msg[c]] = "processing"] \/ UNCHANGED row
    BY <1>3 DEF Store, MoveJob
  <2>2. OwedCopy(c)
    BY <1>1, <2>1 DEF OneLine, OwedCopy, Undecided
  <2>3. msg[c] # m
    BY <1>1, <2>2 DEF OneLine
  <2> QED
    BY <1>1, <2>1, <2>3 DEF TypeOK
<1>4. ASSUME NEW p \in Proc, NEW c \in Copy, Complete(p, c) PROVE row'[m] = "completed"
  BY <1>1, <1>4 DEF Complete, TypeOK
<1>5. ASSUME NEW p \in Proc, NEW c \in Copy,
             \/ Receive(p, c) \/ Start(p, c)
             \/ Retry(p, c) \/ DeadLetter(p, c) \/ Ack(p, c)
      PROVE  UNCHANGED row
  BY <1>5 DEF Receive, Start, Retry, DeadLetter, Ack
<1>6. ASSUME NEW n \in Msg, PublishMessage(n) PROVE UNCHANGED row
  BY <1>6 DEF PublishMessage
<1>7. ASSUME NEW c \in Copy, Wake(c) PROVE UNCHANGED row
  BY <1>7 DEF Wake
<1>8. CASE Disruption
  BY <1>1, <1>8 DEF Disruption, LoseChannel, DeleteQueue, Restart, RestartBroker
<1>9. CASE UNCHANGED vars
  BY <1>9 DEF vars
<1> QED
  BY <1>2, <1>3, <1>4, <1>5, <1>6, <1>7, <1>8, <1>9 DEF Next, HandlerStep, Disruption

(* While no channel, process or queue is lost, a completed row says so     *)
(* from then on.                                                           *)
THEOREM Completed == Spec => CompletedStays
<1>1. Init => RowInv
  BY DEF Init, RowInv
<1>2. DInv /\ RowInv /\ [Next]_vars =>
        [disruptions = 0 => \A m \in Msg : row[m] = "completed" => row'[m] = "completed"]_vars
  BY RowStays
<1>3. DInv => TypeOK
  BY DEF DInv
<1> QED
  BY <1>1, <1>2, <1>3, NextRow, DeliveryInvariant, PTL DEF Spec, CompletedStays

-----------------------------------------------------------------------------
(* How steps change the claims *)

Holder == Proc \cup {NoProc}
ClaimsOf == [m \in Msg |-> Claims(m)]
Has(m, c, q) == msg[c] = m /\ Claimed(c, q)

LEMMA ClaimsHas ==
  ASSUME NEW m \in Msg
  PROVE  /\ Claims(m) \subseteq Copy \X Holder
         /\ \A c \in Copy, q \in Holder : <<c, q>> \in Claims(m) <=> Has(m, c, q)
BY DEF Claims, Has, Holder

(* Of the claims on m those in R end, those in A begin.                    *)
LEMMA ClaimChange ==
  ASSUME NEW m \in Msg, NEW R, NEW A \in SUBSET (Copy \X Holder),
         \A n \in Msg, c \in Copy, q \in Holder :
           Has(n, c, q)' <=> \/ Has(n, c, q) /\ ~(n = m /\ <<c, q>> \in R)
                             \/ n = m /\ <<c, q>> \in A
  PROVE  ClaimsOf' = [ClaimsOf EXCEPT ![m] = (@ \ R) \cup A]
<1>1. ASSUME NEW n \in Msg
      PROVE  Claims(n)' = IF n = m THEN (Claims(n) \ R) \cup A ELSE Claims(n)
  <2>1. /\ Claims(n)' \subseteq Copy \X Holder
        /\ \A c \in Copy, q \in Holder : <<c, q>> \in Claims(n)' <=> Has(n, c, q)'
    BY DEF Claims, Has, Holder
  <2>2. \A x \in Copy \X Holder :
          x \in Claims(n)' <=> \/ x \in Claims(n) /\ ~(n = m /\ x \in R)
                               \/ n = m /\ x \in A
    BY <2>1, ClaimsHas
  <2> QED
    BY <2>1, <2>2, ClaimsHas
<1> QED
  BY <1>1 DEF ClaimsOf

LEMMA SameClaims ==
  ASSUME \A n \in Msg, c \in Copy, q \in Holder : Has(n, c, q)' <=> Has(n, c, q)
  PROVE  UNCHANGED ClaimsOf
<1>1. ASSUME NEW n \in Msg PROVE Claims(n)' = Claims(n)
  <2>1. /\ Claims(n)' \subseteq Copy \X Holder
        /\ \A c \in Copy, q \in Holder : <<c, q>> \in Claims(n)' <=> Has(n, c, q)'
    BY DEF Claims, Has, Holder
  <2> QED
    BY <2>1, ClaimsHas
<1> QED
  BY <1>1 DEF ClaimsOf

(* The claim of the handler of c in process p.                             *)
Mine(c, p) == IF place[c] = "unacked" /\ holder[c] = p THEN NoProc ELSE p

(* A handler's step: its own claim alone may end.                          *)
LEMMA HandlerClaims ==
  ASSUME TypeOK, Safe, NEW c \in Copy, NEW p \in Proc, NEW s \in Stage,
         UNCHANGED <<place, holder, msg>>, job[c][p] \in Undecided,
         job' = [job EXCEPT ![c][p] = s]
  PROVE  \A n \in Msg, d \in Copy, q \in Holder :
           Has(n, d, q)' <=>
             Has(n, d, q) /\ (d = c /\ q = Mine(c, p) => s \in Undecided)
<1>1. job'[c][p] = s /\ \A d \in Copy, r \in Proc : <<d, r>> # <<c, p>> => job'[d][r] = job[d][r]
  BY DEF TypeOK
<1> SUFFICES ASSUME NEW d \in Copy, NEW q \in Holder
             PROVE  Claimed(d, q)' <=>
                      Claimed(d, q) /\ (d = c /\ q = Mine(c, p) => s \in Undecided)
  BY DEF Has
<1>2. NoProc \notin Proc
  BY FlowAssumption
<1>3. CASE q = NoProc
  <2>1. place[d] = "unacked" => holder[d] \in Proc
    BY DEF Safe, HolderInv
  <2>2. OwedCopy(d)' <=> OwedCopy(d) /\ (d = c /\ NoProc = Mine(c, p) => s \in Undecided)
    BY <1>1, <1>2, <2>1 DEF OwedCopy, Mine
  <2> QED
    BY <1>3, <2>2 DEF Claimed
<1>4. CASE q \in Proc
  BY <1>1, <1>2, <1>4, Zenon DEF Claimed, Stray, Mine
<1> QED
  BY <1>3, <1>4 DEF Holder

LEMMA HandlerClaim ==
  ASSUME NEW c \in Copy, NEW p \in Proc, job[c][p] \in Undecided, msg[c] \in Msg
  PROVE  Mine(c, p) \in Holder /\ Has(msg[c], c, Mine(c, p))
BY FlowAssumption DEF Mine, Holder, Has, Claimed, OwedCopy, Stray

-----------------------------------------------------------------------------
(* MessageFlow implements Delivery *)

outcomeVars == <<successes, dead, excused, disruptions>>

LEMMA Ends ==
  ASSUME NEW c \in Copy, NEW q \in Holder, msg[c] \in Msg, Has(msg[c], c, q),
         \A n \in Msg, d \in Copy, r \in Holder :
           Has(n, d, r)' <=> Has(n, d, r) /\ ~(d = c /\ r = q)
  PROVE  Promise!End(msg[c])
<1> SUFFICES ASSUME NEW k \in Msg, k = msg[c] PROVE Promise!End(k)
  OBVIOUS
<1>1. <<c, q>> \in Claims(k)
  BY ClaimsHas
<1>2. \A n \in Msg, d \in Copy, r \in Holder :
        Has(n, d, r)' <=> \/ Has(n, d, r) /\ ~(n = k /\ <<d, r>> \in {<<c, q>>})
                          \/ n = k /\ <<d, r>> \in {}
  BY DEF Has
<1>3. ClaimsOf' = [ClaimsOf EXCEPT ![k] = (@ \ {<<c, q>>}) \cup {}]
  <2>1. {} \in SUBSET (Copy \X Holder)
    OBVIOUS
  <2> QED
    BY <1>2, <2>1, ClaimChange, Zenon
<1>4. ClaimsOf' = [ClaimsOf EXCEPT ![k] = @ \ {<<c, q>>}]
  BY <1>3
<1> QED
  BY <1>1, <1>4 DEF Promise!End, ClaimsOf

LEMMA StutterStep ==
  ASSUME UNCHANGED outcomeVars,
         \A n \in Msg, c \in Copy, q \in Holder : Has(n, c, q)' <=> Has(n, c, q)
  PROVE  UNCHANGED Promise!vars
<1>1. UNCHANGED ClaimsOf
  BY SameClaims
<1> QED
  BY <1>1 DEF Promise!vars, ClaimsOf, outcomeVars

(* A message that was not posted yet has no claim and no outcome.          *)
LEMMA PublishPosts ==
  ASSUME DInv, NEW m \in Msg, PublishMessage(m)
  PROVE  Promise!Post(m) \/ Promise!PostInVain(m) \/ UNCHANGED Promise!vars
<1>1. TypeOK /\ PostedInv /\ request[m] # "published"
  BY DEF DInv, PublishMessage
<1>4. Claims(m) = {}
  <2>1. \A c \in Copy, q \in Holder : ~Has(m, c, q)
    BY <1>1 DEF PostedInv, InUse, Has, Claimed, OwedCopy, Stray, Undecided, Holder
  <2> QED
    BY <2>1, ClaimsHas
<1>5. ~Promise!Posted(m)
  <2>1. ~(successes[m] > 0 \/ m \in dead \cup excused)
    BY <1>1 DEF PostedInv, Settled
  <2> QED
    BY <1>4, <2>1 DEF Promise!Posted, Promise!Closed
<1>2. CASE NewCopy(m, 0, "ready", NoProc) /\ UNCHANGED excused
  <2>1. PICK f \in Copy : f = Fresh /\ Unused(f)
    BY <1>2, FreshUnused DEF NewCopy
  <2>2. /\ place' = [place EXCEPT ![f] = "ready"]
        /\ holder' = [holder EXCEPT ![f] = NoProc]
        /\ msg' = [msg EXCEPT ![f] = m]
        /\ UNCHANGED <<job, outcomeVars>>
    BY <1>2, <2>1 DEF PublishMessage, NewCopy, outcomeVars
  <2>6. \A n \in Msg, c \in Copy, q \in Holder :
          Has(n, c, q)' <=> \/ Has(n, c, q) /\ ~(n = m /\ <<c, q>> \in {})
                            \/ n = m /\ <<c, q>> \in {<<f, NoProc>>}
    <3>1. /\ place'[f] = "ready" /\ msg'[f] = m /\ job' = job
          /\ \A c \in Copy : c # f => /\ place'[c] = place[c] /\ holder'[c] = holder[c]
                                     /\ msg'[c] = msg[c]
      BY <1>1, <2>2 DEF TypeOK
    <3>2. ASSUME NEW n \in Msg, NEW c \in Copy, NEW q \in Holder, c # f
          PROVE  Has(n, c, q)' <=> Has(n, c, q)
      BY <3>1, <3>2 DEF Has, Claimed, OwedCopy, Stray
    <3>3. ASSUME NEW n \in Msg, NEW q \in Holder
          PROVE  ~Has(n, f, q) /\ (Has(n, f, q)' <=> n = m /\ q = NoProc)
      BY <2>1, <3>1 DEF Unused, Has, Claimed, OwedCopy, Stray, Undecided, Holder
    <3> QED
      BY <3>2, <3>3
  <2>7. ClaimsOf' = [ClaimsOf EXCEPT ![m] = (@ \ {}) \cup {<<f, NoProc>>}]
    <3>1. {<<f, NoProc>>} \in SUBSET (Copy \X Holder)
      BY DEF Holder
    <3> QED
      BY <2>6, <3>1, ClaimChange, Zenon
  <2>9. ClaimsOf' = [ClaimsOf EXCEPT ![m] = {<<f, NoProc>>}]
    BY <1>4, <2>7 DEF ClaimsOf
  <2> QED
    BY <1>5, <2>2, <2>9 DEF Promise!Post, ClaimsOf, outcomeVars
<1>3. CASE UNCHANGED brokerVars /\ (UNCHANGED excused \/ excused' = excused \cup {m})
  <2>1. UNCHANGED <<place, holder, msg, job, successes, dead, disruptions>>
    BY <1>3 DEF PublishMessage, brokerVars
  <2>2. \A n \in Msg, c \in Copy, q \in Holder : Has(n, c, q)' <=> Has(n, c, q)
    BY <2>1 DEF Has, Claimed, OwedCopy, Stray
  <2>3. UNCHANGED ClaimsOf
    BY <2>2, SameClaims
  <2> QED
    BY <1>3, <1>5, <2>1, <2>3
    DEF Promise!PostInVain, Promise!vars, ClaimsOf
<1> QED
  BY <1>2, <1>3 DEF PublishMessage

(* The steps that begin or pass on a delivery leave every claim where it is. *)
LEMMA SilentSteps ==
  ASSUME DInv, NEW p \in Proc, NEW c \in Copy,
         Receive(p, c) \/ Start(p, c) \/ Store(p, c) \/ Ack(p, c)
  PROVE  UNCHANGED Promise!vars
<1>1. TypeOK /\ Safe
  BY DEF DInv
<1>2. CASE Receive(p, c)
  <2>1. /\ place[c] = "ready" /\ job[c][p] = "idle"
        /\ place' = [place EXCEPT ![c] = "unacked"]
        /\ holder' = [holder EXCEPT ![c] = p]
        /\ job' = [job EXCEPT ![c][p] = "buffered"]
        /\ UNCHANGED <<msg, outcomeVars>>
    BY <1>2 DEF Receive, MoveJob, historyVars, outcomeVars
  <2>2. /\ place'[c] = "unacked" /\ holder'[c] = p /\ job'[c][p] = "buffered"
        /\ \A q \in Proc : q # p => job'[c][q] = job[c][q]
        /\ \A d \in Copy : d # c => /\ place'[d] = place[d] /\ holder'[d] = holder[d]
                                    /\ job'[d] = job[d]
    BY <1>1, <2>1 DEF TypeOK
  <2>3. ASSUME NEW n \in Msg, NEW d \in Copy, NEW q \in Holder
        PROVE  Has(n, d, q)' <=> Has(n, d, q)
    <3>1. CASE d # c
      BY <2>1, <2>2, <3>1 DEF Has, Claimed, OwedCopy, Stray
    <3>2. CASE d = c /\ q = NoProc
      BY <2>1, <2>2, <3>2 DEF Has, Claimed, OwedCopy, Undecided
    <3>3. CASE d = c /\ q = p
      BY <2>1, <2>2, <3>3, FlowAssumption DEF Has, Claimed, Stray, Undecided
    <3>4. CASE d = c /\ q \in Proc \ {p}
      BY <2>1, <2>2, <3>4, FlowAssumption DEF Has, Claimed, Stray, Undecided
    <3> QED
      BY <3>1, <3>2, <3>3, <3>4 DEF Holder
  <2> QED
    BY <2>1, <2>3, StutterStep
<1>3. CASE Start(p, c) \/ Store(p, c)
  <2>1. PICK s \in Stage : /\ s \in Undecided /\ job[c][p] \in Undecided
                           /\ job' = [job EXCEPT ![c][p] = s]
    BY <1>3 DEF Start, Store, MoveJob, Stage, Undecided
  <2>2. UNCHANGED <<place, holder, msg, outcomeVars>>
    BY <1>3 DEF Start, Store, brokerVars, historyVars, outcomeVars
  <2>3. \A n \in Msg, d \in Copy, q \in Holder : Has(n, d, q)' <=> Has(n, d, q)
    BY <1>1, <2>1, <2>2, HandlerClaims
  <2> QED
    BY <2>2, <2>3, StutterStep
<1>4. CASE Ack(p, c)
  <2>1. /\ job[c][p] = "decided" /\ job' = [job EXCEPT ![c][p] = "idle"]
        /\ UNCHANGED <<msg, outcomeVars>>
    BY <1>4 DEF Ack, MoveJob, historyVars, outcomeVars
  <2>2. /\ job'[c][p] = "idle"
        /\ \A q \in Proc : q # p => job'[c][q] = job[c][q]
        /\ \A d \in Copy : d # c => job'[d] = job[d]
    BY <1>1, <2>1 DEF TypeOK
  <2>3. \/ UNCHANGED <<place, holder>>
        \/ /\ place[c] = "unacked" /\ holder[c] = p
           /\ place'[c] = "unused"
           /\ \A d \in Copy : d # c => place'[d] = place[d] /\ holder'[d] = holder[d]
    BY <1>1, <1>4, <2>1 DEF Ack, TypeOK, Safe, JobInv
  <2>4. ASSUME NEW n \in Msg, NEW d \in Copy, NEW q \in Holder
        PROVE  Has(n, d, q)' <=> Has(n, d, q)
    <3>1. CASE d # c
      BY <2>1, <2>2, <2>3, <3>1 DEF Has, Claimed, OwedCopy, Stray
    <3>2. CASE d = c /\ q = NoProc
      <4>1. place[c] = "unacked" => holder[c] \in Proc
        BY <1>1 DEF Safe, HolderInv
      <4>2. OwedCopy(c)' <=> OwedCopy(c)
        BY <2>1, <2>2, <2>3, <4>1 DEF OwedCopy, Undecided
      <4> QED
        BY <2>1, <3>2, <4>2 DEF Has, Claimed
    <3>3. CASE d = c /\ q \in Proc
      <4>1. Stray(c, q)' <=> Stray(c, q)
        BY <2>1, <2>2, <2>3, <3>3 DEF Stray, Undecided
      <4> QED
        BY <2>1, <3>3, <4>1, FlowAssumption DEF Has, Claimed
    <3> QED
      BY <3>1, <3>2, <3>3 DEF Holder
  <2> QED
    BY <2>1, <2>4, StutterStep
<1> QED
  BY <1>2, <1>3, <1>4

(* A handler that comes to its end gives up its claim.                     *)
LEMMA HandlerEnds ==
  ASSUME DInv, NEW p \in Proc, NEW c \in Copy, job[c][p] \in Undecided,
         UNCHANGED <<place, holder, msg>>, job' = [job EXCEPT ![c][p] = "decided"]
  PROVE  Promise!End(msg[c])
<1>1. TypeOK /\ Safe /\ msg[c] \in Msg
  BY DEF DInv, TypeOK
<1>2. "decided" \in Stage /\ "decided" \notin Undecided
  BY DEF Stage, Undecided
<1>3. Mine(c, p) \in Holder /\ Has(msg[c], c, Mine(c, p))
  BY <1>1, HandlerClaim
<1>4. \A n \in Msg, d \in Copy, r \in Holder :
        Has(n, d, r)' <=> Has(n, d, r) /\ ~(d = c /\ r = Mine(c, p))
  BY <1>1, <1>2, HandlerClaims
<1> QED
  BY <1>1, <1>3, <1>4, Ends

LEMMA CompleteHandles ==
  ASSUME DInv, NEW p \in Proc, NEW c \in Copy, Complete(p, c)
  PROVE  Promise!Handle(msg[c])
<1>1. /\ job[c][p] \in Undecided /\ job' = [job EXCEPT ![c][p] = "decided"]
      /\ UNCHANGED <<place, holder, msg, dead, excused, disruptions>>
      /\ successes' = [successes EXCEPT ![msg[c]] = @ + 1]
  BY DEF Complete, MoveJob, brokerVars, Undecided
<1>2. Promise!End(msg[c])
  BY <1>1, HandlerEnds
<1> QED
  BY <1>1, <1>2 DEF Promise!Handle

LEMMA DeadLetterEnds ==
  ASSUME DInv, NEW p \in Proc, NEW c \in Copy, DeadLetter(p, c)
  PROVE  Promise!Bury(msg[c]) \/ Promise!Lose(msg[c])
<1>1. /\ job[c][p] \in Undecided /\ job' = [job EXCEPT ![c][p] = "decided"]
      /\ UNCHANGED <<place, holder, msg, successes, disruptions>>
  BY DEF DeadLetter, MoveJob, brokerVars, Undecided
<1>2. Promise!End(msg[c])
  BY <1>1, HandlerEnds
<1> QED
  BY <1>1, <1>2 DEF DeadLetter, Promise!Bury, Promise!Lose

(* A retry: the handler's claim goes to the copy that sleeps.              *)
LEMMA RetryPasses ==
  ASSUME DInv, NEW p \in Proc, NEW c \in Copy, Retry(p, c)
  PROVE  Promise!Pass(msg[c])
<1>1. TypeOK /\ Safe /\ msg[c] \in Msg
  BY DEF DInv, TypeOK
<1>2. PICK f \in Copy : f = Fresh /\ Unused(f) /\ f # c
  BY FreshUnused DEF Retry, NewCopy, MoveJob, Unused
<1>3. /\ job[c][p] = "failed" /\ job' = [job EXCEPT ![c][p] = "decided"]
      /\ place' = [place EXCEPT ![f] = "timer"]
      /\ holder' = [holder EXCEPT ![f] = p]
      /\ msg' = [msg EXCEPT ![f] = msg[c]]
      /\ UNCHANGED outcomeVars
  BY <1>2 DEF Retry, NewCopy, MoveJob, historyVars, outcomeVars
<1>4. PICK k \in Msg : k = msg[c]
  BY <1>1
<1>5. PICK q \in Holder : q = Mine(c, p)
  BY FlowAssumption DEF Mine, Holder
<1>6. Has(k, c, q)
  BY <1>1, <1>3, <1>4, <1>5, HandlerClaim DEF Undecided
<1>7. /\ place'[f] = "timer" /\ msg'[f] = k /\ job'[f] = job[f]
      /\ job'[c][p] = "decided"
      /\ \A r \in Proc : r # p => job'[c][r] = job[c][r]
      /\ \A d \in Copy : d # f => /\ place'[d] = place[d] /\ holder'[d] = holder[d]
                                  /\ msg'[d] = msg[d]
      /\ \A d \in Copy : d # c => job'[d] = job[d]
  BY <1>1, <1>2, <1>3, <1>4 DEF TypeOK
<1>8. ASSUME NEW n \in Msg, NEW d \in Copy, NEW r \in Holder, d # f, d # c
      PROVE  Has(n, d, r)' <=> Has(n, d, r)
  BY <1>7, <1>8 DEF Has, Claimed, OwedCopy, Stray
<1>9. ASSUME NEW n \in Msg, NEW r \in Holder
      PROVE  ~Has(n, f, r) /\ (Has(n, f, r)' <=> n = k /\ r = NoProc)
  BY <1>2, <1>7 DEF Unused, Has, Claimed, OwedCopy, Stray, Undecided, Holder
<1>10. ASSUME NEW n \in Msg, NEW r \in Holder
       PROVE  Has(n, c, r)' <=> Has(n, c, r) /\ ~(r = q)
  <2>1. place[c] = "unacked" => holder[c] \in Proc
    BY <1>1 DEF Safe, HolderInv
  <2>2. CASE r = NoProc
    <3>1. OwedCopy(c)' <=> OwedCopy(c) /\ NoProc # q
      BY <1>2, <1>3, <1>5, <1>7, <2>1, FlowAssumption DEF OwedCopy, Mine, Undecided
    <3> QED
      BY <1>2, <1>7, <2>2, <3>1 DEF Has, Claimed
  <2>3. CASE r \in Proc
    <3>1. Stray(c, r)' <=> Stray(c, r) /\ r # q
      BY <1>2, <1>3, <1>5, <1>7, <2>3, FlowAssumption DEF Stray, Mine, Undecided
    <3> QED
      BY <1>2, <1>7, <2>3, <3>1, FlowAssumption DEF Has, Claimed
  <2> QED
    BY <2>2, <2>3 DEF Holder
<1>11. \A n \in Msg, d \in Copy, r \in Holder :
         Has(n, d, r)' <=> \/ Has(n, d, r) /\ ~(n = k /\ <<d, r>> \in {<<c, q>>})
                           \/ n = k /\ <<d, r>> \in {<<f, NoProc>>}
  <2>1. ASSUME NEW n \in Msg, NEW r \in Holder, n # k PROVE ~Has(n, c, r)
    BY <1>4, <2>1 DEF Has
  <2> QED
    BY <1>2, <1>8, <1>9, <1>10, <2>1
<1>12. ClaimsOf' = [ClaimsOf EXCEPT ![k] = (@ \ {<<c, q>>}) \cup {<<f, NoProc>>}]
  <2>1. {<<f, NoProc>>} \in SUBSET (Copy \X Holder)
    BY DEF Holder
  <2> QED
    BY <1>11, <2>1, ClaimChange, Zenon
<1>13. <<c, q>> \in Claims(k) /\ <<f, NoProc>> \notin Claims(k)
  BY <1>6, <1>9, ClaimsHas DEF Holder
<1>14. <<f, NoProc>> \in ClaimsOf'[k] \ ClaimsOf[k]
  BY <1>12, <1>13 DEF ClaimsOf
<1> HIDE DEF Has, Mine
<1>15. Promise!Pass(k)
  BY <1>3, <1>12, <1>13, <1>14 DEF Promise!Pass, ClaimsOf, outcomeVars, Holder
<1> QED
  BY <1>4, <1>15

LEMMA WakeEnds ==
  ASSUME DInv, NEW c \in Copy, Wake(c)
  PROVE  Promise!Lose(msg[c]) \/ UNCHANGED Promise!vars
<1>1. TypeOK /\ msg[c] \in Msg
  BY DEF DInv, TypeOK
<1>2. /\ place[c] = "timer" /\ holder' = [holder EXCEPT ![c] = NoProc]
      /\ UNCHANGED <<msg, job, dead, successes, disruptions>>
  BY DEF Wake
<1>3. \A d \in Copy : d # c => holder'[d] = holder[d]
  BY <1>1, <1>2 DEF TypeOK
<1>4. CASE place' = [place EXCEPT ![c] = "ready"] /\ UNCHANGED excused
  <2>1. place'[c] = "ready" /\ \A d \in Copy : d # c => place'[d] = place[d]
    BY <1>1, <1>4 DEF TypeOK
  <2>2. \A n \in Msg, d \in Copy, q \in Holder : Has(n, d, q)' <=> Has(n, d, q)
    BY <1>2, <1>3, <2>1 DEF Has, Claimed, OwedCopy, Stray
  <2> QED
    BY <1>2, <1>4, <2>2, StutterStep DEF outcomeVars
<1>5. CASE place' = [place EXCEPT ![c] = "unused"] /\ excused' = excused \cup {msg[c]}
  <2>1. place'[c] = "unused" /\ \A d \in Copy : d # c => place'[d] = place[d]
    BY <1>1, <1>5 DEF TypeOK
  <2>2. NoProc \in Holder /\ Has(msg[c], c, NoProc)
    BY <1>2 DEF Holder, Has, Claimed, OwedCopy
  <2>3. \A n \in Msg, d \in Copy, q \in Holder :
          Has(n, d, q)' <=> Has(n, d, q) /\ ~(d = c /\ q = NoProc)
    BY <1>2, <1>3, <2>1 DEF Has, Claimed, OwedCopy, Stray
  <2>4. Promise!End(msg[c])
    BY <1>1, <2>2, <2>3, Ends
  <2> QED
    BY <1>2, <1>5, <2>4 DEF Promise!Lose
<1> QED
  BY <1>4, <1>5 DEF Wake

(* A message with a claim was posted, and a posted one has a claim or is   *)
(* closed.                                                                 *)
OpenInv ==
  \A m \in Msg :
    /\ Claims(m) # {} => request[m] = "published"
    /\ request[m] = "published" =>
         Claims(m) # {} \/ successes[m] > 0 \/ m \in dead \cup excused

LEMMA ClaimsArePosted == DInv => OpenInv
<1> SUFFICES ASSUME TypeOK, PostedInv, NothingVanishes, NEW m \in Msg
             PROVE  /\ Claims(m) # {} => request[m] = "published"
                    /\ request[m] = "published" =>
                         Claims(m) # {} \/ successes[m] > 0 \/ m \in dead \cup excused
  BY DEF DInv, OpenInv
<1>1. ASSUME Claims(m) # {} PROVE request[m] = "published"
  <2>1. PICK c \in Copy, q \in Holder : Has(m, c, q)
    BY <1>1 DEF Claims, Has, Holder
  <2>2. InUse(c) /\ msg[c] = m
    BY <2>1 DEF Has, Claimed, OwedCopy, Stray, InUse, Holder, Undecided
  <2> QED
    BY <2>2 DEF PostedInv
<1>2. Owed(m) => Claims(m) # {}
  <2> SUFFICES ASSUME Owed(m) PROVE Claims(m) # {}
    OBVIOUS
  <2>1. PICK c \in Copy : Has(m, c, NoProc)
    BY DEF Owed, Has, Claimed, OwedCopy
  <2> QED
    BY <2>1, ClaimsHas DEF Holder
<1> QED
  BY <1>1, <1>2 DEF NothingVanishes, Settled

(* What is lost closes no message that has no outcome without excusing it, *)
(* and opens none that was not posted.                                     *)
LEMMA Disruptions ==
  ASSUME DInv, DInv', OpenInv, OpenInv', Disruption
  PROVE  Promise!Disrupt
<1>1. /\ disruptions' = disruptions + 1
      /\ UNCHANGED <<successes, dead, msg>>
      /\ \A m \in Msg : request'[m] = "published" <=> request[m] = "published"
  BY DEF Disruption, LoseChannel, DeleteQueue, Restart, RestartBroker, Disrupt, historyVars
<1>2. excused \subseteq excused'
  <2>1. ASSUME Destroy(InBroker) PROVE excused \subseteq excused'
    BY <2>1 DEF Destroy
  <2> QED
    BY <2>1 DEF Disruption, LoseChannel, DeleteQueue, Restart, RestartBroker, historyVars
<1>3. \A m \in Msg : m \in excused' => request[m] = "published"
  BY <1>1 DEF DInv, PostedInv
<1>4. ClaimsOf' \in [Msg -> SUBSET (Copy \X Holder)]
  BY DEF ClaimsOf, Claims, Holder
<1>5. ASSUME NEW m \in Msg
      PROVE  /\ Claims(m)' # {} \/ m \in excused' =>
                  Claims(m) # {} \/ successes[m] > 0 \/ m \in dead \cup excused
             /\ Claims(m) # {} /\ Claims(m)' = {} =>
                  successes'[m] > 0 \/ m \in dead' \cup excused'
  BY <1>1, <1>3 DEF OpenInv
<1> QED
  BY <1>1, <1>2, <1>4, <1>5
  DEF Promise!Disrupt, Promise!Posted, Promise!Closed, ClaimsOf, Holder

LEMMA StepDelivers ==
  ASSUME DInv, DInv', OpenInv, OpenInv', [Next]_vars
  PROVE  [Promise!Next]_Promise!vars
<1>1. \A c \in Copy : msg[c] \in Msg
  BY DEF DInv, TypeOK
<1>2. ASSUME NEW m \in Msg, InsertRow(m) PROVE UNCHANGED Promise!vars
  <2>1. UNCHANGED <<place, holder, msg, job, outcomeVars>>
    BY <1>2 DEF InsertRow, brokerVars, historyVars, outcomeVars
  <2>2. \A n \in Msg, c \in Copy, q \in Holder : Has(n, c, q)' <=> Has(n, c, q)
    BY <2>1 DEF Has, Claimed, OwedCopy, Stray
  <2> QED
    BY <2>1, <2>2, StutterStep
<1>3. CASE UNCHANGED vars
  <2>1. UNCHANGED <<place, holder, msg, job, outcomeVars>>
    BY <1>3 DEF vars, brokerVars, historyVars, outcomeVars
  <2>2. \A n \in Msg, c \in Copy, q \in Holder : Has(n, c, q)' <=> Has(n, c, q)
    BY <2>1 DEF Has, Claimed, OwedCopy, Stray
  <2>3. UNCHANGED Promise!vars
    BY <2>1, <2>2, StutterStep
  <2> QED
    BY <2>3
<1>4. ASSUME NEW p \in Proc, NEW c \in Copy, Receive(p, c) \/ HandlerStep(p, c)
      PROVE  \/ UNCHANGED Promise!vars
             \/ Promise!Pass(msg[c]) \/ Promise!Handle(msg[c])
             \/ Promise!Bury(msg[c]) \/ Promise!Lose(msg[c])
  BY <1>4, SilentSteps, CompleteHandles, RetryPasses, DeadLetterEnds DEF HandlerStep
<1>5. CASE Next
  BY <1>1, <1>2, <1>4, <1>5, PublishPosts, WakeEnds, Disruptions
  DEF Next, Disruption, Promise!Next
<1> QED
  BY <1>3, <1>5

(* Handlers, retries, the broker and the API together keep the promise of  *)
(* at-least-once delivery: MessageFlow implements Delivery.                *)
THEOREM Delivers == Spec => IsDelivery
<1>1. Init => Promise!Init
  <2> SUFFICES ASSUME Init PROVE Promise!Init
    OBVIOUS
  <2>1. \A m \in Msg : Claims(m) = {}
    BY FlowAssumption DEF Init, Claims, Claimed, OwedCopy, Stray, Undecided
  <2> QED
    BY <2>1 DEF Init, Promise!Init
<1>2. DInv /\ DInv' /\ OpenInv /\ OpenInv' /\ [Next]_vars => [Promise!Next]_Promise!vars
  BY StepDelivers
<1> QED
  BY <1>1, <1>2, ClaimsArePosted, DeliveryInvariant, PTL DEF Spec, IsDelivery, Promise!Spec
=============================================================================
