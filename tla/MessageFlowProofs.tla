-------------------------- MODULE MessageFlowProofs --------------------------
(***************************************************************************)
(* NothingVanishes for any number of messages, copies, processes, faults   *)
(* and disruptions, and whichever type the library gives a header.         *)
(*                                                                         *)
(* It is not inductive alone.  That an acknowledgement takes away only the *)
(* copy its handler is done with, and that a lost channel gives back every *)
(* copy whose delivery the library drops, needs JobInv: as long as it is   *)
(* subscribed, a process works on nothing but what it has received and not *)
(* acknowledged.                                                           *)
(***************************************************************************)
EXTENDS MessageFlow, TLAPS

HolderInv == \A c \in Copy : place[c] = "unacked" => holder[c] \in Proc

JobInv ==
  \A c \in Copy, p \in Proc :
    link[p] = "subscribed" /\ job[c][p] # "idle" => place[c] = "unacked" /\ holder[c] = p

-----------------------------------------------------------------------------

(* The copy a publication fills is one of the unused ones. *)
LEMMA FreshUnused ==
  ASSUME \E c \in Copy : Unused(c)
  PROVE  Fresh \in Copy /\ Unused(Fresh)
BY DEF Fresh

LEMMA InitTypeOK == Init => TypeOK
BY FlowAssumption
DEF Init, TypeOK, Request, Status, Place, Stage, Link

LEMMA FaultsBounded ==
  ASSUME TypeOK, NoFault \/ Fault
  PROVE  faults' \in 0 .. MaxTroubles
BY FlowAssumption DEF TypeOK, NoFault, Fault, Troubles

(* What the library drops of its deliveries becomes idle, nothing else     *)
(* changes.                                                                *)
LEMMA Dropping ==
  ASSUME TypeOK, NEW ps \in SUBSET Proc, DropBuffered(ps)
  PROVE  /\ job' \in [Copy -> [Proc -> Stage]]
         /\ \A c \in Copy, p \in Proc :
              \/ job'[c][p] = job[c][p]
              \/ p \in ps /\ job[c][p] = "buffered" /\ job'[c][p] = "idle"
BY DEF TypeOK, DropBuffered, Buffered, Stage

(* Destroyed copies leave the broker, and their messages are excused.      *)
LEMMA Destruction ==
  ASSUME TypeOK, NEW cs \in SUBSET Copy, Destroy(cs)
  PROVE  /\ place' \in [Copy -> Place] /\ holder' \in [Copy -> Proc \cup {NoProc}]
         /\ excused' \subseteq Msg /\ excused \subseteq excused'
         /\ \A c \in cs : place'[c] = "unused" /\ (OwedCopy(c) => msg[c] \in excused')
         /\ \A c \in Copy \ cs : place'[c] = place[c] /\ holder'[c] = holder[c]
BY DEF TypeOK, Destroy, Release, Place

LEMMA NextTypeOK ==
  ASSUME TypeOK, [Next]_vars
  PROVE  TypeOK'
<1> USE FlowAssumption DEF TypeOK, Request, Status, Place, Stage, Link, brokerVars,
                           linkVars, historyVars, Disrupt, MoveJob
<1>1. ASSUME NEW m \in Msg, InsertRow(m) PROVE TypeOK'
  <2>1. faults' \in 0 .. MaxTroubles
    BY <1>1, FaultsBounded DEF InsertRow
  <2> QED
    BY <1>1, <2>1 DEF InsertRow
<1>2. ASSUME NEW m \in Msg, PublishMessage(m) PROVE TypeOK'
  <2>1. faults' \in 0 .. MaxTroubles
    BY <1>2, FaultsBounded DEF PublishMessage, Enqueued, Dropped, Rejected
  <2>2. request' \in [Msg -> Request] /\ excused' \subseteq Msg
    BY <1>2 DEF PublishMessage
  <2>3. /\ place' \in [Copy -> Place] /\ holder' \in [Copy -> Proc \cup {NoProc}]
        /\ msg' \in [Copy -> Msg] /\ retry' \in [Copy -> Nat]
    <3>1. CASE NewCopy(m, 0, "ready", NoProc)
      BY <3>1, FreshUnused DEF NewCopy
    <3>2. CASE UNCHANGED brokerVars
      BY <3>2
    <3> QED
      BY <1>2, <3>1, <3>2 DEF PublishMessage
  <2>4. UNCHANGED <<row, dead, job, linkVars, attempts, successes, disruptions>>
    BY <1>2 DEF PublishMessage
  <2> QED
    BY <2>1, <2>2, <2>3, <2>4
<1>3. ASSUME NEW p \in Proc, NEW c \in Copy, Receive(p, c) PROVE TypeOK'
  BY <1>3 DEF Receive
<1>4. ASSUME NEW p \in Proc, NEW c \in Copy, Start(p, c) PROVE TypeOK'
  BY <1>4 DEF Start
<1>5. ASSUME NEW p \in Proc, NEW c \in Copy, Store(p, c) PROVE TypeOK'
  <2>1. faults' \in 0 .. MaxTroubles
    BY <1>5, FaultsBounded DEF Store
  <2>2. CASE job' = [job EXCEPT ![c][p] = "stored"] /\ UNCHANGED attempts
             /\ row' = [row EXCEPT ![msg[c]] = "processing"]
    <3>1. job' \in [Copy -> [Proc -> Stage]]
      BY <2>2
    <3>2. row' \in [Msg -> Status] /\ attempts' \in [Msg -> Nat]
      BY <2>2
    <3> QED
      BY <1>5, <2>1, <3>1, <3>2, Zenon DEF Store
  <2>3. CASE job' = [job EXCEPT ![c][p] = "failed"] /\ UNCHANGED row
             /\ attempts' = [attempts EXCEPT ![msg[c]] = @ + 1]
    <3>1. job' \in [Copy -> [Proc -> Stage]]
      BY <2>3
    <3>2. row' \in [Msg -> Status] /\ attempts' \in [Msg -> Nat]
      BY <2>3
    <3> QED
      BY <1>5, <2>1, <3>1, <3>2, Zenon DEF Store
  <2> QED
    BY <1>5, <2>2, <2>3 DEF Store
<1>6. ASSUME NEW p \in Proc, NEW c \in Copy, Complete(p, c) PROVE TypeOK'
  BY <1>6, FaultsBounded DEF Complete
<1>7. ASSUME NEW p \in Proc, NEW c \in Copy, Retry(p, c) PROVE TypeOK'
  BY <1>7, FreshUnused DEF Retry, NewCopy, RetryCount
<1>8. ASSUME NEW p \in Proc, NEW c \in Copy, DeadLetter(p, c) PROVE TypeOK'
  BY <1>8, FaultsBounded DEF DeadLetter
<1>9. ASSUME NEW p \in Proc, NEW c \in Copy, Ack(p, c) PROVE TypeOK'
  BY <1>9 DEF Ack
<1>10. ASSUME NEW c \in Copy, Wake(c) PROVE TypeOK'
  <2>1. faults' \in 0 .. MaxTroubles
    BY <1>10, FaultsBounded DEF Wake, Enqueued, Dropped, Rejected
  <2>2. place' \in [Copy -> Place]
    BY <1>10 DEF Wake
  <2>3. excused' \subseteq Msg
    BY <1>10 DEF Wake
  <2> QED
    BY <1>10, <2>1, <2>2, <2>3 DEF Wake
<1>11. ASSUME NEW p \in Proc, LoseChannel(p) PROVE TypeOK'
  <2>1. job' \in [Copy -> [Proc -> Stage]]
    BY <1>11, Dropping DEF LoseChannel
  <2>2. place' \in [Copy -> Place] /\ holder' \in [Copy -> Proc \cup {NoProc}]
    BY <1>11 DEF LoseChannel, Requeue, Release
  <2>4. link' \in [Proc -> Link] /\ disruptions' \in 0 .. MaxDisruptions
    BY <1>11 DEF LoseChannel
  <2>3. UNCHANGED <<request, row, dead, msg, retry, queue, headerType, historyVars, faults>>
    BY <1>11 DEF LoseChannel
  <2> QED
    BY <2>1, <2>2, <2>3, <2>4
<1>12. ASSUME NEW p \in Proc, Restart(p) PROVE TypeOK'
  <2>1. link' \in [Proc -> Link] /\ queue' \in BOOLEAN
    BY <1>12 DEF Restart, Reconnect
  <2> QED
    BY <1>12, <2>1 DEF Restart, Requeue, Release, Sleeping
<1>13. ASSUME NEW p \in Proc, DeleteQueue(p) PROVE TypeOK'
  <2>1. /\ place' \in [Copy -> Place] /\ holder' \in [Copy -> Proc \cup {NoProc}]
        /\ excused' \subseteq Msg
    BY <1>13, Destruction DEF DeleteQueue, InBroker
  <2>2. link' \in [Proc -> Link] /\ disruptions' \in 0 .. MaxDisruptions
    BY <1>13 DEF DeleteQueue
  <2>3. /\ UNCHANGED <<request, row, dead, msg, retry, job, headerType, attempts,
                       successes, faults>>
        /\ queue' = FALSE
    BY <1>13 DEF DeleteQueue
  <2> QED
    BY <2>1, <2>2, <2>3
<1>14. CASE RestartBroker
  <2>1. /\ place' \in [Copy -> Place] /\ holder' \in [Copy -> Proc \cup {NoProc}]
        /\ excused' \subseteq Msg
    BY <1>14, Destruction DEF RestartBroker, InBroker
  <2>2. job' \in [Copy -> [Proc -> Stage]]
    BY <1>14, Dropping DEF RestartBroker
  <2>3. link' \in [Proc -> Link] /\ disruptions' \in 0 .. MaxDisruptions
    BY <1>14 DEF RestartBroker
  <2>4. UNCHANGED <<request, row, dead, msg, retry, queue, headerType, attempts,
                    successes, faults>>
    BY <1>14 DEF RestartBroker
  <2> QED
    BY <2>1, <2>2, <2>3, <2>4
<1>15. CASE UNCHANGED vars
  BY <1>15 DEF vars
<1> QED
  BY <1>1, <1>2, <1>3, <1>4, <1>5, <1>6, <1>7, <1>8, <1>9, <1>10, <1>11,
     <1>12, <1>13, <1>14, <1>15 DEF Next, HandlerStep

(* Every variable keeps its type. *)
THEOREM TypeCorrect == Spec => []TypeOK
BY InitTypeOK, NextTypeOK, PTL DEF Spec

-----------------------------------------------------------------------------

Safe == HolderInv /\ JobInv

LEMMA InitSafe == Init => Safe
BY DEF Init, Safe, HolderInv, JobInv

LEMMA NextSafe ==
  ASSUME TypeOK, Safe, [Next]_vars
  PROVE  Safe'
<1> USE FlowAssumption DEF TypeOK, Safe, HolderInv, JobInv, brokerVars, linkVars, MoveJob
<1>1. ASSUME NEW m \in Msg, InsertRow(m) PROVE Safe'
  BY <1>1 DEF InsertRow
<1>2. ASSUME NEW m \in Msg, PublishMessage(m) PROVE Safe'
  <2>1. CASE NewCopy(m, 0, "ready", NoProc)
    BY <1>2, <2>1, FreshUnused DEF PublishMessage, NewCopy, Unused
  <2>2. CASE UNCHANGED brokerVars
    BY <1>2, <2>2 DEF PublishMessage
  <2> QED
    BY <1>2, <2>1, <2>2 DEF PublishMessage
<1>3. ASSUME NEW p \in Proc, NEW c \in Copy, Receive(p, c) PROVE Safe'
  BY <1>3 DEF Receive
<1>4. ASSUME NEW p \in Proc, NEW c \in Copy, Start(p, c) PROVE Safe'
  BY <1>4 DEF Start
<1>5. ASSUME NEW p \in Proc, NEW c \in Copy, Store(p, c) PROVE Safe'
  BY <1>5 DEF Store
<1>6. ASSUME NEW p \in Proc, NEW c \in Copy, Complete(p, c) PROVE Safe'
  BY <1>6 DEF Complete
<1>7. ASSUME NEW p \in Proc, NEW c \in Copy, Retry(p, c) PROVE Safe'
  BY <1>7, FreshUnused DEF Retry, NewCopy, Unused
<1>8. ASSUME NEW p \in Proc, NEW c \in Copy, DeadLetter(p, c) PROVE Safe'
  BY <1>8 DEF DeadLetter
<1>9. ASSUME NEW p \in Proc, NEW c \in Copy, Ack(p, c) PROVE Safe'
  <2>1. UNCHANGED link /\ job[c][p] = "decided"
        /\ job' = [job EXCEPT ![c][p] = "idle"]
    BY <1>9 DEF Ack
  <2>2. CASE link[p] # "subscribed"
    <3>1. UNCHANGED <<place, holder>>
      BY <1>9, <2>2 DEF Ack
    <3> QED
      BY <2>1, <3>1
  <2>3. CASE link[p] = "subscribed"
    <3>1. /\ place' = [place EXCEPT ![c] = "unused"]
          /\ holder' = [holder EXCEPT ![c] = NoProc]
      BY <1>9, <2>3 DEF Ack
    <3>2. HolderInv'
      BY <3>1
    <3>3. \A q \in Proc : link[q] = "subscribed" /\ job[c][q] # "idle" => q = p
      BY <2>1, <2>3
    <3>4. JobInv'
      BY <2>1, <3>1, <3>3
    <3> QED
      BY <3>2, <3>4
  <2> QED
    BY <2>2, <2>3
<1>10. ASSUME NEW c \in Copy, Wake(c) PROVE Safe'
  BY <1>10 DEF Wake
<1>11. ASSUME NEW p \in Proc, LoseChannel(p) PROVE Safe'
  <2>1. /\ link'[p] # "subscribed"
        /\ \A q \in Proc : q # p => link'[q] = link[q]
        /\ \A c \in Copy : \/ place'[c] = place[c] /\ holder'[c] = holder[c]
                           \/ holder[c] = p /\ place'[c] = "ready"
    BY <1>11 DEF LoseChannel, Requeue, Release, Held
  <2>2. \A c \in Copy, q \in Proc : q # p => job'[c][q] = job[c][q]
    BY <1>11, Dropping DEF LoseChannel
  <2> HIDE DEF TypeOK
  <2> QED
    BY <2>1, <2>2
<1>12. ASSUME NEW p \in Proc, Restart(p) PROVE Safe'
  <2>1. \A q \in Proc : q # p => link'[q] = link[q]
    BY <1>12 DEF Restart, Reconnect
  <2> QED
    BY <1>12, <2>1 DEF Restart, Requeue, Release, Held, Sleeping
<1>13. ASSUME NEW p \in Proc, DeleteQueue(p) PROVE Safe'
  <2>1. \A c \in Copy : place'[c] # "unacked"
    <3>1. Destroy(InBroker) /\ InBroker \in SUBSET Copy
      BY <1>13 DEF DeleteQueue, InBroker
    <3>2. /\ \A c \in InBroker : place'[c] = "unused"
          /\ \A c \in Copy \ InBroker : place'[c] = place[c]
      BY <3>1, Destruction
    <3> QED
      BY <3>2 DEF InBroker
  <2>2. \A q \in Proc : link'[q] # "subscribed"
    BY <1>13 DEF DeleteQueue
  <2> QED
    BY <2>1, <2>2
<1>14. CASE RestartBroker
  <2>1. \A c \in Copy : place'[c] # "unacked"
    BY <1>14, Destruction DEF RestartBroker, InBroker
  <2>2. \A q \in Proc : link'[q] # "subscribed"
    BY <1>14 DEF RestartBroker
  <2> QED
    BY <2>1, <2>2
<1>15. CASE UNCHANGED vars
  BY <1>15 DEF vars
<1> QED
  BY <1>1, <1>2, <1>3, <1>4, <1>5, <1>6, <1>7, <1>8, <1>9, <1>10, <1>11,
     <1>12, <1>13, <1>14, <1>15 DEF Next, HandlerStep

-----------------------------------------------------------------------------

(* NothingVanishes for one message. *)
Kept(m) == request[m] = "published" => Owed(m) \/ Settled(m) \/ m \in excused

LEMMA NextKept ==
  ASSUME TypeOK, Safe, [Next]_vars, NEW n \in Msg, Kept(n)
  PROVE  Kept(n)'
<1> USE FlowAssumption DEF TypeOK, Safe, HolderInv, JobInv, brokerVars, linkVars,
        historyVars, MoveJob, Kept, Owed, OwedCopy, Settled, Undecided
<1>1. ASSUME NEW m \in Msg, InsertRow(m) PROVE Kept(n)'
  BY <1>1 DEF InsertRow
<1>2. ASSUME NEW m \in Msg, PublishMessage(m) PROVE Kept(n)'
  <2>1. CASE NewCopy(m, 0, "ready", NoProc)
    BY <1>2, <2>1, FreshUnused DEF PublishMessage, NewCopy, Unused
  <2>2. CASE UNCHANGED brokerVars /\ request' = [request EXCEPT ![m] = "refused"]
    BY <1>2, <2>2 DEF PublishMessage
  <2>3. CASE UNCHANGED brokerVars /\ excused' = excused \cup {m}
    BY <1>2, <2>3 DEF PublishMessage
  <2> QED
    BY <1>2, <2>1, <2>2, <2>3 DEF PublishMessage
<1>3. ASSUME NEW p \in Proc, NEW c \in Copy, Receive(p, c) PROVE Kept(n)'
  BY <1>3 DEF Receive
<1>4. ASSUME NEW p \in Proc, NEW c \in Copy, Start(p, c) PROVE Kept(n)'
  BY <1>4 DEF Start
<1>5. ASSUME NEW p \in Proc, NEW c \in Copy, Store(p, c) PROVE Kept(n)'
  <2>1. UNCHANGED <<request, place, holder, msg, dead, excused, successes>>
    BY <1>5 DEF Store
  <2>2. PICK s \in {"stored", "failed"} :
          job[c][p] = "started" /\ job' = [job EXCEPT ![c][p] = s]
    BY <1>5 DEF Store
  <2>3. \A d \in Copy, q \in Proc : job[d][q] \in Undecided => job'[d][q] \in Undecided
    BY <2>2
  <2> QED
    BY <2>1, <2>3
<1>6. ASSUME NEW p \in Proc, NEW c \in Copy, Complete(p, c) PROVE Kept(n)'
  BY <1>6 DEF Complete
<1>7. ASSUME NEW p \in Proc, NEW c \in Copy, Retry(p, c) PROVE Kept(n)'
  <2>1. Fresh \in Copy /\ Unused(Fresh) /\ Fresh # c
    BY <1>7, FreshUnused DEF Retry, NewCopy, Unused
  <2>2. /\ UNCHANGED <<request, dead, excused, successes>>
        /\ job[c][p] = "failed" /\ job' = [job EXCEPT ![c][p] = "decided"]
        /\ place' = [place EXCEPT ![Fresh] = "timer"]
        /\ holder' = [holder EXCEPT ![Fresh] = p]
        /\ msg' = [msg EXCEPT ![Fresh] = msg[c]]
    BY <1>7 DEF Retry, NewCopy
  <2>3. CASE msg[c] = n
    BY <2>1, <2>2, <2>3
  <2>4. CASE msg[c] # n
    <3>1. ASSUME NEW d \in Copy, msg[d] = n, d # Fresh
          PROVE  /\ msg'[d] = n /\ place'[d] = place[d] /\ holder'[d] = holder[d]
                 /\ job'[d] = job[d]
      BY <2>1, <2>2, <2>4, <3>1
    <3>2. Owed(n) => Owed(n)'
      BY <2>1, <3>1 DEF Unused
    <3> QED
      BY <2>2, <3>2
  <2> QED
    BY <2>3, <2>4
<1>8. ASSUME NEW p \in Proc, NEW c \in Copy, DeadLetter(p, c) PROVE Kept(n)'
  BY <1>8 DEF DeadLetter
<1>9. ASSUME NEW p \in Proc, NEW c \in Copy, Ack(p, c) PROVE Kept(n)'
  BY <1>9 DEF Ack
<1>10. ASSUME NEW c \in Copy, Wake(c) PROVE Kept(n)'
  BY <1>10 DEF Wake
<1>11. ASSUME NEW p \in Proc, LoseChannel(p) PROVE Kept(n)'
  <2>1. /\ UNCHANGED <<request, msg, dead, successes, excused>>
        /\ \A c \in Copy : \/ place'[c] = place[c] /\ holder'[c] = holder[c]
                              /\ (place[c] = "unacked" => holder[c] # p)
                           \/ place'[c] = "ready"
    BY <1>11 DEF LoseChannel, Requeue, Release, Held
  <2>2. \A c \in Copy, q \in Proc : q # p => job'[c][q] = job[c][q]
    BY <1>11, Dropping DEF LoseChannel
  <2>3. \A c \in Copy : OwedCopy(c) => OwedCopy(c)'
    BY <2>1, <2>2
  <2> QED
    BY <2>1, <2>3
<1>12. ASSUME NEW p \in Proc, Restart(p) PROVE Kept(n)'
  BY <1>12 DEF Restart, Requeue, Release, Held, Sleeping
<1>13. ASSUME Destroy(InBroker), UNCHANGED <<request, msg, dead, successes>>
       PROVE  Kept(n)'
  <2>1. /\ excused \subseteq excused'
        /\ \A c \in Copy : c \in InBroker /\ OwedCopy(c) => msg[c] \in excused'
        /\ \A c \in Copy : c \notin InBroker => place'[c] = place[c]
    BY <1>13, Destruction DEF InBroker
  <2>2. \A c \in Copy : OwedCopy(c) => msg[c] \in excused' \/ OwedCopy(c)'
    BY <2>1 DEF InBroker
  <2> QED
    BY <1>13, <2>1, <2>2
<1>14. ASSUME NEW p \in Proc, DeleteQueue(p) PROVE Kept(n)'
  BY <1>13, <1>14 DEF DeleteQueue
<1>15. CASE RestartBroker
  BY <1>13, <1>15 DEF RestartBroker
<1>16. CASE UNCHANGED vars
  BY <1>16 DEF vars
<1> QED
  BY <1>1, <1>2, <1>3, <1>4, <1>5, <1>6, <1>7, <1>8, <1>9, <1>10, <1>11,
     <1>12, <1>14, <1>15, <1>16 DEF Next, HandlerStep

(* No posted message is just gone: until it is handled to the end or       *)
(* dead-lettered, some copy of it is in the queue, asleep before a retry,  *)
(* or with a handler whose delivery the broker will repeat if it dies;     *)
(* unless a copy was destroyed in one of the ways the property names.      *)
THEOREM Vanishing == Spec => []NothingVanishes
<1>1. Init => NothingVanishes
  BY DEF Init, NothingVanishes
<1>2. TypeOK /\ Safe /\ NothingVanishes /\ [Next]_vars => NothingVanishes'
  BY NextKept DEF NothingVanishes, Kept
<1> QED
  BY <1>1, <1>2, InitTypeOK, NextTypeOK, InitSafe, NextSafe, PTL DEF Spec

-----------------------------------------------------------------------------

(* The retry header never claims more failures than there were, and the    *)
(* failure being handled is one more than it claims.                       *)
HeaderInv ==
  /\ \A c \in Copy : retry[c] <= attempts[msg[c]]
  /\ \A c \in Copy, p \in Proc : job[c][p] = "failed" => retry[c] < attempts[msg[c]]

LEMMA NextHeader ==
  ASSUME TypeOK, HeaderInv, DeadAfterRetries, [Next]_vars
  PROVE  HeaderInv' /\ DeadAfterRetries'
<1> USE FlowAssumption DEF TypeOK, HeaderInv, DeadAfterRetries, brokerVars,
                           linkVars, historyVars, MoveJob
<1> DEFINE Goal == HeaderInv' /\ DeadAfterRetries'
<1>1. ASSUME NEW m \in Msg, InsertRow(m) PROVE Goal
  BY <1>1 DEF InsertRow
<1>2. ASSUME NEW m \in Msg, PublishMessage(m) PROVE Goal
  <2>1. CASE NewCopy(m, 0, "ready", NoProc)
    BY <1>2, <2>1, FreshUnused DEF PublishMessage, NewCopy, Unused
  <2>2. CASE UNCHANGED brokerVars
    BY <1>2, <2>2 DEF PublishMessage
  <2> QED
    BY <1>2, <2>1, <2>2 DEF PublishMessage
<1>3. ASSUME NEW p \in Proc, NEW c \in Copy, Receive(p, c) PROVE Goal
  BY <1>3 DEF Receive
<1>4. ASSUME NEW p \in Proc, NEW c \in Copy, Start(p, c) PROVE Goal
  BY <1>4 DEF Start
<1>5. ASSUME NEW p \in Proc, NEW c \in Copy, Store(p, c) PROVE Goal
  <2>1. UNCHANGED <<retry, msg, dead>>
    BY <1>5 DEF Store
  <2>2. CASE job' = [job EXCEPT ![c][p] = "stored"] /\ UNCHANGED attempts
    BY <2>1, <2>2
  <2>3. CASE /\ job' = [job EXCEPT ![c][p] = "failed"]
             /\ attempts' = [attempts EXCEPT ![msg[c]] = @ + 1]
    BY <2>1, <2>3
  <2> QED
    BY <1>5, <2>2, <2>3 DEF Store
<1>6. ASSUME NEW p \in Proc, NEW c \in Copy, Complete(p, c) PROVE Goal
  BY <1>6 DEF Complete
<1>7. ASSUME NEW p \in Proc, NEW c \in Copy, Retry(p, c) PROVE Goal
  <2>1. RetryCount(c) + 1 <= attempts[msg[c]]
    BY <1>7 DEF Retry, RetryCount
  <2>2. Fresh \in Copy /\ Unused(Fresh)
    BY <1>7, FreshUnused DEF Retry, NewCopy
  <2>3. /\ UNCHANGED <<attempts, dead>>
        /\ job' = [job EXCEPT ![c][p] = "decided"]
        /\ retry' = [retry EXCEPT ![Fresh] = RetryCount(c) + 1]
        /\ msg' = [msg EXCEPT ![Fresh] = msg[c]]
    BY <1>7 DEF Retry, NewCopy
  <2> QED
    BY <2>1, <2>2, <2>3 DEF Unused
<1>8. ASSUME NEW p \in Proc, NEW c \in Copy, DeadLetter(p, c) PROVE Goal
  BY <1>8 DEF DeadLetter, RetryCount
<1>9. ASSUME NEW p \in Proc, NEW c \in Copy, Ack(p, c) PROVE Goal
  BY <1>9 DEF Ack
<1>10. ASSUME NEW c \in Copy, Wake(c) PROVE Goal
  BY <1>10 DEF Wake
<1>11. ASSUME NEW p \in Proc, LoseChannel(p) PROVE Goal
  <2>1. \A c \in Copy, q \in Proc : job'[c][q] = "failed" => job[c][q] = "failed"
    BY <1>11, Dropping DEF LoseChannel
  <2> QED
    BY <1>11, <2>1 DEF LoseChannel
<1>12. ASSUME NEW p \in Proc, Restart(p) PROVE Goal
  BY <1>12 DEF Restart
<1>13. ASSUME NEW p \in Proc, DeleteQueue(p) PROVE Goal
  BY <1>13 DEF DeleteQueue
<1>14. CASE RestartBroker
  <2>1. \A c \in Copy, q \in Proc : job'[c][q] = "failed" => job[c][q] = "failed"
    BY <1>14, Dropping DEF RestartBroker
  <2> QED
    BY <1>14, <2>1 DEF RestartBroker
<1>15. CASE UNCHANGED vars
  BY <1>15 DEF vars
<1> QED
  BY <1>1, <1>2, <1>3, <1>4, <1>5, <1>6, <1>7, <1>8, <1>9, <1>10, <1>11,
     <1>12, <1>13, <1>14, <1>15 DEF Next, HandlerStep

(* A dead letter is written only of a message whose handling failed at     *)
(* least four times, however often lost channels have doubled its copies.  *)
THEOREM DeadLetters == Spec => []DeadAfterRetries
<1>1. Init => HeaderInv /\ DeadAfterRetries
  BY DEF Init, HeaderInv, DeadAfterRetries
<1> QED
  BY <1>1, InitTypeOK, NextTypeOK, NextHeader, PTL DEF Spec

=============================================================================
