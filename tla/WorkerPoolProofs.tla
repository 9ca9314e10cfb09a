--------------------------- MODULE WorkerPoolProofs ---------------------------
(***************************************************************************)
(* Proofs about WorkerPool for every capacity, every set of requested      *)
(* worker counts and every bound.  The inductive invariant is TypeOK with  *)
(* PoolAccounting: what a resize leaves in the channel can only be said    *)
(* together with what its iterations missed, because handlers and the loop *)
(* move tokens between any two of them.                                    *)
(***************************************************************************)
EXTENDS WorkerPool, TLAPS

-----------------------------------------------------------------------------

(* The numbers are integers in range, whatever order the operations take.  *)
LEMMA NumbersInductive ==
  ASSUME TypeOK, [Next]_vars
  PROVE  NumbersOK'
<1> USE PoolAssumption DEF TypeOK, MutexState, NumbersOK, poolVars, resizeVars
<1>1. CASE Deliver
  BY <1>1 DEF Deliver
<1>2. CASE LoseSubscription
  BY <1>2 DEF LoseSubscription
<1>3. CASE LoopStep
  BY <1>3 DEF LoopStep, ReceiveStop, ReceiveDelivery, ReceiveZero, Spawn
<1>4. CASE Finish
  BY <1>4 DEF Finish
<1>5. CASE Return
  BY <1>5 DEF Return
<1>6. ASSUME NEW w \in Targets, BeginResize(w) PROVE NumbersOK'
  BY <1>6 DEF BeginResize
<1>7. CASE DeleteStops \/ StopAllSignals \/ CloseChannel
  BY <1>7 DEF DeleteStops, StopAllSignals, CloseChannel
<1>8. CASE GrowStep
  BY <1>8 DEF GrowStep
<1>9. CASE ShrinkStep
  BY <1>9 DEF ShrinkStep
<1>10. CASE StoreCount
  BY <1>10 DEF StoreCount
<1>11. CASE UNCHANGED vars
  BY <1>11 DEF vars
<1> QED
  BY <1>1, <1>2, <1>3, <1>4, <1>5, <1>6, <1>7, <1>8, <1>9, <1>10, <1>11
  DEF Next, MutexStep

(* So do the states of the loop and of the mutex and the three flags. *)
LEMMA StatesInductive ==
  ASSUME TypeOK, [Next]_vars
  PROVE  loop' \in LoopState /\ mu' \in MutexState /\ FlagsOK'
<1> USE DEF TypeOK, LoopState, MutexState, FlagsOK
<1>1. CASE UNCHANGED vars
  BY <1>1 DEF vars
<1>2. CASE Next
  BY <1>2, Zenon
  DEF Next, LoopStep, MutexStep, Deliver, LoseSubscription, ReceiveStop,
      ReceiveDelivery, ReceiveZero, Spawn, Finish, Return, BeginResize,
      DeleteStops, StopAllSignals, GrowStep, ShrinkStep, StoreCount, CloseChannel
<1> QED
  BY <1>1, <1>2

(* Every variable keeps its type; in particular no operation puts more     *)
(* than Cap tokens into the channel.                                       *)
THEOREM TypeCorrect == Spec => []TypeOK
<1>1. Init => TypeOK
  <2>1. Init => NumbersOK
    BY PoolAssumption DEF Init, NumbersOK
  <2>2. Init => loop \in LoopState /\ mu \in MutexState /\ FlagsOK
    BY Zenon DEF Init, LoopState, MutexState, FlagsOK
  <2> QED
    BY <2>1, <2>2 DEF TypeOK
<1>2. TypeOK /\ [Next]_vars => TypeOK'
  BY NumbersInductive, StatesInductive DEF TypeOK
<1> QED
  BY <1>1, <1>2, PTL DEF Spec

-----------------------------------------------------------------------------

(* The number of rights to run a handler differs from the count by exactly *)
(* what resizes missed, whatever Targets holds.                            *)
THEOREM Accounting == Spec => []PoolAccounting
<1>1. Init => PoolAccounting
  BY PoolAssumption DEF Init, PoolAccounting, Slots, Wanted
<1>2. TypeOK /\ PoolAccounting /\ [Next]_vars => PoolAccounting'
  <2> SUFFICES ASSUME TypeOK, PoolAccounting, [Next]_vars PROVE PoolAccounting'
    OBVIOUS
  <2> USE PoolAssumption DEF TypeOK, MutexState, NumbersOK, poolVars,
                             resizeVars, PoolAccounting, Slots, Wanted
  <2>1. CASE Deliver
    BY <2>1 DEF Deliver
  <2>2. CASE LoseSubscription
    BY <2>2 DEF LoseSubscription
  <2>3. CASE LoopStep
    BY <2>3 DEF LoopStep, ReceiveStop, ReceiveDelivery, ReceiveZero, Spawn
  <2>4. CASE Finish
    BY <2>4 DEF Finish
  <2>5. CASE Return
    BY <2>5 DEF Return
  <2>6. ASSUME NEW w \in Targets, BeginResize(w) PROVE PoolAccounting'
    BY <2>6 DEF BeginResize
  <2>7. CASE DeleteStops
    BY <2>7 DEF DeleteStops
  <2>8. CASE StopAllSignals
    BY <2>8 DEF StopAllSignals
  <2>9. CASE GrowStep
    BY <2>9 DEF GrowStep
  <2>10. CASE ShrinkStep
    BY <2>10 DEF ShrinkStep
  <2>11. CASE StoreCount
    BY <2>11 DEF StoreCount
  <2>12. CASE CloseChannel
    BY <2>12 DEF CloseChannel
  <2>13. CASE UNCHANGED vars
    BY <2>13 DEF vars
  <2> QED
    BY <2>1, <2>2, <2>3, <2>4, <2>5, <2>6, <2>7, <2>8, <2>9, <2>10, <2>11,
       <2>12, <2>13 DEF Next, MutexStep
<1> QED
  BY <1>1, <1>2, TypeCorrect, PTL DEF Spec

-----------------------------------------------------------------------------

(* While a consumer is in the map and its teardown has not begun, its      *)
(* StopChannel is open; the cases in which mu is "grow" or "shrink" are    *)
(* what StopClosedOnce lacks to be inductive.                              *)
StopInv == mu # "closing" /\ registered => ~stop

(* No order of deletions, shutdown and resizes closes StopChannel twice.   *)
THEOREM ClosedOnce == Spec => []StopClosedOnce
<1>1. Init => StopInv
  BY Zenon DEF Init, StopInv
<1>2. StopInv /\ [Next]_vars => StopInv'
  <2> SUFFICES ASSUME StopInv, [Next]_vars PROVE StopInv'
    OBVIOUS
  <2>1. CASE UNCHANGED vars
    BY <2>1 DEF StopInv, vars
  <2>2. CASE \E w \in Targets : BeginResize(w)
    BY <2>2 DEF StopInv, BeginResize
  <2>3. CASE DeleteStops \/ StopAllSignals \/ CloseChannel
    BY <2>3, Zenon DEF StopInv, DeleteStops, StopAllSignals, CloseChannel
  <2>4. CASE GrowStep \/ ShrinkStep \/ StoreCount
    BY <2>4 DEF StopInv, GrowStep, ShrinkStep, StoreCount
  <2>5. CASE Deliver \/ LoseSubscription \/ LoopStep \/ Finish \/ Return
    BY <2>5, Zenon
    DEF StopInv, Deliver, LoseSubscription, LoopStep, ReceiveStop,
        ReceiveDelivery, ReceiveZero, Spawn, Finish, Return
  <2> QED
    BY <2>1, <2>2, <2>3, <2>4, <2>5 DEF Next, MutexStep
<1>3. StopInv => StopClosedOnce
  BY DEF StopInv, StopClosedOnce
<1> QED
  BY <1>1, <1>2, <1>3, PTL DEF Spec

-----------------------------------------------------------------------------

(* Between two resizes, and during one, count and target stay in 1 .. Cap  *)
(* if only such counts are asked for.                                      *)
CountsWithinCap == count \in 1 .. Cap /\ target \in 1 .. Cap

(* A tenant never has fewer rights to run a handler than its WorkerCount,  *)
(* if no request asks for less than one worker or for more than the        *)
(* channel was made for.  A send that finds the channel full loses nothing *)
(* then: Cap tokens are there.                                             *)
THEOREM EnoughSlots ==
  ASSUME Targets \subseteq 1 .. Cap
  PROVE  Spec => []NeverBelowCount
<1> DEFINE IInv == CountsWithinCap /\ NeverBelowCount
<1>1. Init => IInv
  BY PoolAssumption DEF Init, CountsWithinCap, NeverBelowCount, Slots, Wanted
<1>2. TypeOK /\ IInv /\ [Next]_vars => IInv'
  <2> SUFFICES ASSUME TypeOK, IInv, [Next]_vars PROVE IInv'
    OBVIOUS
  <2> USE PoolAssumption DEF TypeOK, MutexState, NumbersOK, poolVars, resizeVars,
                             CountsWithinCap, NeverBelowCount, Slots, Wanted
  <2>1. CASE Deliver \/ LoseSubscription
    BY <2>1 DEF Deliver, LoseSubscription
  <2>2. CASE LoopStep
    BY <2>2 DEF LoopStep, ReceiveStop, ReceiveDelivery, ReceiveZero, Spawn
  <2>3. CASE Finish \/ Return
    BY <2>3 DEF Finish, Return
  <2>4. ASSUME NEW w \in Targets, BeginResize(w) PROVE IInv'
    BY <2>4 DEF BeginResize
  <2>5. CASE DeleteStops \/ StopAllSignals \/ CloseChannel
    BY <2>5 DEF DeleteStops, StopAllSignals, CloseChannel
  <2>6. CASE GrowStep
    BY <2>6 DEF GrowStep
  <2>7. CASE ShrinkStep
    BY <2>7 DEF ShrinkStep
  <2>8. CASE StoreCount
    BY <2>8 DEF StoreCount
  <2>9. CASE UNCHANGED vars
    BY <2>9 DEF vars
  <2> QED
    BY <2>1, <2>2, <2>3, <2>4, <2>5, <2>6, <2>7, <2>8, <2>9 DEF Next, MutexStep
<1>3. IInv => NeverBelowCount
  OBVIOUS
<1> QED
  BY <1>1, <1>2, <1>3, TypeCorrect, PTL DEF Spec

-----------------------------------------------------------------------------

(* Between resizes at most WorkerCount handlers exist, for every capacity  *)
(* and whatever counts are asked for, until a resize misses a busy one.    *)
THEOREM Limit == Spec => []ConcurrencyLimit
<1>1. TypeOK /\ PoolAccounting => ConcurrencyLimit
  BY PoolAssumption DEF TypeOK, NumbersOK, PoolAccounting, Slots, Wanted,
                        ConcurrencyLimit
<1> QED
  BY <1>1, TypeCorrect, Accounting, PTL

-----------------------------------------------------------------------------

(* The pool implements a counting semaphore, whatever resizes do to it.    *)
THEOREM Refinement == Spec => IsSemaphore
<1>1. Init => Sem!Init
  BY PoolAssumption DEF Init, Sem!Init, Slots
<1>2. TypeOK /\ [Next]_vars => [Sem!Next]_Sem!vars
  <2> SUFFICES ASSUME TypeOK, [Next]_vars PROVE [Sem!Next]_Sem!vars
    OBVIOUS
  <2> USE PoolAssumption DEF TypeOK, NumbersOK, poolVars, resizeVars, Slots,
                             Sem!Next, Sem!vars
  <2>1. CASE Spawn
    BY <2>1 DEF Spawn, Sem!Acquire
  <2>2. CASE Return
    BY <2>2 DEF Return, Sem!Release
  <2>3. CASE GrowStep
    BY <2>3 DEF GrowStep, Sem!Extend
  <2>4. CASE ShrinkStep
    BY <2>4 DEF ShrinkStep, Sem!Withdraw
  <2>5. CASE Finish
    BY <2>5 DEF Finish
  <2>6. CASE Deliver \/ LoseSubscription
    BY <2>6 DEF Deliver, LoseSubscription
  <2>7. CASE ReceiveStop \/ ReceiveDelivery \/ ReceiveZero
    BY <2>7 DEF ReceiveStop, ReceiveDelivery, ReceiveZero
  <2>8. ASSUME NEW w \in Targets, BeginResize(w) PROVE [Sem!Next]_Sem!vars
    BY <2>8 DEF BeginResize
  <2>9. CASE DeleteStops \/ StopAllSignals \/ CloseChannel \/ StoreCount
    BY <2>9 DEF DeleteStops, StopAllSignals, CloseChannel, StoreCount
  <2>10. CASE UNCHANGED vars
    BY <2>10 DEF vars
  <2> QED
    BY <2>1, <2>2, <2>3, <2>4, <2>5, <2>6, <2>7, <2>8, <2>9, <2>10
    DEF Next, LoopStep, MutexStep
<1> QED
  BY <1>1, <1>2, TypeCorrect, PTL DEF Spec, IsSemaphore, Sem!Spec

=============================================================================
