------------------------------ MODULE Semaphore ------------------------------
(***************************************************************************)
(* What a worker pool promises, with no channel, consumer loop or lock in  *)
(* it: a counting semaphore whose number of permits an operator may change *)
(* while permits are in use.  Starting a handler takes a free permit, the  *)
(* end of a handler gives the permit back, and nothing but an operator     *)
(* changes how many permits there are.                                     *)
(***************************************************************************)
EXTENDS Integers

CONSTANT InitialPermits   \* a natural number

VARIABLES
  permits,   \* permits in existence
  inUse      \* permits held by handlers

vars == <<permits, inUse>>

Init == permits = InitialPermits /\ inUse = 0

Acquire == inUse < permits /\ inUse' = inUse + 1 /\ UNCHANGED permits

Release == inUse > 0 /\ inUse' = inUse - 1 /\ UNCHANGED permits

Extend == permits' = permits + 1 /\ UNCHANGED inUse

(* Only a permit nobody holds can be withdrawn. *)
Withdraw == inUse < permits /\ permits' = permits - 1 /\ UNCHANGED inUse

Next == Acquire \/ Release \/ Extend \/ Withdraw

Spec == Init /\ [][Next]_vars

=============================================================================
