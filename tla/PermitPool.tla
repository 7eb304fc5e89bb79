------------------------------ MODULE PermitPool ------------------------------
(***************************************************************************)
(* What the semaphores of src/services/mailService.ts promise: at most as  *)
(* many users as a pool has permits hold one, and somebody waits only      *)
(* while all of them are held.  One step may concern several pools, as an  *)
(* operation that ends gives back every permit it holds.  Module           *)
(* ReadFanout implements it with the fan-out of a service and its          *)
(* mailboxes.                                                              *)
(***************************************************************************)
EXTENDS Semaphore, FiniteSets, SequencesExt

CONSTANTS
  Pools,   \* the pools of permits
  Limit,   \* the permits of each
  Users    \* who may enter them

\* What the promise asks of the limits; concurrency.ts refuses one that is no positive integer.
LimitsAreNatural == \A p \in Pools : Limit[p] \in Nat

VARIABLES
  sem,      \* the semaphore of each pool
  holders   \* the users that have a permit of it

vars == <<sem, holders>>

Init ==
  /\ sem = [p \in Pools |-> NewSemaphore(Limit[p])]
  /\ holders = [p \in Pools |-> {}]

Waiting(p) == {sem[p].queue[i] : i \in DOMAIN sem[p].queue}
Members(p) == holders[p] \cup Waiting(p)

\* Those who are new entered in some order: the first got the free permits.
Enter(p) ==
  LET new == Members(p)' \ Members(p) IN
  /\ IsFiniteSet(new) /\ new \subseteq Users
  /\ \E users \in SetToSeqs(new) :
       /\ sem'[p] = Entered(sem[p], users)
       /\ holders'[p] = holders[p] \cup GoingOn(sem[p], users)

\* A user that is done gives its permit to the one that has waited longest.
Leave(p, user) ==
  /\ user \in holders[p]
  /\ sem'[p] = Left(sem[p])
  /\ holders'[p] = (holders[p] \ {user}) \cup Woken(sem[p])

Next ==
  \A p \in Pools :
    \/ sem'[p] = sem[p] /\ holders'[p] = holders[p]
    \/ Enter(p)
    \/ \E user \in holders[p] : Leave(p, user)

Spec == Init /\ [][Next]_vars
----------------------------------------------------------------------------
\* A semaphore is free permits and waiting users.
PoolTypeOK ==
  \A p \in Pools : sem[p] \in [free : Nat, queue : Seq(Users)] /\ holders[p] \subseteq Users

\* The queue names each waiting user once, and none of the holders.
QueueIsOrderly ==
  \A p \in Pools :
    /\ \A i, j \in DOMAIN sem[p].queue : i # j => sem[p].queue[i] # sem[p].queue[j]
    /\ Waiting(p) \cap holders[p] = {}

\* Every permit is either free or held.
PermitsAreConserved ==
  \A p \in Pools :
    /\ IsFiniteSet(holders[p])
    /\ sem[p].free + Cardinality(holders[p]) = Limit[p]

\* Nobody waits beside a free permit.
NobodyWaitsInVain == \A p \in Pools : sem[p].queue # <<>> => sem[p].free = 0
===============================================================================
