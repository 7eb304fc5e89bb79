--------------------------- MODULE SubmissionLedger ---------------------------
(***************************************************************************)
(* What Safe Send promises about submissions, without drafts, policies,    *)
(* confirmations or requests: one entry per idempotency key.  An entry is  *)
(* reserved for an owner (a mailbox), the reservation is a ticket that may *)
(* be spent once on handing the message to the SMTP server, the entry is   *)
(* settled once, and only the retirement of its owner frees the key.       *)
(***************************************************************************)
EXTENDS Naturals

CONSTANTS Keys, Owners, Outcomes, Nobody

VARIABLES
  entry,    \* key -> its state and its owner
  tickets,  \* reservations that may still be handed over
  retired,  \* owners that are gone for good
  handed    \* key -> owner -> times a message was handed over

vars == <<entry, tickets, retired, handed>>

Free == [state |-> "none", owner |-> Nobody]

Init ==
  /\ entry   = [k \in Keys |-> Free]
  /\ tickets = {}
  /\ retired = {}
  /\ handed  = [k \in Keys |-> [o \in Owners |-> 0]]

Reserve(k, o) ==
  /\ entry[k] = Free
  /\ o \notin retired
  /\ entry'   = [entry EXCEPT ![k] = [state |-> "submitting", owner |-> o]]
  /\ tickets' = tickets \cup {<<k, o>>}
  /\ UNCHANGED <<retired, handed>>

\* The ticket is spent by handing over.
HandOver(k, o) ==
  /\ <<k, o>> \in tickets
  /\ tickets' = tickets \ {<<k, o>>}
  /\ handed'  = [handed EXCEPT ![k][o] = handed[k][o] + 1]
  /\ UNCHANGED <<entry, retired>>

\* An entry is settled once; a ticket of the key may be given up with it.
Settle(k, outcome) ==
  /\ entry[k].state = "submitting"
  /\ entry' = [entry EXCEPT ![k].state = outcome]
  /\ \/ tickets' = tickets
     \/ \E o \in Owners : tickets' = tickets \ {<<k, o>>}
  /\ UNCHANGED <<retired, handed>>

\* A reservation is abandoned without being settled.
GiveUp(lost) ==
  /\ tickets' = tickets \ lost
  /\ UNCHANGED <<entry, retired, handed>>

\* The owners leave, and the entries they owned with them.
Retire(leaving) ==
  /\ retired' = retired \cup leaving
  /\ entry' = [k \in Keys |-> IF entry[k].owner \in leaving THEN Free ELSE entry[k]]
  /\ UNCHANGED <<tickets, handed>>

Next ==
  \/ \E k \in Keys, o \in Owners : Reserve(k, o) \/ HandOver(k, o)
  \/ \E k \in Keys, outcome \in Outcomes : Settle(k, outcome)
  \/ \E lost \in SUBSET tickets : GiveUp(lost)
  \/ \E leaving \in SUBSET Owners : Retire(leaving)

Spec == Init /\ [][Next]_vars
===============================================================================
