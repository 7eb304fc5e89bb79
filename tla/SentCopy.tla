-------------------------------- MODULE SentCopy --------------------------------
(***************************************************************************)
(* ImapSentCopyWriter.save (src/send/sentCopy.ts), called once the SMTP    *)
(* server has accepted somebody: look for the message in the Sent folder,  *)
(* append it if it is not there, and try again after an error, each time   *)
(* over a connection of its own.  The provider may save a copy itself at   *)
(* any time, and an append the client gave up (socketTimeout) may have     *)
(* been stored, may never be, or is stored at any time after.              *)
(*                                                                         *)
(* Error codes, folder names and the waiting times are left out.           *)
(***************************************************************************)
EXTENDS Naturals

CONSTANTS
  MaxAttempts,     \* SentCopyOptions.maxAttempts
  Observations,    \* number of observationDelaysMs, used by the first attempt
  MaxRefused       \* bound: searches that are answered by `false`

ASSUME AttemptsInRange == MaxAttempts \in 1..5
ASSUME ObservesOnce == Observations \in Nat \ {0}
ASSUME RefusalsAreCounted == MaxRefused \in Nat

VARIABLES
  pc,        \* the await the writer is at
  attempt,   \* the loop variable
  observed,  \* searches made by this attempt
  outcome,   \* what observeExisting is about to return: "found", "absent" or "threw"
  result,    \* the result of save, "none" before it returns
  clients,   \* connections that are open
  own,       \* copies stored by an append
  pending,   \* appends that were given up and may still be stored
  provided,  \* copies stored by the provider
  unseen,    \* history: a copy of the provider came after the last search that was answered
  refused,   \* history: searches that were answered by `false`
  missed,    \* history: the pending appends that a search was too early for
  late       \* history: copies stored by one of those

vars == <<pc, attempt, observed, outcome, result, clients, own, pending, provided, unseen,
          refused, missed, late>>

Points  == {"start", "connecting", "listing", "opening", "searching", "closing", "appending",
            "leaving", "sleeping", "returned"}
Results == {"provider_saved", "imap_appended", "failed"}

Copies == own + provided

\* The message is not too large, or save returns at once.
Init ==
  /\ \E small \in BOOLEAN : /\ pc = IF small THEN "start" ELSE "returned"
                            /\ result = IF small THEN "none" ELSE "failed"
                            /\ attempt = IF small THEN 1 ELSE 0
  /\ observed = 0
  /\ outcome = "absent"
  /\ clients = 0
  /\ own = 0
  /\ pending = 0
  /\ provided \in {0, 1}
  /\ unseen = FALSE
  /\ refused = 0
  /\ missed = 0
  /\ late = 0

----------------------------------------------------------------------------
folder == <<own, pending, provided, unseen, refused, missed, late>>

\* An exception, or a return: the finally block is next.
Leaves(r) == pc' = "leaving" /\ result' = r

\* The address, the credentials and the client, and connect.
Connect ==
  /\ \/ /\ pc = "start"
        /\ pc' = "connecting" /\ clients' = clients + 1 /\ UNCHANGED result
     \/ /\ pc = "start"
        /\ Leaves("none") /\ UNCHANGED clients
     \/ /\ pc = "connecting"
        /\ pc' = "listing" \/ pc' = "leaving"
        /\ UNCHANGED <<clients, result>>
  /\ UNCHANGED <<attempt, observed, outcome, folder>>

\* Without a Sent folder there is no other attempt.
ListFolders ==
  /\ pc = "listing"
  /\ \/ pc' = "opening" /\ UNCHANGED result
     \/ Leaves("failed")
     \/ Leaves("none")
  /\ UNCHANGED <<attempt, observed, outcome, clients, folder>>

\* The folder must open read-only.
OpenFolder ==
  /\ pc = "opening"
  /\ pc' = "searching" \/ pc' = "leaving"
  /\ observed' = 0
  /\ UNCHANGED <<attempt, outcome, result, clients, folder>>

\* Mutant of Delays: only the first attempt observes.
DelaysOfFirst == IF attempt = 1 THEN Observations ELSE 0

Delays == IF attempt = 1 THEN Observations ELSE 1

\* One round of observeExisting: an answer that is not a list counts as nothing found.
Search ==
  /\ pc = "searching"
  /\ \/ /\ observed < Delays
        /\ observed' = observed + 1
        /\ \/ /\ IF Copies > 0 THEN pc' = "closing" /\ outcome' = "found"
                             ELSE UNCHANGED <<pc, outcome>>
              /\ unseen' = FALSE /\ missed' = pending /\ UNCHANGED refused
           \/ /\ refused < MaxRefused
              /\ refused' = refused + 1 /\ UNCHANGED <<pc, outcome, unseen, missed>>
           \/ /\ pc' = "closing" /\ outcome' = "threw"
              /\ UNCHANGED <<unseen, refused, missed>>
     \/ /\ observed = Delays
        /\ pc' = "closing" /\ outcome' = "absent"
        /\ UNCHANGED <<observed, unseen, refused, missed>>
  /\ UNCHANGED <<attempt, result, clients, own, pending, provided, late>>

\* Mutant of CloseFolder: a message that is not found is looked for again, without end.
CloseAndLookAgain ==
  /\ pc = "closing"
  /\ \/ outcome = "found"  /\ Leaves("provider_saved")
     \/ outcome = "absent" /\ pc' = "opening" /\ UNCHANGED result
     \/ Leaves("none")
  /\ UNCHANGED <<attempt, observed, outcome, clients, folder>>

\* mailboxClose in the finally block: its exception replaces what was found.
CloseFolder ==
  /\ pc = "closing"
  /\ \/ outcome = "found"  /\ Leaves("provider_saved")
     \/ outcome = "absent" /\ pc' = "appending" /\ UNCHANGED result
     \/ Leaves("none")
  /\ UNCHANGED <<attempt, observed, outcome, clients, folder>>

\* Mutant of Appended: whatever the append returned counts.
AppendedAnyhow(answer) == answer # "threw"

Appended(answer) == answer = "ok"

\* Mutant of Append: an append whose answer is lost is repeated at once.
AppendTwice ==
  /\ pc = "appending"
  /\ own' = own + 2
  /\ Leaves("imap_appended")
  /\ UNCHANGED <<attempt, observed, outcome, clients, pending, provided, unseen, refused,
                 missed, late>>

\* The server stores the message or refuses it.  Of an append that ends with an exception it
\* has stored the message, will not, or has it on its way.
Append ==
  /\ pc = "appending"
  /\ \E fate \in {"stored", "lost", "pending"}, answer \in {"ok", "rejected", "threw"} :
       /\ answer = "ok" => fate = "stored"
       /\ answer = "rejected" => fate = "lost"
       /\ own' = IF fate = "stored" THEN own + 1 ELSE own
       /\ pending' = IF fate = "pending" THEN pending + 1 ELSE pending
       /\ Leaves(IF Appended(answer) THEN "imap_appended" ELSE "none")
  /\ UNCHANGED <<attempt, observed, outcome, clients, provided, unseen, refused, missed, late>>

\* Mutant of Closed: a client whose attempt succeeded is kept.
ClosedAfterError == IF result \in {"none", "failed"} THEN 0 ELSE clients

\* closeClient: log out, or close.
Closed == 0

\* Mutant of MoreAttempts: one attempt too many.
OneMoreAttempt == attempt <= MaxAttempts

MoreAttempts == attempt < MaxAttempts

Leave ==
  /\ pc = "leaving"
  /\ clients' = Closed
  /\ IF result # "none" THEN pc' = "returned" /\ UNCHANGED result
     ELSE IF MoreAttempts THEN pc' = "sleeping" /\ UNCHANGED result
     ELSE pc' = "returned" /\ result' = "failed"
  /\ UNCHANGED <<attempt, observed, outcome, folder>>

Sleep ==
  /\ pc = "sleeping"
  /\ attempt' = attempt + 1
  /\ pc' = "start"
  /\ UNCHANGED <<observed, outcome, result, clients, folder>>

\* The provider saves the message it was given for delivery.
ProviderSaves ==
  /\ provided = 0
  /\ provided' = 1
  /\ unseen' = TRUE
  /\ UNCHANGED <<pc, attempt, observed, outcome, result, clients, own, pending, refused,
                 missed, late>>

\* The server stores an append that was given up: one that a search was too early for, or
\* the last one.
AppendLands ==
  /\ pending > 0
  /\ pending' = pending - 1
  /\ own' = own + 1
  /\ \/ missed > 0 /\ missed' = missed - 1 /\ late' = late + 1
     \/ missed < pending /\ UNCHANGED <<missed, late>>
  /\ UNCHANGED <<pc, attempt, observed, outcome, result, clients, provided, unseen, refused>>

----------------------------------------------------------------------------
Writer == Connect \/ ListFolders \/ OpenFolder \/ Search \/ CloseFolder \/ Append \/ Leave \/ Sleep

Next == Writer \/ ProviderSaves \/ AppendLands

Spec == Init /\ [][Next]_vars

\* Every await ends, at the latest with the socket's timeout or that of the timer.
FairSpec == Spec /\ WF_vars(Writer)
----------------------------------------------------------------------------
\* Properties

\* The variables of the writer and the folder.
TypeOK ==
  /\ pc \in Points /\ attempt \in 0..MaxAttempts /\ observed \in 0..Observations
  /\ outcome \in {"found", "absent", "threw"} /\ result \in Results \cup {"none"}
  /\ clients \in {0, 1} /\ own \in 0..MaxAttempts /\ provided \in {0, 1} /\ unseen \in BOOLEAN
  /\ pending \in 0..MaxAttempts /\ missed \in 0..pending /\ late \in 0..own
  /\ refused \in 0..MaxRefused

\* "Uncertain append outcomes are reconciled by Message-ID before any retry": the writer
\* stores the message once, whichever answers are lost.  Another copy takes a search that is
\* answered by `false`, which observeExisting counts as "not there", or an append that was
\* given up and is stored when a later search has already been answered without it.
AppendedOnce == own <= 1 + refused + late

\* "never appends a duplicate": a message is given to the server beside a copy of the provider
\* only if that came after the last answer to a search, of this attempt or of one that failed.
NoAppendBesideASeenCopy ==
  [][own' + pending' > own + pending /\ provided = 1 /\ refused = 0 => unseen]_vars

\* A receipt that claims a Sent copy is right, whatever failed before.
ClaimedCopyExists == result \in {"provider_saved", "imap_appended"} => Copies > 0

\* No way out of an attempt leaves a connection open.
NoClientLeftOpen == pc \in {"start", "sleeping", "returned"} => clients = 0

\* save returns, whatever fails.
SaveReturns == <>(pc = "returned")
===============================================================================
