------------------------------- MODULE SafeSend -------------------------------
(***************************************************************************)
(* The Safe Send pipeline of one user: the handlers of                     *)
(* src/services/mailSendService.ts over the SQLite tables of               *)
(* src/app/store.ts.  A handler runs without interruption up to its first  *)
(* `await`, so the synchronous prefix of sendDraft and sendEmail is one    *)
(* action; after it every await is a point where any other request, or a   *)
(* stop of the process, may come between.                                  *)
(*                                                                         *)
(* What is abstracted: a payload is a model value (the hash of a payload   *)
(* is the pair of its mailbox and that value); time is the expiry of a     *)
(* confirmation and the ageing of a rate event, each of which may happen   *)
(* at any moment; the SMTP conversation is the moment the message leaves   *)
(* the process and the answer of the server.                               *)
(***************************************************************************)
EXTENDS Naturals, FiniteSets

CONSTANTS
  Mailboxes,        \* mailbox identifiers (random, never used twice)
  Drafts,           \* draft identifiers (random, never used twice)
  DirectKeys,       \* idempotency keys chosen by callers of send_email
  Payloads,         \* contents of a message
  Callers,          \* requests that may be open at the same time
  PolicyInputs,     \* what an operator may save as the policy of a mailbox
  DefaultPolicy,    \* the policy of a mailbox that has no row of its own
  MaxVersion,       \* bound: versions of a draft that are explored
  MaxPolicyVersion, \* bound: times a policy is saved
  MaxCrashes,       \* bound: stops of the process
  None              \* no value

SendModes     == {"disabled", "draft_only", "direct_allowed"}
Finished      == {"smtp_accepted", "partial_rejected", "rejected"}
AnyAnswer     == Finished                               \* mutant of AcceptedSome
AcceptedSome  == {"smtp_accepted", "partial_rejected"}
Ages          == {"hour", "day", "old"}
Keys          == Drafts \cup DirectKeys

PolicyInput == [mode : SendModes, denied : SUBSET Payloads,
                perHour : Nat, perDay : Nat]

ASSUME KeysAreDisjoint == Drafts \cap DirectKeys = {}
ASSUME PoliciesAreWellFormed ==
         PolicyInputs \subseteq PolicyInput /\ DefaultPolicy \in PolicyInput
ASSUME BoundsAreNaturals ==
         MaxVersion \in Nat /\ MaxPolicyVersion \in Nat /\ MaxCrashes \in Nat
ASSUME NoneIsNoId == None \notin Mailboxes \cup Payloads \cup Keys \cup Finished

VARIABLES
  mailbox,          \* rows of `mailboxes`: absent, live or deleted
  sendEnabled,      \* mailbox -> its send_enabled column
  policy,           \* rows of `send_policies`
  draft,            \* rows of `mail_drafts`
  confirmation,     \* the one row of `send_confirmations` a draft may have
  operation,        \* rows of `send_operations`, each with its rate event
  receipt,          \* rows of `send_receipts`
  request,          \* the requests in flight in this process
  handed,           \* history: times a message was handed to the SMTP server
  answer,           \* history: the last answer of the SMTP server
  crashes           \* stops of the process so far

stored  == <<mailbox, sendEnabled, policy, draft, confirmation, operation, receipt>>
history == <<handed, answer>>
vars    == <<mailbox, sendEnabled, policy, draft, confirmation, operation,
             receipt, request, handed, answer, crashes>>

----------------------------------------------------------------------------
\* Rows

NoDraft        == [status |-> "none", mailbox |-> None, version |-> 0, payload |-> None]
NoConfirmation == [state |-> "none", version |-> 0, payload |-> None, policyVersion |-> 0]
NoOperation    == [state |-> "none", mailbox |-> None, payload |-> None, age |-> "old"]
NoReceipt      == [state |-> "none", mailbox |-> None, payload |-> None]
NoRequest      == [pc |-> "idle", key |-> None, mailbox |-> None,
                   result |-> None, scope |-> {}]

Draft == [status : {"none", "draft", "sent", "gone"}, mailbox : Mailboxes \cup {None},
          version : Nat, payload : Payloads \cup {None}]
Confirmation == [state : {"none", "ready", "used", "expired"}, version : Nat,
                 payload : Payloads \cup {None}, policyVersion : Nat]
Operation == [state : {"none", "submitting", "unknown"} \cup Finished,
              mailbox : Mailboxes \cup {None}, payload : Payloads \cup {None}, age : Ages]
Receipt == [state : {"none"} \cup Finished, mailbox : Mailboxes \cup {None},
            payload : Payloads \cup {None}]
Policy == [mode : SendModes, denied : SUBSET Payloads, perHour : Nat, perDay : Nat,
           version : Nat]
Request == [pc : {"idle", "open", "connecting", "submitted", "answered", "completed"},
            key : Keys \cup {None}, mailbox : Mailboxes \cup {None},
            result : Finished \cup {None}, scope : SUBSET Mailboxes]

\* A saved policy input at a given policy_version.
PolicyRow(input, version) ==
  [mode |-> input.mode, denied |-> input.denied, perHour |-> input.perHour,
   perDay |-> input.perDay, version |-> version]

Live(m)        == mailbox[m] = "live"
Editable(d)    == draft[d].status = "draft"
DraftsOf(m)    == {d \in Drafts : draft[d].mailbox = m}
HasOperation(k) == operation[k].state # "none"
HasReceipt(k)   == receipt[k].state # "none"

\* sendUsage: rate events of a mailbox whose age is in `ages`.
Usage(m, ages) ==
  Cardinality({k \in Keys : /\ HasOperation(k)
                            /\ operation[k].mailbox = m
                            /\ operation[k].age \in ages})

\* Mutant of WithinLimits: the last permitted send is counted one too late.
LimitsPassed(m) ==
  /\ Usage(m, {"hour"}) <= policy[m].perHour
  /\ Usage(m, {"hour", "day"}) <= policy[m].perDay

WithinLimits(m) ==
  /\ Usage(m, {"hour"}) < policy[m].perHour
  /\ Usage(m, {"hour", "day"}) < policy[m].perDay

\* evaluateSendPolicy finds no reason to block payload p of mailbox m.
PolicyAllows(m, p) ==
  /\ policy[m].mode # "disabled"
  /\ p \notin policy[m].denied
  /\ WithinLimits(m)

\* Mutant of ConfirmationValid: the times of the row are not looked at.
ConfirmationValidAnytime(d) ==
  /\ confirmation[d].state # "none"
  /\ confirmation[d].version = draft[d].version
  /\ confirmation[d].payload = draft[d].payload
  /\ confirmation[d].policyVersion = policy[draft[d].mailbox].version

\* The row passes every check of consumeSendConfirmation.
ConfirmationValid(d) ==
  /\ confirmation[d].state = "ready"
  /\ confirmation[d].version = draft[d].version
  /\ confirmation[d].payload = draft[d].payload
  /\ confirmation[d].policyVersion = policy[draft[d].mailbox].version

----------------------------------------------------------------------------
Init ==
  /\ mailbox      = [m \in Mailboxes |-> "absent"]
  /\ sendEnabled  = [m \in Mailboxes |-> FALSE]
  /\ policy       = [m \in Mailboxes |-> PolicyRow(DefaultPolicy, 0)]
  /\ draft        = [d \in Drafts |-> NoDraft]
  /\ confirmation = [d \in Drafts |-> NoConfirmation]
  /\ operation    = [k \in Keys |-> NoOperation]
  /\ receipt      = [k \in Keys |-> NoReceipt]
  /\ request      = [c \in Callers |-> NoRequest]
  /\ handed       = [k \in Keys |-> [m \in Mailboxes |-> 0]]
  /\ answer       = [k \in Keys |-> [m \in Mailboxes |-> None]]
  /\ crashes      = 0

----------------------------------------------------------------------------
\* Mailboxes and their policies

\* The row appears once the connection test passed (module of its own).
CreateMailbox(m, on) ==
  /\ mailbox[m] = "absent"
  /\ mailbox'     = [mailbox EXCEPT ![m] = "live"]
  /\ sendEnabled' = [sendEnabled EXCEPT ![m] = on]
  /\ UNCHANGED <<policy, draft, confirmation, operation, receipt, request, history, crashes>>

ConfigureSend(m, on) ==
  /\ Live(m)
  /\ sendEnabled' = [sendEnabled EXCEPT ![m] = on]
  /\ UNCHANGED <<mailbox, policy, draft, confirmation, operation, receipt, request,
                 history, crashes>>

\* setSendPolicy: a new version, and no confirmation of the mailbox survives.
SetSendPolicy(m, input) ==
  /\ Live(m)
  /\ policy[m].version < MaxPolicyVersion
  /\ policy' = [policy EXCEPT ![m] = PolicyRow(input, policy[m].version + 1)]
  /\ confirmation' = [d \in Drafts |-> IF d \in DraftsOf(m) THEN NoConfirmation
                                                            ELSE confirmation[d]]
  /\ UNCHANGED <<mailbox, sendEnabled, draft, operation, receipt, request, history, crashes>>

\* ON DELETE CASCADE from the rows of mailboxes M: policies, drafts with their
\* confirmations, operations with their rate events and audit.  Receipts refer to
\* the user only.
Cascade(M) ==
  /\ mailbox' = [m \in Mailboxes |-> IF m \in M THEN "deleted" ELSE mailbox[m]]
  /\ sendEnabled' = [m \in Mailboxes |-> m \notin M /\ sendEnabled[m]]
  /\ policy' = [m \in Mailboxes |-> IF m \in M THEN PolicyRow(DefaultPolicy, 0)
                                               ELSE policy[m]]
  /\ draft' = [d \in Drafts |-> IF draft[d].mailbox \in M
                                THEN [NoDraft EXCEPT !.status = "gone"] ELSE draft[d]]
  /\ confirmation' = [d \in Drafts |-> IF draft[d].mailbox \in M THEN NoConfirmation
                                                                 ELSE confirmation[d]]
  /\ operation' = [k \in Keys |-> IF operation[k].mailbox \in M THEN NoOperation
                                                                ELSE operation[k]]

DeleteMailbox(m) ==
  /\ Live(m)
  /\ Cascade({m})
  /\ UNCHANGED <<receipt, request, history, crashes>>

\* deleteAll also removes the row of the user, and with it the receipts.
DeleteAll ==
  /\ Cascade({m \in Mailboxes : Live(m)})
  /\ receipt' = [k \in Keys |-> NoReceipt]
  /\ UNCHANGED <<request, history, crashes>>

----------------------------------------------------------------------------
\* Drafts

\* Mutant of CreateDraft: the row of the mailbox is not asked for.
CreateDraftAnywhere(d, m, p) ==
  /\ mailbox[m] # "absent"
  /\ draft[d].status = "none"
  /\ draft' = [draft EXCEPT ![d] = [status |-> "draft", mailbox |-> m,
                                    version |-> 1, payload |-> p]]
  /\ UNCHANGED <<mailbox, sendEnabled, policy, confirmation, operation, receipt,
                 request, history, crashes>>

CreateDraft(d, m, p) ==
  /\ Live(m)
  /\ draft[d].status = "none"
  /\ draft' = [draft EXCEPT ![d] = [status |-> "draft", mailbox |-> m,
                                    version |-> 1, payload |-> p]]
  /\ UNCHANGED <<mailbox, sendEnabled, policy, confirmation, operation, receipt,
                 request, history, crashes>>

\* Mutant of UpdateDraft: the outstanding confirmation survives the edit.
UpdateDraftOnly(d, p) ==
  /\ Editable(d)
  /\ draft[d].version < MaxVersion
  /\ draft' = [draft EXCEPT ![d].payload = p, ![d].version = draft[d].version + 1]
  /\ UNCHANGED <<mailbox, sendEnabled, policy, confirmation, operation, receipt,
                 request, history, crashes>>

\* updateDraft, also behind add_draft_attachment and remove_draft_attachment, with
\* the current version as expected version; any other is refused.
UpdateDraft(d, p) ==
  /\ Editable(d)
  /\ draft[d].version < MaxVersion
  /\ draft' = [draft EXCEPT ![d].payload = p, ![d].version = draft[d].version + 1]
  /\ confirmation' = [confirmation EXCEPT ![d] = NoConfirmation]
  /\ UNCHANGED <<mailbox, sendEnabled, policy, operation, receipt, request, history, crashes>>

----------------------------------------------------------------------------
\* Requests.  A request reads the mailboxes once, when its scoped service is made;
\* its registry keeps that answer for as long as the request lives.

OpenScope(c) ==
  /\ request[c].pc = "idle"
  /\ request' = [request EXCEPT ![c].pc = "open",
                                ![c].scope = {m \in Mailboxes : Live(m) /\ sendEnabled[m]}]
  /\ UNCHANGED <<stored, history, crashes>>

CloseScope(c) ==
  /\ request[c].pc = "open"
  /\ request' = [request EXCEPT ![c] = NoRequest]
  /\ UNCHANGED <<stored, history, crashes>>

\* prepareDraftSend: validate, then replace the confirmation of the draft.
PrepareDraftSend(c, d) ==
  LET m == draft[d].mailbox IN
  /\ request[c].pc = "open"
  /\ Editable(d)
  /\ m \in request[c].scope
  /\ PolicyAllows(m, draft[d].payload)
  /\ confirmation' = [confirmation EXCEPT
       ![d] = [state |-> "ready", version |-> draft[d].version,
               payload |-> draft[d].payload, policyVersion |-> policy[m].version]]
  /\ UNCHANGED <<mailbox, sendEnabled, policy, draft, operation, receipt, request,
                 history, crashes>>

\* A receipt of the key would be replayed instead of sending again.
AnsweredNever(k) == TRUE                                 \* mutant of Unanswered
Unanswered(k)    == ~HasReceipt(k)

\* Mutant of Reserve: a row that is already there is taken over.
ReserveAgain(c, k, m, p) ==
  /\ WithinLimits(m)
  /\ operation' = [operation EXCEPT ![k] = [state |-> "submitting", mailbox |-> m,
                                            payload |-> p, age |-> "hour"]]
  /\ request' = [request EXCEPT ![c].pc = "connecting", ![c].key = k, ![c].mailbox = m]

\* reserveSendOperation inserts the operation and its rate event.
Reserve(c, k, m, p) ==
  /\ ~HasOperation(k)
  /\ WithinLimits(m)
  /\ operation' = [operation EXCEPT ![k] = [state |-> "submitting", mailbox |-> m,
                                            payload |-> p, age |-> "hour"]]
  /\ request' = [request EXCEPT ![c].pc = "connecting", ![c].key = k, ![c].mailbox = m]

\* What sendDraft checks before it consumes the confirmation.  With a receipt it
\* replays that receipt or refuses changed content, and changes nothing.
SendDraftAdmitted(c, d) ==
  /\ request[c].pc = "open"
  /\ Editable(d)
  /\ Unanswered(d)
  /\ draft[d].mailbox \in request[c].scope
  /\ PolicyAllows(draft[d].mailbox, draft[d].payload)
  /\ ConfirmationValid(d)

SendDraft(c, d) ==
  /\ SendDraftAdmitted(c, d)
  /\ confirmation' = [confirmation EXCEPT ![d].state = "used"]
  /\ Reserve(c, d, draft[d].mailbox, draft[d].payload)
  /\ UNCHANGED <<mailbox, sendEnabled, policy, draft, receipt, history, crashes>>

\* The confirmation is spent in a transaction of its own: it stays spent when the
\* reservation finds the draft already submitting or its outcome unknown.
SendDraftRefused(c, d) ==
  /\ SendDraftAdmitted(c, d)
  /\ HasOperation(d)
  /\ confirmation' = [confirmation EXCEPT ![d].state = "used"]
  /\ UNCHANGED <<mailbox, sendEnabled, policy, draft, operation, receipt, request,
                 history, crashes>>

\* sendEmail and replyEmail.
SendDirect(c, k, m, p) ==
  /\ request[c].pc = "open"
  /\ Unanswered(k)
  /\ m \in request[c].scope
  /\ Live(m)
  /\ policy[m].mode = "direct_allowed"
  /\ PolicyAllows(m, p)
  /\ Reserve(c, k, m, p)
  /\ UNCHANGED <<mailbox, sendEnabled, policy, draft, confirmation, receipt, history, crashes>>

----------------------------------------------------------------------------
\* Delivery: #deliver and what follows it in #sendOnce and sendDraft

\* Mutant of HandOver: the request may hand the message over again.
HandOverAndRetry(c) ==
  LET k == request[c].key   m == request[c].mailbox IN
  /\ request[c].pc = "connecting"
  /\ \/ request' = [request EXCEPT ![c].pc = "submitted"]
     \/ UNCHANGED request
  /\ handed'  = [handed EXCEPT ![k][m] = handed[k][m] + 1]
  /\ UNCHANGED <<stored, answer, crashes>>

\* Credentials, the endpoint and the MIME bytes are ready: sendMail starts.
HandOver(c) ==
  LET k == request[c].key   m == request[c].mailbox IN
  /\ request[c].pc = "connecting"
  /\ request' = [request EXCEPT ![c].pc = "submitted"]
  /\ handed'  = [handed EXCEPT ![k][m] = handed[k][m] + 1]
  /\ UNCHANGED <<stored, answer, crashes>>

\* sendMail resolves; the Sent copy is taken care of before the receipt is returned.
SmtpAnswers(c, r) ==
  LET k == request[c].key   m == request[c].mailbox IN
  /\ request[c].pc = "submitted"
  /\ request' = [request EXCEPT ![c].pc = "answered", ![c].result = r]
  /\ answer'  = [answer EXCEPT ![k][m] = r]
  /\ UNCHANGED <<stored, handed, crashes>>

\* Back to the caller with an error or a receipt; the scope stays.
Returned(c) == [request[c] EXCEPT !.pc = "open", !.key = None, !.mailbox = None,
                                  !.result = None]

\* Mutants of MarkUnknown: the error code lands in the state; the write is lost.
MarkWithCode(k) ==
  operation' = IF operation[k].state = "submitting"
               THEN [operation EXCEPT ![k].state = "SMTP_SEND_FAILED"] ELSE operation
MarkNothing(k) == operation' = operation

\* markSendOperationUnknown: only a row that is still submitting changes.
MarkUnknown(k) ==
  operation' = IF operation[k].state = "submitting"
               THEN [operation EXCEPT ![k].state = "unknown"] ELSE operation

\* #deliver throws: before anything left the process, or after.
DeliveryFails(c) ==
  /\ request[c].pc \in {"connecting", "submitted"}
  /\ MarkUnknown(request[c].key)
  /\ request' = [request EXCEPT ![c] = Returned(c)]
  /\ UNCHANGED <<mailbox, sendEnabled, policy, draft, confirmation, receipt, history, crashes>>

\* Mutant of CanComplete: the audit row refers to no mailbox.
CanCompleteUnaudited(c) == operation[request[c].key].state = "submitting"

\* completeSendOperation can commit: the row is active, and the audit row it writes
\* names the mailbox of the receipt, which must still exist.
CanComplete(c) ==
  /\ operation[request[c].key].state = "submitting"
  /\ Live(request[c].mailbox)

CompleteSend(c) ==
  LET k == request[c].key   r == request[c].result IN
  /\ request[c].pc = "answered"
  /\ CanComplete(c)
  /\ operation' = [operation EXCEPT ![k].state = r]
  /\ receipt' = [receipt EXCEPT ![k] = [state |-> r, mailbox |-> request[c].mailbox,
                                        payload |-> operation[k].payload]]
  /\ request' = [request EXCEPT
       ![c] = IF k \in Drafts /\ r \in AcceptedSome
              THEN [request[c] EXCEPT !.pc = "completed"] ELSE Returned(c)]
  /\ UNCHANGED <<mailbox, sendEnabled, policy, draft, confirmation, history, crashes>>

\* completeSendOperation throws and the catch block runs.
CompleteFails(c) ==
  /\ request[c].pc = "answered"
  /\ ~CanComplete(c)
  /\ MarkUnknown(request[c].key)
  /\ request' = [request EXCEPT ![c] = Returned(c)]
  /\ UNCHANGED <<mailbox, sendEnabled, policy, draft, confirmation, receipt, history, crashes>>

\* markDraftSent asks for neither the version nor the content that was sent; a draft
\* that is gone makes it throw, one that is sent already stays as it is.
TakesSentMark(d) == Editable(d)

MarkDraftSent(c) ==
  LET d == request[c].key IN
  /\ request[c].pc = "completed"
  /\ draft' = IF TakesSentMark(d)
              THEN [draft EXCEPT ![d].status = "sent", ![d].version = draft[d].version + 1]
              ELSE draft
  /\ request' = [request EXCEPT ![c] = Returned(c)]
  /\ UNCHANGED <<mailbox, sendEnabled, policy, confirmation, operation, receipt,
                 history, crashes>>

----------------------------------------------------------------------------
\* Time and failure

ConfirmationExpires(d) ==
  /\ confirmation[d].state = "ready"
  /\ confirmation' = [confirmation EXCEPT ![d].state = "expired"]
  /\ UNCHANGED <<mailbox, sendEnabled, policy, draft, operation, receipt, request,
                 history, crashes>>

RateEventAges(k) ==
  /\ HasOperation(k)
  /\ operation[k].age \in {"hour", "day"}
  /\ operation' = [operation EXCEPT ![k].age = IF @ = "hour" THEN "day" ELSE "old"]
  /\ UNCHANGED <<mailbox, sendEnabled, policy, draft, confirmation, receipt, request,
                 history, crashes>>

\* The process stops, in order or not, and starts again: the tables remain, the
\* requests are lost, and nothing looks at the rows they left behind.
Crash ==
  /\ crashes < MaxCrashes
  /\ crashes' = crashes + 1
  /\ request' = [c \in Callers |-> NoRequest]
  /\ UNCHANGED <<stored, history>>

----------------------------------------------------------------------------
Settings ==
  \/ \E m \in Mailboxes, on \in BOOLEAN : CreateMailbox(m, on) \/ ConfigureSend(m, on)
  \/ \E m \in Mailboxes, input \in PolicyInputs : SetSendPolicy(m, input)
  \/ \E m \in Mailboxes : DeleteMailbox(m)
  \/ DeleteAll

Editing ==
  \/ \E d \in Drafts, m \in Mailboxes, p \in Payloads : CreateDraft(d, m, p)
  \/ \E d \in Drafts, p \in Payloads : UpdateDraft(d, p)

Calling(c) ==
  \/ OpenScope(c)
  \/ CloseScope(c)
  \/ \E d \in Drafts : PrepareDraftSend(c, d) \/ SendDraft(c, d) \/ SendDraftRefused(c, d)
  \/ \E k \in DirectKeys, m \in Mailboxes, p \in Payloads : SendDirect(c, k, m, p)

Delivering(c) ==
  \/ HandOver(c)
  \/ \E r \in Finished : SmtpAnswers(c, r)
  \/ DeliveryFails(c)
  \/ CompleteSend(c)
  \/ CompleteFails(c)
  \/ MarkDraftSent(c)

Passing ==
  \/ \E d \in Drafts : ConfirmationExpires(d)
  \/ \E k \in Keys : RateEventAges(k)

Next ==
  \/ Settings
  \/ Editing
  \/ \E c \in Callers : Calling(c) \/ Delivering(c)
  \/ Passing
  \/ Crash

Spec == Init /\ [][Next]_vars

\* Every socket of the SMTP and IMAP clients has a timeout and the event loop runs
\* each continuation, so a delivery that has begun goes on to its end.
FairSpec == Spec /\ \A c \in Callers : WF_vars(Delivering(c))
----------------------------------------------------------------------------
\* Properties

\* The tables and the requests have the shape the schema gives them.
TypeOK ==
  /\ mailbox \in [Mailboxes -> {"absent", "live", "deleted"}]
  /\ sendEnabled \in [Mailboxes -> BOOLEAN]
  /\ policy \in [Mailboxes -> Policy]
  /\ draft \in [Drafts -> Draft]
  /\ confirmation \in [Drafts -> Confirmation]
  /\ operation \in [Keys -> Operation]
  /\ receipt \in [Keys -> Receipt]
  /\ request \in [Callers -> Request]
  /\ handed \in [Keys -> [Mailboxes -> Nat]]
  /\ answer \in [Keys -> [Mailboxes -> Finished \cup {None}]]
  /\ crashes \in 0..MaxCrashes

\* However requests overlap, fail, are retried or are cut off by a stop of the
\* process, one idempotency key hands at most one message of a mailbox to the SMTP
\* server: the reservation outlives the request that made it.
AtMostOnce ==
  \A k \in Keys, m \in Mailboxes : handed[k][m] <= 1

\* Whatever else was edited or saved meanwhile by other clients, a confirmation that
\* can still be spent on an unsent draft is one for the draft and the policy as they
\* are now (edits and policy changes invalidate it, wherever they come from).
ConfirmationsAreCurrent ==
  \A d \in Drafts :
    Editable(d) /\ confirmation[d].state = "ready" => ConfirmationValid(d)

\* An operation that is recorded as finished carries the answer the server gave to
\* the submission of that very mailbox, even when the key was freed by the deletion
\* of a mailbox and taken again while the first answer was still on its way.
OutcomeIsServersAnswer ==
  \A k \in Keys : operation[k].state \in Finished =>
    answer[k][operation[k].mailbox] = operation[k].state

\* Operations and receipts tell one story: the replay of a send finds a receipt
\* exactly when the operation is finished, for the same content and result.
ReceiptsMatchOperations ==
  \A k \in Keys : HasOperation(k) =>
    IF operation[k].state \in Finished
    THEN receipt[k] = [state |-> operation[k].state, mailbox |-> operation[k].mailbox,
                       payload |-> operation[k].payload]
    ELSE ~HasReceipt(k)

\* Nothing that is still stored about sending belongs to a deleted mailbox, although
\* requests that opened before the deletion go on with their old registry.
NothingOutlivesItsMailbox ==
  /\ \A d \in Drafts : draft[d].status \in {"draft", "sent"} => Live(draft[d].mailbox)
  /\ \A k \in Keys : HasOperation(k) => Live(operation[k].mailbox)

\* A draft shown as sent has a receipt in which somebody was accepted.
SentDraftsWereAccepted ==
  \A d \in Drafts : draft[d].status = "sent" =>
    receipt[d].state \in {"smtp_accepted", "partial_rejected"}

\* A settled operation, `unknown` included, is never reopened nor settled again: it
\* only disappears together with its mailbox.
SettledStaysSettled ==
  [][\A k \in Keys : operation[k].state \in Finished \cup {"unknown"} =>
       \/ operation'[k].state = operation[k].state
       \/ operation'[k] = NoOperation /\ mailbox'[operation[k].mailbox] = "deleted"]_vars

\* A draft is reserved for submission only by spending a confirmation that was made
\* for its present content under the present policy, and that content is submitted.
SubmissionsSpendAConfirmation ==
  [][\A d \in Drafts : ~HasOperation(d) /\ HasOperation(d)' =>
       /\ confirmation[d].state = "ready"
       /\ confirmation'[d].state = "used"
       /\ operation'[d].payload = confirmation[d].payload
       /\ draft[d].version = confirmation[d].version
       /\ policy[draft[d].mailbox].version = confirmation[d].policyVersion]_vars

\* No reservation takes a mailbox over the limits of the policy then in force,
\* counting the submissions whose outcome is unknown or was never learnt.
RateLimitsHold ==
  [][\A m \in Mailboxes : Usage(m, {"hour"})' > Usage(m, {"hour"}) =>
       /\ Usage(m, {"hour"})' <= policy[m].perHour
       /\ Usage(m, {"hour", "day"})' <= policy[m].perDay]_vars

\* Each submission promised by the ledger, and nothing else.
Ledger == INSTANCE SubmissionLedger WITH
  Owners   <- Mailboxes,
  Outcomes <- Finished \cup {"unknown"},
  Nobody   <- None,
  entry    <- [k \in Keys |-> [state |-> operation[k].state, owner |-> operation[k].mailbox]],
  tickets  <- {<<request[c].key, request[c].mailbox>> :
                 c \in {c \in Callers : request[c].pc = "connecting"}},
  retired  <- {m \in Mailboxes : mailbox[m] = "deleted"},
  handed   <- handed

\* The pipeline implements the ledger of submissions.
ImplementsLedger == Ledger!Spec

\* A submission does not stay open: the operation is settled, or its mailbox goes; and a
\* draft of which somebody was accepted is shown as sent in the end, whatever was edited
\* while the answer was on its way.
SubmissionsSettle ==
  /\ \A k \in Keys : operation[k].state = "submitting" ~> operation[k].state # "submitting"
  /\ \A d \in Drafts : operation[d].state \in {"smtp_accepted", "partial_rejected"}
                        ~> draft[d].status \in {"sent", "gone"}

\* "A sent draft cannot be edited" (store.ts): a sent draft shows what was sent.
SentDraftIsWhatWasSent ==
  \A d \in Drafts : draft[d].status = "sent" => draft[d].payload = receipt[d].payload
===============================================================================
