---------------------------- MODULE SafeSendProofs ----------------------------
(***************************************************************************)
(* Theorems about SafeSend for every number of mailboxes, drafts, keys and *)
(* callers.  Each safety property follows from one inductive invariant,    *)
(* `Inv`, whose parts say what a request that is under way may rely on.    *)
(***************************************************************************)
EXTENDS SafeSend, FiniteSetTheorems, TLAPS

\* A request that delivers knows its key and its mailbox, and an answered one its result.
RequestsAreComplete ==
  \A c \in Callers :
    /\ request[c].pc \in {"connecting", "submitted", "answered", "completed"} =>
         request[c].key \in Keys /\ request[c].mailbox \in Mailboxes
    /\ request[c].pc = "answered" => request[c].result \in Finished

Typed == TypeOK /\ RequestsAreComplete

\* Stored rows refer to a mailbox that exists; an empty row of an operation to none.
RowsRefer ==
  /\ \A d \in Drafts : draft[d].status \in {"draft", "sent"} =>
       draft[d].mailbox \in Mailboxes /\ mailbox[draft[d].mailbox] = "live"
  /\ \A k \in Keys :
       IF operation[k].state = "none"
       THEN operation[k].mailbox = None
       ELSE operation[k].mailbox \in Mailboxes /\ mailbox[operation[k].mailbox] = "live"

\* Request c delivers the message that key k stands for, as mailbox m.
Delivers(c, k, m) ==
  /\ request[c].pc \in {"connecting", "submitted", "answered"}
  /\ request[c].key = k
  /\ request[c].mailbox = m

\* While the mailbox exists, the row stays that of the one request that delivers;
\* a request of a deleted mailbox with the same key may already have marked it unknown.
RequestsOwnRows ==
  \A c \in Callers, k \in Keys, m \in Mailboxes : Delivers(c, k, m) =>
    /\ \/ mailbox[m] = "deleted"
       \/ operation[k].state \in {"submitting", "unknown"} /\ operation[k].mailbox = m
    /\ \A b \in Callers : Delivers(b, k, m) => b = c
    /\ request[c].pc = "connecting" => handed[k][m] = 0
    /\ request[c].pc = "answered" => answer[k][m] = request[c].result

\* What was handed over keeps its row as long as its mailbox exists.
HandedIsRecorded ==
  \A k \in Keys, m \in Mailboxes : handed[k][m] # 0 =>
    /\ handed[k][m] = 1
    /\ mailbox[m] = "deleted" \/ operation[k].mailbox = m

\* A confirmation that can be spent belongs to a draft and fits an unsent one.
ConfirmationsFit ==
  \A d \in Drafts : confirmation[d].state = "ready" =>
    /\ draft[d].status \in {"draft", "sent"}
    /\ draft[d].status = "draft" => ConfirmationValid(d)

\* A request for a draft finds the row of the draft, perhaps a deleted one, and the
\* receipt it is about to act on.
DraftsOfRequests ==
  \A c \in Callers, d \in Drafts : request[c].key = d =>
    /\ request[c].pc \in {"connecting", "submitted", "answered", "completed"} =>
         draft[d].status # "none"
    /\ request[c].pc = "completed" /\ draft[d].status \in {"draft", "sent"} =>
         receipt[d].state \in AcceptedSome

Inv ==
  /\ Typed
  /\ RowsRefer
  /\ RequestsOwnRows
  /\ HandedIsRecorded
  /\ ConfirmationsFit
  /\ DraftsOfRequests
  /\ OutcomeIsServersAnswer
  /\ ReceiptsMatchOperations
  /\ SentDraftsWereAccepted

LEMMA NoneApart == /\ None \notin Mailboxes
                   /\ None \notin Keys
                   /\ None \notin Finished
BY NoneIsNoId

LEMMA PolicyRowTyped ==
  ASSUME NEW input \in PolicyInput, NEW v \in Nat
  PROVE  PolicyRow(input, v) \in Policy
BY DEF PolicyRow, PolicyInput, Policy

LEMMA RowsTyped ==
  /\ NoDraft \in Draft
  /\ [NoDraft EXCEPT !.status = "gone"] \in Draft
  /\ NoConfirmation \in Confirmation
  /\ NoOperation \in Operation
  /\ NoReceipt \in Receipt
  /\ NoRequest \in Request
BY DEF NoDraft, Draft, NoConfirmation, Confirmation, NoOperation, Operation, Ages,
       NoReceipt, Receipt, NoRequest, Request

LEMMA EditedRowTyped ==
  ASSUME NEW row \in Draft, NEW p \in Payloads
  PROVE  [row EXCEPT !.payload = p, !.version = row.version + 1] \in Draft
<1>1. row.version \in Nat
  BY DEF Draft
<1>2. PICK v \in Nat : v = row.version + 1
  BY <1>1
<1>3. [row EXCEPT !.payload = p, !.version = v] \in Draft
  BY DEF Draft
<1> QED BY <1>2, <1>3

LEMMA SentRowTyped ==
  ASSUME NEW row \in Draft
  PROVE  [row EXCEPT !.status = "sent", !.version = row.version + 1] \in Draft
<1>1. row.version \in Nat
  BY DEF Draft
<1>2. PICK v \in Nat : v = row.version + 1
  BY <1>1
<1>3. [row EXCEPT !.status = "sent", !.version = v] \in Draft
  BY DEF Draft
<1> QED BY <1>2, <1>3

LEMMA InitTyped == Init => Typed
<1> SUFFICES ASSUME Init PROVE Typed
  OBVIOUS
<1>1. policy \in [Mailboxes -> Policy]
  BY PolicyRowTyped, PoliciesAreWellFormed DEF Init
<1>2. crashes \in 0..MaxCrashes
  BY BoundsAreNaturals DEF Init
<1>3. TypeOK
  BY <1>1, <1>2, RowsTyped DEF Init, TypeOK
<1>4. RequestsAreComplete
  BY DEF Init, RequestsAreComplete, NoRequest
<1> QED BY <1>3, <1>4 DEF Typed

\* Reserve, as both kinds of send use it.
LEMMA ReserveTyped ==
  ASSUME Typed, NEW c \in Callers, NEW k \in Keys, NEW m \in Mailboxes, NEW p \in Payloads \cup {None},
         Reserve(c, k, m, p)
  PROVE  /\ operation' \in [Keys -> Operation]
         /\ request' \in [Callers -> Request]
         /\ RequestsAreComplete'
<1>1. [state |-> "submitting", mailbox |-> m, payload |-> p, age |-> "hour"] \in Operation
  BY DEF Operation, Ages
<1>2. operation' \in [Keys -> Operation]
  BY <1>1 DEF Typed, TypeOK, Reserve
<1>3. request[c] \in Request
  BY DEF Typed, TypeOK
<1>4. [request[c] EXCEPT !.pc = "connecting", !.key = k, !.mailbox = m] \in Request
  BY <1>3 DEF Request
<1>5. request' = [request EXCEPT ![c] = [request[c] EXCEPT !.pc = "connecting", !.key = k,
                                                           !.mailbox = m]]
  BY DEF Typed, TypeOK, Reserve
<1>6. request' \in [Callers -> Request]
  BY <1>4, <1>5 DEF Typed, TypeOK
<1>7. RequestsAreComplete'
  BY <1>3, <1>5 DEF Typed, TypeOK, RequestsAreComplete, Request
<1> QED BY <1>2, <1>6, <1>7

LEMMA ReturnedTyped ==
  ASSUME Typed, NEW c \in Callers
  PROVE  /\ Returned(c) \in Request
         /\ Returned(c).pc = "open"
BY DEF Typed, TypeOK, Returned, Request

LEMMA MarkUnknownTyped ==
  ASSUME Typed, NEW k \in Keys, MarkUnknown(k)
  PROVE  operation' \in [Keys -> Operation]
<1>1. operation[k] \in Operation
  BY DEF Typed, TypeOK
<1>2. [operation[k] EXCEPT !.state = "unknown"] \in Operation
  BY <1>1 DEF Operation
<1> QED BY <1>2 DEF Typed, TypeOK, MarkUnknown

LEMMA CascadeTyped ==
  ASSUME Typed, NEW M \in SUBSET Mailboxes, Cascade(M)
  PROVE  /\ mailbox' \in [Mailboxes -> {"absent", "live", "deleted"}]
         /\ sendEnabled' \in [Mailboxes -> BOOLEAN]
         /\ policy' \in [Mailboxes -> Policy]
         /\ draft' \in [Drafts -> Draft]
         /\ confirmation' \in [Drafts -> Confirmation]
         /\ operation' \in [Keys -> Operation]
<1>1. /\ mailbox' \in [Mailboxes -> {"absent", "live", "deleted"}]
      /\ sendEnabled' \in [Mailboxes -> BOOLEAN]
  BY DEF Typed, TypeOK, Cascade
<1>2. policy' \in [Mailboxes -> Policy]
  BY PolicyRowTyped, PoliciesAreWellFormed DEF Typed, TypeOK, Cascade
<1>3. /\ draft' \in [Drafts -> Draft]
      /\ confirmation' \in [Drafts -> Confirmation]
      /\ operation' \in [Keys -> Operation]
  BY RowsTyped DEF Typed, TypeOK, Cascade
<1> QED BY <1>1, <1>2, <1>3

LEMMA NextTyped == Typed /\ [Next]_vars => Typed'
<1> SUFFICES ASSUME Typed, [Next]_vars PROVE Typed'
  OBVIOUS
<1>1. CASE Settings
  <2>1. ASSUME NEW m \in Mailboxes, NEW on \in BOOLEAN, CreateMailbox(m, on) PROVE Typed'
    BY <2>1 DEF Typed, TypeOK, RequestsAreComplete, CreateMailbox, history
  <2>2. ASSUME NEW m \in Mailboxes, NEW on \in BOOLEAN, ConfigureSend(m, on) PROVE Typed'
    BY <2>2 DEF Typed, TypeOK, RequestsAreComplete, ConfigureSend, history
  <2>3. ASSUME NEW m \in Mailboxes, NEW input \in PolicyInputs, SetSendPolicy(m, input)
        PROVE  Typed'
    <3>1. policy[m].version + 1 \in Nat
      BY DEF Typed, TypeOK, Policy
    <3>2. policy' \in [Mailboxes -> Policy]
      BY <2>3, <3>1, PolicyRowTyped, PoliciesAreWellFormed DEF Typed, TypeOK, SetSendPolicy
    <3>3. confirmation' \in [Drafts -> Confirmation]
      BY <2>3, RowsTyped DEF Typed, TypeOK, SetSendPolicy
    <3> QED BY <2>3, <3>2, <3>3
            DEF Typed, TypeOK, RequestsAreComplete, SetSendPolicy, history
  <2>4. ASSUME NEW m \in Mailboxes, DeleteMailbox(m) PROVE Typed'
    BY <2>4, CascadeTyped DEF Typed, TypeOK, RequestsAreComplete, DeleteMailbox, history
  <2>5. ASSUME DeleteAll PROVE Typed'
    <3>1. PICK M \in SUBSET Mailboxes : Cascade(M)
      BY <2>5 DEF DeleteAll
    <3> QED BY <2>5, <3>1, CascadeTyped, RowsTyped
            DEF Typed, TypeOK, RequestsAreComplete, DeleteAll, history
  <2> QED BY <1>1, <2>1, <2>2, <2>3, <2>4, <2>5 DEF Settings
<1>2. CASE Editing
  <2>1. ASSUME NEW d \in Drafts, NEW m \in Mailboxes, NEW p \in Payloads, CreateDraft(d, m, p)
        PROVE  Typed'
    BY <2>1 DEF Typed, TypeOK, RequestsAreComplete, CreateDraft, Draft, history
  <2>2. ASSUME NEW d \in Drafts, NEW p \in Payloads, UpdateDraft(d, p) PROVE Typed'
    <3>1. draft' \in [Drafts -> Draft]
      <4>1. draft[d] \in Draft
        BY DEF Typed, TypeOK
      <4>2. [draft[d] EXCEPT !.payload = p, !.version = draft[d].version + 1] \in Draft
        BY <4>1, EditedRowTyped
      <4> QED BY <2>2, <4>2 DEF Typed, TypeOK, UpdateDraft
    <3> QED BY <2>2, <3>1, RowsTyped
            DEF Typed, TypeOK, RequestsAreComplete, UpdateDraft, history
  <2> QED BY <1>2, <2>1, <2>2 DEF Editing
<1>3. ASSUME NEW c \in Callers, Calling(c) PROVE Typed'
  <2>1. CASE OpenScope(c)
    <3> DEFINE S == {m \in Mailboxes : Live(m) /\ sendEnabled[m]}
    <3>1. request[c] \in Request
      BY DEF Typed, TypeOK
    <3>2. [request[c] EXCEPT !.pc = "open", !.scope = S] \in Request
      BY <3>1 DEF Request
    <3>3. request' = [request EXCEPT ![c] = [request[c] EXCEPT !.pc = "open", !.scope = S]]
      BY <2>1 DEF Typed, TypeOK, OpenScope
    <3>4. request' \in [Callers -> Request]
      BY <3>2, <3>3 DEF Typed, TypeOK
    <3> HIDE DEF S
    <3>5. RequestsAreComplete'
      BY <3>1, <3>3 DEF Typed, TypeOK, RequestsAreComplete, Request
    <3> QED BY <2>1, <3>4, <3>5 DEF Typed, TypeOK, OpenScope, stored, history
  <2>2. CASE CloseScope(c)
    BY <2>2, RowsTyped
    DEF Typed, TypeOK, RequestsAreComplete, CloseScope, NoRequest, stored, history
  <2>3. ASSUME NEW d \in Drafts, PrepareDraftSend(c, d) PROVE Typed'
    <3>1. draft[d].mailbox \in Mailboxes
      BY <2>3 DEF Typed, TypeOK, PrepareDraftSend, Request
    <3>2. confirmation' \in [Drafts -> Confirmation]
      BY <2>3, <3>1 DEF Typed, TypeOK, PrepareDraftSend, Draft, Policy, Confirmation
    <3> QED BY <2>3, <3>2 DEF Typed, TypeOK, RequestsAreComplete, PrepareDraftSend, history
  <2>4. ASSUME NEW d \in Drafts, SendDraft(c, d) PROVE Typed'
    <3>1. draft[d].mailbox \in Mailboxes /\ draft[d].payload \in Payloads \cup {None} /\ d \in Keys
      BY <2>4 DEF Typed, TypeOK, SendDraft, SendDraftAdmitted, Request, Draft, Keys
    <3>2. confirmation' \in [Drafts -> Confirmation]
      BY <2>4 DEF Typed, TypeOK, SendDraft, Confirmation
    <3>3. Reserve(c, d, draft[d].mailbox, draft[d].payload)
      BY <2>4 DEF SendDraft
    <3> QED BY <2>4, <3>1, <3>2, <3>3, ReserveTyped DEF Typed, TypeOK, SendDraft, history
  <2>5. ASSUME NEW d \in Drafts, SendDraftRefused(c, d) PROVE Typed'
    <3>1. confirmation' \in [Drafts -> Confirmation]
      BY <2>5 DEF Typed, TypeOK, SendDraftRefused, Confirmation
    <3> QED BY <2>5, <3>1 DEF Typed, TypeOK, RequestsAreComplete, SendDraftRefused, history
  <2>6. ASSUME NEW k \in DirectKeys, NEW m \in Mailboxes, NEW p \in Payloads,
               SendDirect(c, k, m, p)
        PROVE  Typed'
    <3>1. k \in Keys /\ Reserve(c, k, m, p)
      BY <2>6 DEF SendDirect, Keys
    <3> QED BY <2>6, <3>1, ReserveTyped DEF Typed, TypeOK, SendDirect, history
  <2> QED BY <1>3, <2>1, <2>2, <2>3, <2>4, <2>5, <2>6 DEF Calling
<1>4. ASSUME NEW c \in Callers, Delivering(c) PROVE Typed'
  <2>1. CASE HandOver(c)
    <3>1. request' \in [Callers -> Request] /\ RequestsAreComplete'
      <4>1. request[c] \in Request
        BY DEF Typed, TypeOK
      <4>2. [request[c] EXCEPT !.pc = "submitted"] \in Request
        BY <4>1 DEF Request
      <4>3. request' = [request EXCEPT ![c] = [request[c] EXCEPT !.pc = "submitted"]]
        BY <2>1 DEF Typed, TypeOK, HandOver
      <4>4. request[c].pc \in {"connecting", "submitted"}
        BY <2>1 DEF HandOver
      <4> QED BY <4>1, <4>2, <4>3, <4>4 DEF Typed, TypeOK, RequestsAreComplete, Request
    <3>2. handed' \in [Keys -> [Mailboxes -> Nat]]
      BY <2>1 DEF Typed, TypeOK, RequestsAreComplete, HandOver
    <3> QED BY <2>1, <3>1, <3>2 DEF Typed, TypeOK, HandOver, stored
  <2>2. ASSUME NEW r \in Finished, SmtpAnswers(c, r) PROVE Typed'
    <3>1. request' \in [Callers -> Request] /\ RequestsAreComplete'
      <4>1. request[c] \in Request
        BY DEF Typed, TypeOK
      <4>2. [request[c] EXCEPT !.pc = "answered", !.result = r] \in Request
        BY <4>1 DEF Request
      <4>3. request' = [request EXCEPT ![c] = [request[c] EXCEPT !.pc = "answered", !.result = r]]
        BY <2>2 DEF Typed, TypeOK, SmtpAnswers
      <4>4. request[c].pc \in {"connecting", "submitted"}
        BY <2>2 DEF SmtpAnswers
      <4> QED BY <4>1, <4>2, <4>3, <4>4 DEF Typed, TypeOK, RequestsAreComplete, Request
    <3>2. answer' \in [Keys -> [Mailboxes -> Finished \cup {None}]]
      BY <2>2 DEF Typed, TypeOK, RequestsAreComplete, SmtpAnswers
    <3> QED BY <2>2, <3>1, <3>2 DEF Typed, TypeOK, SmtpAnswers, stored
  <2>3. CASE DeliveryFails(c)
    <3>1. request' \in [Callers -> Request] /\ RequestsAreComplete'
      BY <2>3, ReturnedTyped DEF Typed, TypeOK, RequestsAreComplete, DeliveryFails
    <3>2. operation' \in [Keys -> Operation]
      BY <2>3, MarkUnknownTyped DEF Typed, RequestsAreComplete, DeliveryFails
    <3> QED BY <2>3, <3>1, <3>2 DEF Typed, TypeOK, DeliveryFails, history
  <2>4. CASE CompleteSend(c)
    <3>1. /\ request[c].key \in Keys
          /\ request[c].mailbox \in Mailboxes
          /\ request[c].result \in Finished
      BY <2>4 DEF Typed, RequestsAreComplete, CompleteSend
    <3>2. request' \in [Callers -> Request] /\ RequestsAreComplete'
      <4>1. request[c] \in Request
        BY DEF Typed, TypeOK
      <4>2. [request[c] EXCEPT !.pc = "completed"] \in Request
        BY <4>1 DEF Request
      <4>3. CASE request' = [request EXCEPT ![c] = [request[c] EXCEPT !.pc = "completed"]]
        BY <3>1, <4>1, <4>2, <4>3 DEF Typed, TypeOK, RequestsAreComplete, Request
      <4>4. CASE request' = [request EXCEPT ![c] = Returned(c)]
        BY <4>4, ReturnedTyped DEF Typed, TypeOK, RequestsAreComplete
      <4> QED BY <2>4, <4>3, <4>4 DEF CompleteSend
    <3>3. operation' \in [Keys -> Operation]
      BY <2>4, <3>1 DEF Typed, TypeOK, CompleteSend, Operation
    <3>4. receipt' \in [Keys -> Receipt]
      BY <2>4, <3>1 DEF Typed, TypeOK, CompleteSend, Operation, Receipt
    <3> QED BY <2>4, <3>2, <3>3, <3>4 DEF Typed, TypeOK, CompleteSend, history
  <2>5. CASE CompleteFails(c)
    <3>1. request' \in [Callers -> Request] /\ RequestsAreComplete'
      BY <2>5, ReturnedTyped DEF Typed, TypeOK, RequestsAreComplete, CompleteFails
    <3>2. operation' \in [Keys -> Operation]
      BY <2>5, MarkUnknownTyped DEF Typed, RequestsAreComplete, CompleteFails
    <3> QED BY <2>5, <3>1, <3>2 DEF Typed, TypeOK, CompleteFails, history
  <2>6. CASE MarkDraftSent(c)
    <3>1. request' \in [Callers -> Request] /\ RequestsAreComplete'
      BY <2>6, ReturnedTyped DEF Typed, TypeOK, RequestsAreComplete, MarkDraftSent
    <3>2. draft' \in [Drafts -> Draft]
      <4> DEFINE d == request[c].key
      <4>1. CASE d \in Drafts
        <5>1. draft[d] \in Draft
          BY <4>1 DEF Typed, TypeOK
        <5>2. [draft[d] EXCEPT !.status = "sent", !.version = draft[d].version + 1] \in Draft
          BY <5>1, SentRowTyped
        <5> QED BY <2>6, <4>1, <5>2 DEF Typed, TypeOK, MarkDraftSent
      <4>2. CASE d \notin Drafts
        BY <2>6, <4>2 DEF Typed, TypeOK, MarkDraftSent
      <4> QED BY <4>1, <4>2
    <3> QED BY <2>6, <3>1, <3>2 DEF Typed, TypeOK, MarkDraftSent, history
  <2> QED BY <1>4, <2>1, <2>2, <2>3, <2>4, <2>5, <2>6 DEF Delivering
<1>5. CASE Passing
  <2>1. ASSUME NEW d \in Drafts, ConfirmationExpires(d) PROVE Typed'
    <3>1. confirmation' \in [Drafts -> Confirmation]
      BY <2>1 DEF Typed, TypeOK, ConfirmationExpires, Confirmation
    <3> QED BY <2>1, <3>1 DEF Typed, TypeOK, RequestsAreComplete, ConfirmationExpires, history
  <2>2. ASSUME NEW k \in Keys, RateEventAges(k) PROVE Typed'
    <3>1. operation' \in [Keys -> Operation]
      <4>1. operation[k] \in Operation
        BY DEF Typed, TypeOK
      <4>2. \A a \in {"day", "old"} : [operation[k] EXCEPT !.age = a] \in Operation
        BY <4>1 DEF Operation, Ages
      <4>3. \E a \in {"day", "old"} :
              operation' = [operation EXCEPT ![k] = [operation[k] EXCEPT !.age = a]]
        BY <2>2 DEF Typed, TypeOK, RateEventAges
      <4> QED BY <4>2, <4>3 DEF Typed, TypeOK
    <3> QED BY <2>2, <3>1 DEF Typed, TypeOK, RequestsAreComplete, RateEventAges, history
  <2> QED BY <1>5, <2>1, <2>2 DEF Passing
<1>6. CASE Crash
  <2>1. crashes' \in 0..MaxCrashes
    BY <1>6, BoundsAreNaturals DEF Typed, TypeOK, Crash
  <2> QED BY <1>6, <2>1, RowsTyped
          DEF Typed, TypeOK, RequestsAreComplete, Crash, NoRequest, stored, history
<1>7. CASE UNCHANGED vars
  BY <1>7 DEF Typed, TypeOK, RequestsAreComplete, vars
<1> QED BY <1>1, <1>2, <1>3, <1>4, <1>5, <1>6, <1>7 DEF Next

\* Type correctness of the pipeline, for any number of mailboxes, keys and callers.
THEOREM TypeCorrect == Spec => []TypeOK
<1>1. Spec => []Typed
  BY InitTyped, NextTyped, PTL DEF Spec
<1> QED BY <1>1, PTL DEF Typed
----------------------------------------------------------------------------
\* What the steps do to the rows and the requests, field by field.

LEMMA CascadeEffect ==
  ASSUME Typed, NEW M \in SUBSET Mailboxes, Cascade(M)
  PROVE  /\ \A m \in Mailboxes : mailbox'[m] = IF m \in M THEN "deleted" ELSE mailbox[m]
         /\ \A d \in Drafts :
              IF draft[d].mailbox \in M
              THEN draft'[d].status = "gone" /\ confirmation'[d].state = "none"
              ELSE draft'[d] = draft[d] /\ confirmation'[d] = confirmation[d]
         /\ \A k \in Keys : operation'[k] = IF operation[k].mailbox \in M THEN NoOperation
                                                                        ELSE operation[k]
         /\ \A m \in Mailboxes \ M : policy'[m] = policy[m]
BY DEF Typed, TypeOK, Cascade, NoDraft, NoConfirmation

LEMMA ReserveEffect ==
  ASSUME Typed, NEW c \in Callers, NEW k \in Keys, NEW m \in Mailboxes,
         NEW p \in Payloads \cup {None}, Reserve(c, k, m, p)
  PROVE  /\ operation[k].state = "none"
         /\ operation'[k].state = "submitting"
         /\ operation'[k].mailbox = m
         /\ operation'[k].payload = p
         /\ \A j \in Keys \ {k} : operation'[j] = operation[j]
         /\ request'[c].pc = "connecting"
         /\ request'[c].key = k
         /\ request'[c].mailbox = m
         /\ \A b \in Callers \ {c} : request'[b] = request[b]
BY DEF Typed, TypeOK, Reserve, HasOperation, Request

LEMMA MarkUnknownEffect ==
  ASSUME Typed, NEW k \in Keys, MarkUnknown(k)
  PROVE  \A j \in Keys :
           /\ operation'[j].mailbox = operation[j].mailbox
           /\ operation'[j].payload = operation[j].payload
           /\ \/ operation'[j].state = operation[j].state
              \/ j = k /\ operation[j].state = "submitting" /\ operation'[j].state = "unknown"
BY DEF Typed, TypeOK, MarkUnknown, Operation

LEMMA CompleteEffect ==
  ASSUME Typed, NEW c \in Callers, CompleteSend(c)
  PROVE  /\ request[c].key \in Keys
         /\ request[c].mailbox \in Mailboxes
         /\ request[c].result \in Finished
         /\ request[c].pc = "answered"
         /\ mailbox[request[c].mailbox] = "live"
         /\ operation[request[c].key].state = "submitting"
         /\ operation'[request[c].key].state = request[c].result
         /\ operation'[request[c].key].mailbox = operation[request[c].key].mailbox
         /\ operation'[request[c].key].payload = operation[request[c].key].payload
         /\ receipt'[request[c].key] = [state |-> request[c].result,
                                        mailbox |-> request[c].mailbox,
                                        payload |-> operation[request[c].key].payload]
         /\ \A j \in Keys \ {request[c].key} :
              operation'[j] = operation[j] /\ receipt'[j] = receipt[j]
<1>1. /\ request[c].key \in Keys
      /\ request[c].mailbox \in Mailboxes
      /\ request[c].result \in Finished
  BY DEF Typed, RequestsAreComplete, CompleteSend
<1> QED BY <1>1 DEF Typed, TypeOK, CompleteSend, CanComplete, Live, Operation

LEMMA AgesEffect ==
  ASSUME Typed, NEW k \in Keys, RateEventAges(k)
  PROVE  \A j \in Keys : /\ operation'[j].state = operation[j].state
                         /\ operation'[j].mailbox = operation[j].mailbox
                         /\ operation'[j].payload = operation[j].payload
BY DEF Typed, TypeOK, RateEventAges, Operation

\* The request that stops delivering, and the request that goes on to its mark.
LEMMA ReturnEffect ==
  ASSUME Typed, NEW c \in Callers,
         DeliveryFails(c) \/ CompleteSend(c) \/ CompleteFails(c) \/ MarkDraftSent(c)
  PROVE  /\ request'[c].pc \in {"open", "completed"}
         /\ request'[c].pc = "completed" =>
              /\ CompleteSend(c)
              /\ request'[c].key = request[c].key
              /\ request[c].result \in AcceptedSome
         /\ request'[c].pc = "open" => request'[c].key = None
         /\ \A b \in Callers \ {c} : request'[b] = request[b]
<1>1. request[c] \in Request
  BY DEF Typed, TypeOK
<1>2. CASE request' = [request EXCEPT ![c] = Returned(c)]
  BY <1>1, <1>2 DEF Typed, TypeOK, Returned, Request
<1>3. CASE /\ CompleteSend(c)
           /\ request[c].result \in AcceptedSome
           /\ request' = [request EXCEPT ![c] = [request[c] EXCEPT !.pc = "completed"]]
  BY <1>1, <1>3 DEF Typed, TypeOK, Request
<1> QED BY <1>2, <1>3 DEF DeliveryFails, CompleteSend, CompleteFails, MarkDraftSent

LEMMA MarkSentEffect ==
  ASSUME Typed, NEW c \in Callers, MarkDraftSent(c)
  PROVE  \A d \in Drafts :
           /\ draft'[d].mailbox = draft[d].mailbox
           /\ draft'[d].payload = draft[d].payload
           /\ \/ draft'[d] = draft[d]
              \/ d = request[c].key /\ draft[d].status = "draft" /\ draft'[d].status = "sent"
BY DEF Typed, TypeOK, MarkDraftSent, TakesSentMark, Editable, Draft

LEMMA EditEffect ==
  ASSUME Typed, NEW d \in Drafts, NEW p \in Payloads, UpdateDraft(d, p)
  PROVE  /\ draft[d].status = "draft"
         /\ draft'[d].status = "draft"
         /\ draft'[d].mailbox = draft[d].mailbox
         /\ confirmation'[d].state = "none"
         /\ \A e \in Drafts \ {d} : draft'[e] = draft[e] /\ confirmation'[e] = confirmation[e]
BY DEF Typed, TypeOK, UpdateDraft, Editable, Draft, NoConfirmation

----------------------------------------------------------------------------
\* The invariant is inductive.  Each action disturbs a few of its parts.

\* A send takes a row that is free, for a mailbox that exists.
Reserves(c, k, m) ==
  /\ mailbox[m] = "live"
  /\ operation[k].state = "none"
  /\ operation'[k].state = "submitting"
  /\ operation'[k].mailbox = m
  /\ \A j \in Keys \ {k} : operation'[j] = operation[j]
  /\ receipt[k].state = "none"
  /\ request'[c].pc = "connecting"
  /\ request'[c].key = k
  /\ request'[c].mailbox = m
  /\ \A b \in Callers \ {c} : request'[b] = request[b]
  /\ k \in Drafts => draft[k].status = "draft"
  /\ \A d \in Drafts : confirmation'[d] = confirmation[d] \/ confirmation'[d].state = "used"
  /\ UNCHANGED <<mailbox, policy, draft, receipt, handed, answer>>

LEMMA SendsReserve ==
  ASSUME Typed, RowsRefer, NEW c \in Callers,
         \/ \E d \in Drafts : SendDraft(c, d)
         \/ \E k \in DirectKeys, m \in Mailboxes, p \in Payloads : SendDirect(c, k, m, p)
  PROVE  \E k \in Keys, m \in Mailboxes : Reserves(c, k, m)
<1>1. ASSUME NEW d \in Drafts, SendDraft(c, d)
      PROVE  \E k \in Keys, m \in Mailboxes : Reserves(c, k, m)
  <2>1. /\ d \in Keys
        /\ Reserve(c, d, draft[d].mailbox, draft[d].payload)
        /\ draft[d].status = "draft"
        /\ receipt[d].state = "none"
        /\ UNCHANGED <<mailbox, policy, draft, receipt, handed, answer>>
    BY <1>1 DEF SendDraft, SendDraftAdmitted, Editable, Unanswered, HasReceipt, Keys, history
  <2>2. /\ draft[d].mailbox \in Mailboxes
        /\ draft[d].payload \in Payloads \cup {None}
        /\ mailbox[draft[d].mailbox] = "live"
    BY <2>1 DEF RowsRefer, Typed, TypeOK, Draft
  <2>3. \A e \in Drafts : confirmation'[e] = confirmation[e] \/ confirmation'[e].state = "used"
    BY <1>1 DEF SendDraft, Typed, TypeOK, Confirmation
  <2>4. PICK m \in Mailboxes : m = draft[d].mailbox
    BY <2>2
  <2>5. PICK p \in Payloads \cup {None} : p = draft[d].payload
    BY <2>2
  <2>6. Reserve(c, d, m, p)
    BY <2>1, <2>4, <2>5
  <2>7. Reserves(c, d, m)
    BY <2>1, <2>2, <2>3, <2>4, <2>6, ReserveEffect DEF Reserves
  <2> QED BY <2>1, <2>7
<1>2. ASSUME NEW k \in DirectKeys, NEW m \in Mailboxes, NEW p \in Payloads,
             SendDirect(c, k, m, p)
      PROVE  \E j \in Keys, n \in Mailboxes : Reserves(c, j, n)
  <2>1. /\ k \in Keys
        /\ k \notin Drafts
        /\ Reserve(c, k, m, p)
        /\ mailbox[m] = "live"
        /\ receipt[k].state = "none"
        /\ UNCHANGED <<mailbox, policy, draft, confirmation, receipt, handed, answer>>
    BY <1>2, KeysAreDisjoint DEF SendDirect, Live, Unanswered, HasReceipt, Keys, history
  <2>2. Reserves(c, k, m)
    BY <2>1, ReserveEffect DEF Reserves
  <2> QED BY <2>1, <2>2
<1> QED BY <1>1, <1>2

LEMMA ReservesPreserves ==
  ASSUME Inv, NEW c \in Callers, NEW k \in Keys, NEW m \in Mailboxes, Reserves(c, k, m), Typed'
  PROVE  Inv'
<1> USE DEF Inv, Reserves
<1>1. operation[k].mailbox = None /\ None # m
  BY NoneApart DEF RowsRefer
<1>2. RowsRefer'
  BY DEF RowsRefer
<1>3. \A b \in Callers : ~Delivers(b, k, m)
  BY DEF RequestsOwnRows
<1>4. handed[k][m] = 0
  BY <1>1 DEF HandedIsRecorded
<1>5. RequestsOwnRows'
  <2> SUFFICES ASSUME NEW b \in Callers, NEW j \in Keys, NEW n \in Mailboxes,
                      Delivers(b, j, n)'
               PROVE  /\ \/ mailbox'[n] = "deleted"
                         \/ /\ operation'[j].state \in {"submitting", "unknown"}
                            /\ operation'[j].mailbox = n
                      /\ \A a \in Callers : Delivers(a, j, n)' => a = b
                      /\ request'[b].pc = "connecting" => handed'[j][n] = 0
                      /\ request'[b].pc = "answered" => answer'[j][n] = request'[b].result
    BY DEF RequestsOwnRows
  <2>1. CASE b = c
    <3>1. j = k /\ n = m
      BY <2>1 DEF Delivers
    <3>2. \A a \in Callers : Delivers(a, k, m)' => a = c
      BY <1>3 DEF Delivers
    <3> QED BY <1>4, <2>1, <3>1, <3>2
  <2>2. CASE b # c
    <3>1. Delivers(b, j, n) /\ ~(j = k /\ n = m)
      BY <1>3, <2>2 DEF Delivers
    <3>2. \A a \in Callers : Delivers(a, j, n)' => Delivers(a, j, n)
      BY <3>1 DEF Delivers
    <3> QED BY <2>2, <3>1, <3>2 DEF RequestsOwnRows
  <2> QED BY <2>1, <2>2
<1>6. HandedIsRecorded'
  BY <1>1, NoneApart DEF HandedIsRecorded
<1>7. ConfirmationsFit'
  BY DEF ConfirmationsFit, ConfirmationValid
<1>8. DraftsOfRequests'
  BY DEF DraftsOfRequests
<1>9. OutcomeIsServersAnswer'
  BY DEF OutcomeIsServersAnswer, Finished
<1>10. ReceiptsMatchOperations'
  BY DEF ReceiptsMatchOperations, HasOperation, HasReceipt, Finished
<1>11. SentDraftsWereAccepted'
  BY DEF SentDraftsWereAccepted
<1> QED BY <1>2, <1>5, <1>6, <1>7, <1>8, <1>9, <1>10, <1>11

\* The end of one mailbox or of all, with or without the receipts.
LEMMA CascadePreserves ==
  ASSUME Inv, Typed', NEW M \in SUBSET Mailboxes, Cascade(M),
         UNCHANGED <<request, handed, answer>>,
         \/ receipt' = receipt
         \/ M = {m \in Mailboxes : Live(m)}
  PROVE  Inv'
<1> USE DEF Inv
<1> HIDE DEF Cascade
<1>1. \A m \in Mailboxes : mailbox'[m] = IF m \in M THEN "deleted" ELSE mailbox[m]
  BY CascadeEffect
<1>2. \A d \in Drafts :
        IF draft[d].mailbox \in M
        THEN draft'[d].status = "gone" /\ confirmation'[d].state = "none"
        ELSE draft'[d] = draft[d] /\ confirmation'[d] = confirmation[d]
  BY CascadeEffect
<1>3. \A k \in Keys : IF operation[k].mailbox \in M
                      THEN operation'[k].state = "none" /\ operation'[k].mailbox = None
                      ELSE operation'[k] = operation[k]
  BY CascadeEffect DEF NoOperation
<1>4. \A m \in Mailboxes \ M : policy'[m] = policy[m]
  BY CascadeEffect
<1>5. RowsRefer'
  BY <1>1, <1>2, <1>3 DEF RowsRefer
<1>6. RequestsOwnRows'
  BY <1>1, <1>3 DEF RequestsOwnRows, Delivers
<1>7. HandedIsRecorded'
  BY <1>1, <1>3 DEF HandedIsRecorded
<1>8. ConfirmationsFit'
  <2> SUFFICES ASSUME NEW d \in Drafts, confirmation'[d].state = "ready"
               PROVE  /\ draft'[d].status \in {"draft", "sent"}
                      /\ draft'[d].status = "draft" => ConfirmationValid(d)'
    BY DEF ConfirmationsFit
  <2>1. /\ draft[d].mailbox \notin M
        /\ draft'[d] = draft[d]
        /\ confirmation'[d] = confirmation[d]
    BY <1>2
  <2>2. draft[d].status \in {"draft", "sent"}
    BY <2>1 DEF ConfirmationsFit
  <2>3. policy'[draft[d].mailbox] = policy[draft[d].mailbox]
    BY <1>4, <2>1, <2>2 DEF RowsRefer
  <2> QED BY <2>1, <2>2, <2>3 DEF ConfirmationsFit, ConfirmationValid
<1>9. DraftsOfRequests' /\ ReceiptsMatchOperations' /\ SentDraftsWereAccepted'
  <2>1. CASE receipt' = receipt
    <3>1. DraftsOfRequests'
      BY <1>2, <2>1 DEF DraftsOfRequests
    <3>2. ReceiptsMatchOperations'
      BY <1>3, <2>1 DEF ReceiptsMatchOperations, HasOperation, HasReceipt
    <3>3. SentDraftsWereAccepted'
      BY <1>2, <2>1 DEF SentDraftsWereAccepted
    <3> QED BY <3>1, <3>2, <3>3
  <2>2. CASE M = {m \in Mailboxes : Live(m)}
    <3>1. \A d \in Drafts : draft'[d].status \notin {"draft", "sent"}
      BY <1>2, <2>2 DEF RowsRefer, Live
    <3>2. \A k \in Keys : operation'[k].state = "none"
      BY <1>3, <2>2 DEF RowsRefer, Live
    <3>3. DraftsOfRequests'
      BY <1>2, <3>1 DEF DraftsOfRequests
    <3> QED BY <3>1, <3>2, <3>3
            DEF ReceiptsMatchOperations, SentDraftsWereAccepted, HasOperation
  <2> QED BY <2>1, <2>2
<1>10. OutcomeIsServersAnswer'
  BY <1>3 DEF OutcomeIsServersAnswer, Finished
<1> QED BY <1>5, <1>6, <1>7, <1>8, <1>9, <1>10

\* A request opens, closes or ends: only `request` changes and it delivers no more.
LEMMA QuietPreserves ==
  ASSUME Inv, Typed',
         \A c \in Callers :
           \/ request'[c] = request[c]
           \/ request'[c].pc \in {"idle", "open"},
         UNCHANGED <<mailbox, policy, draft, confirmation, operation, receipt, handed, answer>>
  PROVE  Inv'
<1> USE DEF Inv
<1>1. \A c \in Callers, k \in Keys, m \in Mailboxes :
        Delivers(c, k, m)' => Delivers(c, k, m) /\ request'[c] = request[c]
  BY DEF Delivers
<1>2. RequestsOwnRows'
  BY <1>1 DEF RequestsOwnRows
<1>3. DraftsOfRequests'
  BY DEF DraftsOfRequests
<1> QED BY <1>2, <1>3 DEF RowsRefer, HandedIsRecorded, ConfirmationsFit, ConfirmationValid,
           OutcomeIsServersAnswer, ReceiptsMatchOperations, SentDraftsWereAccepted,
           HasOperation, HasReceipt

LEMMA HandOverPreserves == ASSUME Inv, Typed', NEW c \in Callers, HandOver(c) PROVE Inv'
<1> USE DEF Inv
<1> DEFINE k == request[c].key
           m == request[c].mailbox
<1>1. k \in Keys /\ m \in Mailboxes /\ Delivers(c, k, m) /\ request[c].pc = "connecting"
  BY DEF Typed, RequestsAreComplete, HandOver, Delivers
<1>2. /\ request'[c].pc = "submitted"
      /\ request'[c].key = k
      /\ request'[c].mailbox = m
      /\ \A b \in Callers \ {c} : request'[b] = request[b]
  BY DEF Typed, TypeOK, HandOver, Request
<1>3. /\ handed'[k][m] = 1
      /\ \A j \in Keys, n \in Mailboxes : ~(j = k /\ n = m) => handed'[j][n] = handed[j][n]
  <2>1. handed[k][m] = 0
    BY <1>1 DEF RequestsOwnRows
  <2> QED BY <1>1, <2>1 DEF Typed, TypeOK, HandOver
<1>4. UNCHANGED <<mailbox, policy, draft, confirmation, operation, receipt, answer>>
  BY DEF HandOver, stored
<1> HIDE DEF k, m
<1>5. \A b \in Callers, j \in Keys, n \in Mailboxes : Delivers(b, j, n)' <=> Delivers(b, j, n)
  BY <1>1, <1>2 DEF Delivers
<1>6. RequestsOwnRows'
  BY <1>1, <1>2, <1>3, <1>4, <1>5 DEF RequestsOwnRows
<1>7. HandedIsRecorded'
  BY <1>1, <1>3, <1>4 DEF HandedIsRecorded, RequestsOwnRows
<1>8. DraftsOfRequests'
  BY <1>1, <1>2, <1>4 DEF DraftsOfRequests, k
<1> QED BY <1>4, <1>6, <1>7, <1>8 DEF RowsRefer, ConfirmationsFit, ConfirmationValid,
           OutcomeIsServersAnswer, ReceiptsMatchOperations, SentDraftsWereAccepted,
           HasOperation, HasReceipt

LEMMA AnswerPreserves ==
  ASSUME Inv, Typed', NEW c \in Callers, NEW r \in Finished, SmtpAnswers(c, r)
  PROVE  Inv'
<1> USE DEF Inv
<1> DEFINE k == request[c].key
           m == request[c].mailbox
<1>1. k \in Keys /\ m \in Mailboxes /\ Delivers(c, k, m) /\ request[c].pc = "submitted"
  BY DEF Typed, RequestsAreComplete, SmtpAnswers, Delivers
<1>2. /\ request'[c].pc = "answered"
      /\ request'[c].key = k
      /\ request'[c].mailbox = m
      /\ request'[c].result = r
      /\ \A b \in Callers \ {c} : request'[b] = request[b]
  BY DEF Typed, TypeOK, SmtpAnswers, Request
<1>3. /\ answer'[k][m] = r
      /\ \A j \in Keys, n \in Mailboxes : ~(j = k /\ n = m) => answer'[j][n] = answer[j][n]
  BY <1>1 DEF Typed, TypeOK, SmtpAnswers
<1>4. UNCHANGED <<mailbox, policy, draft, confirmation, operation, receipt, handed>>
  BY DEF SmtpAnswers, stored
<1> HIDE DEF k, m
<1>5. \A b \in Callers, j \in Keys, n \in Mailboxes : Delivers(b, j, n)' <=> Delivers(b, j, n)
  BY <1>1, <1>2 DEF Delivers
<1>6. RequestsOwnRows'
  <2> SUFFICES ASSUME NEW b \in Callers, NEW j \in Keys, NEW n \in Mailboxes,
                      Delivers(b, j, n)
               PROVE  /\ \/ mailbox[n] = "deleted"
                         \/ /\ operation[j].state \in {"submitting", "unknown"}
                            /\ operation[j].mailbox = n
                      /\ \A a \in Callers : Delivers(a, j, n) => a = b
                      /\ request'[b].pc = "connecting" => handed[j][n] = 0
                      /\ request'[b].pc = "answered" => answer'[j][n] = request'[b].result
    BY <1>4, <1>5 DEF RequestsOwnRows
  <2>1. CASE b = c
    <3>1. j = k /\ n = m
      BY <2>1 DEF Delivers, k, m
    <3> QED BY <1>2, <1>3, <2>1, <3>1 DEF RequestsOwnRows
  <2>2. CASE b # c
    <3>1. ~(j = k /\ n = m)
      BY <1>1, <2>2 DEF RequestsOwnRows
    <3> QED BY <1>2, <1>3, <2>2, <3>1 DEF RequestsOwnRows
  <2> QED BY <2>1, <2>2
<1>7. OutcomeIsServersAnswer'
  <2>1. operation[k].state \in Finished => operation[k].mailbox # m
    BY <1>1 DEF RequestsOwnRows, RowsRefer, Finished
  <2>2. \A j \in Keys : operation[j].state \in Finished => operation[j].mailbox \in Mailboxes
    BY DEF RowsRefer, Finished
  <2> QED BY <1>3, <1>4, <2>1, <2>2 DEF OutcomeIsServersAnswer
<1>8. DraftsOfRequests'
  BY <1>1, <1>2, <1>4 DEF DraftsOfRequests, k
<1> QED BY <1>4, <1>6, <1>7, <1>8 DEF RowsRefer, ConfirmationsFit, ConfirmationValid,
           HandedIsRecorded, ReceiptsMatchOperations, SentDraftsWereAccepted,
           HasOperation, HasReceipt

LEMMA UnknownPreserves ==
  ASSUME Inv, Typed', NEW c \in Callers, DeliveryFails(c) \/ CompleteFails(c)
  PROVE  Inv'
<1> USE DEF Inv
<1> DEFINE k == request[c].key
<1>1. /\ k \in Keys
      /\ MarkUnknown(k)
      /\ UNCHANGED <<mailbox, policy, draft, confirmation, receipt, handed, answer>>
  BY DEF Typed, RequestsAreComplete, DeliveryFails, CompleteFails, history
<1>2. \A j \in Keys :
        /\ operation'[j].mailbox = operation[j].mailbox
        /\ operation'[j].payload = operation[j].payload
        /\ \/ operation'[j].state = operation[j].state
           \/ operation[j].state = "submitting" /\ operation'[j].state = "unknown"
  BY <1>1, MarkUnknownEffect
<1>3. /\ request'[c].pc = "open"
      /\ request'[c].key = None
      /\ \A b \in Callers \ {c} : request'[b] = request[b]
  <2>1. ~CompleteSend(c)
    BY DEF DeliveryFails, CompleteFails, CompleteSend
  <2> QED BY <2>1, ReturnEffect
<1> HIDE DEF k
<1>4. \A b \in Callers, j \in Keys, n \in Mailboxes :
        Delivers(b, j, n)' => Delivers(b, j, n) /\ request'[b] = request[b]
  BY <1>3 DEF Delivers
<1>5. RowsRefer'
  BY <1>1, <1>2 DEF RowsRefer
<1>6. RequestsOwnRows'
  BY <1>1, <1>2, <1>4 DEF RequestsOwnRows
<1>7. HandedIsRecorded'
  BY <1>1, <1>2 DEF HandedIsRecorded
<1>8. ConfirmationsFit' /\ SentDraftsWereAccepted'
  BY <1>1 DEF ConfirmationsFit, ConfirmationValid, SentDraftsWereAccepted
<1>9. DraftsOfRequests'
  BY <1>1, <1>3, NoneApart DEF DraftsOfRequests, Keys
<1>10. OutcomeIsServersAnswer'
  BY <1>1, <1>2 DEF OutcomeIsServersAnswer, Finished
<1>11. ReceiptsMatchOperations'
  BY <1>1, <1>2 DEF ReceiptsMatchOperations, HasOperation, HasReceipt, Finished
<1> QED BY <1>5, <1>6, <1>7, <1>8, <1>9, <1>10, <1>11

LEMMA CompletePreserves == ASSUME Inv, Typed', NEW c \in Callers, CompleteSend(c) PROVE Inv'
<1> USE DEF Inv
<1> DEFINE k == request[c].key
           m == request[c].mailbox
           r == request[c].result
<1>1. /\ k \in Keys /\ m \in Mailboxes /\ r \in Finished
      /\ Delivers(c, k, m)
      /\ mailbox[m] = "live"
      /\ operation[k].state = "submitting"
      /\ answer[k][m] = r
  <2>1. /\ k \in Keys /\ m \in Mailboxes /\ r \in Finished
        /\ request[c].pc = "answered"
        /\ mailbox[m] = "live"
        /\ operation[k].state = "submitting"
    BY CompleteEffect
  <2>2. Delivers(c, k, m)
    BY <2>1 DEF Delivers
  <2> QED BY <2>1, <2>2 DEF RequestsOwnRows
<1>2. operation[k].mailbox = m
  BY <1>1 DEF RequestsOwnRows
<1>3. /\ operation'[k].state = r
      /\ operation'[k].mailbox = m
      /\ receipt'[k] = [state |-> r, mailbox |-> m, payload |-> operation'[k].payload]
      /\ \A j \in Keys \ {k} : operation'[j] = operation[j] /\ receipt'[j] = receipt[j]
  BY <1>2, CompleteEffect
<1>4. UNCHANGED <<mailbox, policy, draft, confirmation, handed, answer>>
  BY DEF CompleteSend, history
<1>5. /\ \/ request'[c].pc = "open" /\ request'[c].key = None
         \/ request'[c].pc = "completed" /\ request'[c].key = k /\ r \in AcceptedSome
      /\ \A b \in Callers \ {c} : request'[b] = request[b]
  BY ReturnEffect
<1>6. ~HasReceipt(k)
  BY <1>1 DEF ReceiptsMatchOperations, HasOperation, Finished
<1>7. k \in Drafts => draft[k].status # "none"
  BY <1>1 DEF DraftsOfRequests, Delivers
<1> HIDE DEF k, m, r
<1>8. \A b \in Callers, j \in Keys, n \in Mailboxes :
        Delivers(b, j, n)' => /\ Delivers(b, j, n)
                              /\ request'[b] = request[b]
                              /\ b # c
  BY <1>5 DEF Delivers
<1>9. RowsRefer'
  BY <1>1, <1>2, <1>3, <1>4 DEF RowsRefer, Finished
<1>10. RequestsOwnRows'
  <2>1. ASSUME NEW b \in Callers, NEW j \in Keys, NEW n \in Mailboxes, Delivers(b, j, n)'
        PROVE  mailbox[n] = "deleted" \/ operation'[j] = operation[j]
    <3>1. Delivers(b, j, n) /\ b # c
      BY <1>8, <2>1
    <3>2. mailbox[n] # "deleted" /\ j = k => n = m
      BY <1>2, <3>1 DEF RequestsOwnRows
    <3> QED BY <1>1, <1>3, <3>1, <3>2 DEF RequestsOwnRows
  <2> QED BY <1>4, <1>8, <2>1 DEF RequestsOwnRows
<1>11. HandedIsRecorded'
  BY <1>2, <1>3, <1>4 DEF HandedIsRecorded
<1>12. ConfirmationsFit'
  BY <1>4 DEF ConfirmationsFit, ConfirmationValid
<1>13. DraftsOfRequests'
  <2> SUFFICES ASSUME NEW b \in Callers, NEW d \in Drafts, request'[b].key = d
               PROVE  /\ request'[b].pc \in {"connecting", "submitted", "answered", "completed"}
                           => draft[d].status # "none"
                      /\ /\ request'[b].pc = "completed"
                         /\ draft[d].status \in {"draft", "sent"}
                         => receipt'[d].state \in AcceptedSome
    BY <1>4 DEF DraftsOfRequests
  <2>1. d \in Keys /\ d # None
    BY NoneApart DEF Keys
  <2>2. CASE b = c
    <3>1. CASE request'[c].pc = "completed" /\ request'[c].key = k /\ r \in AcceptedSome
      BY <1>3, <1>7, <2>2, <3>1
    <3>2. CASE request'[c].pc = "open" /\ request'[c].key = None
      BY <2>1, <2>2, <3>2
    <3> QED BY <1>5, <3>1, <3>2
  <2>3. CASE b # c
    <3>1. request'[b] = request[b]
      BY <1>5, <2>3
    <3>2. CASE d # k
      BY <1>3, <2>1, <3>1, <3>2 DEF DraftsOfRequests
    <3>3. CASE d = k
      BY <1>6, <3>1, <3>3 DEF DraftsOfRequests, HasReceipt, AcceptedSome
    <3> QED BY <3>2, <3>3
  <2> QED BY <2>2, <2>3
<1>14. OutcomeIsServersAnswer'
  BY <1>1, <1>3, <1>4 DEF OutcomeIsServersAnswer
<1>15. ReceiptsMatchOperations'
  BY <1>1, <1>3 DEF ReceiptsMatchOperations, HasOperation, HasReceipt
<1>16. SentDraftsWereAccepted'
  BY <1>3, <1>4, <1>6 DEF SentDraftsWereAccepted, HasReceipt, Keys
<1> QED BY <1>9, <1>10, <1>11, <1>12, <1>13, <1>14, <1>15, <1>16

LEMMA MarkPreserves == ASSUME Inv, Typed', NEW c \in Callers, MarkDraftSent(c) PROVE Inv'
<1> USE DEF Inv
<1>1. UNCHANGED <<mailbox, policy, confirmation, operation, receipt, handed, answer>>
  BY DEF MarkDraftSent, history
<1>2. \A d \in Drafts :
        /\ draft'[d].mailbox = draft[d].mailbox
        /\ \/ draft'[d] = draft[d]
           \/ d = request[c].key /\ draft[d].status = "draft" /\ draft'[d].status = "sent"
  BY MarkSentEffect
<1>3. /\ request'[c].pc = "open"
      /\ request'[c].key = None
      /\ \A b \in Callers \ {c} : request'[b] = request[b]
  <2>1. ~CompleteSend(c)
    BY DEF MarkDraftSent, CompleteSend
  <2> QED BY <2>1, ReturnEffect
<1>4. request[c].pc = "completed"
  BY DEF MarkDraftSent
<1>5. RowsRefer'
  BY <1>1, <1>2 DEF RowsRefer
<1>6. RequestsOwnRows'
  BY <1>1, <1>3 DEF RequestsOwnRows, Delivers
<1>7. ConfirmationsFit'
  BY <1>1, <1>2 DEF ConfirmationsFit, ConfirmationValid
<1>8. DraftsOfRequests'
  BY <1>1, <1>2, <1>3, NoneApart DEF DraftsOfRequests, Keys
<1>9. SentDraftsWereAccepted'
  BY <1>1, <1>2, <1>4 DEF SentDraftsWereAccepted, DraftsOfRequests, AcceptedSome
<1> QED BY <1>1, <1>5, <1>6, <1>7, <1>8, <1>9
        DEF HandedIsRecorded, OutcomeIsServersAnswer, ReceiptsMatchOperations,
            HasOperation, HasReceipt

\* Steps that touch nothing but mailboxes to come, policies, drafts and confirmations.
LEMMA EditingPreserves ==
  ASSUME Inv, Typed',
         UNCHANGED <<operation, receipt, request, handed, answer>>,
         \A m \in Mailboxes : mailbox'[m] = mailbox[m] \/ mailbox[m] = "absent",
         \A d \in Drafts :
           \/ draft'[d] = draft[d]
           \/ /\ draft[d].status \in {"none", "draft"}
              /\ draft'[d].status = "draft"
              /\ draft'[d].mailbox \in Mailboxes
              /\ mailbox[draft'[d].mailbox] = "live",
         ConfirmationsFit'
  PROVE  Inv'
<1> USE DEF Inv
<1>1. RowsRefer'
  BY DEF RowsRefer
<1>2. RequestsOwnRows'
  BY DEF RequestsOwnRows, RowsRefer, Delivers
<1>3. HandedIsRecorded'
  BY DEF HandedIsRecorded
<1>4. DraftsOfRequests'
  BY DEF DraftsOfRequests
<1>5. SentDraftsWereAccepted'
  BY DEF SentDraftsWereAccepted
<1> QED BY <1>1, <1>2, <1>3, <1>4, <1>5
        DEF OutcomeIsServersAnswer, ReceiptsMatchOperations, HasOperation, HasReceipt

LEMMA AgesPreserves == ASSUME Inv, Typed', NEW k \in Keys, RateEventAges(k) PROVE Inv'
<1> USE DEF Inv
<1>1. \A j \in Keys : /\ operation'[j].state = operation[j].state
                      /\ operation'[j].mailbox = operation[j].mailbox
                      /\ operation'[j].payload = operation[j].payload
  BY AgesEffect
<1>2. UNCHANGED <<mailbox, policy, draft, confirmation, receipt, request, handed, answer>>
  BY DEF RateEventAges, history
<1>3. RowsRefer'
  BY <1>1, <1>2 DEF RowsRefer
<1>4. RequestsOwnRows'
  BY <1>1, <1>2 DEF RequestsOwnRows, Delivers
<1>5. HandedIsRecorded'
  BY <1>1, <1>2 DEF HandedIsRecorded
<1>6. OutcomeIsServersAnswer' /\ ReceiptsMatchOperations'
  BY <1>1, <1>2 DEF OutcomeIsServersAnswer, ReceiptsMatchOperations, HasOperation, HasReceipt
<1> QED BY <1>2, <1>3, <1>4, <1>5, <1>6
        DEF ConfirmationsFit, ConfirmationValid, DraftsOfRequests, SentDraftsWereAccepted

\* Every way in which a confirmation appears, changes or goes.
LEMMA ConfirmationsStep ==
  ASSUME Inv, Typed',
         \/ \E m \in Mailboxes, on \in BOOLEAN : CreateMailbox(m, on) \/ ConfigureSend(m, on)
         \/ \E m \in Mailboxes, input \in PolicyInputs : SetSendPolicy(m, input)
         \/ Editing
         \/ \E c \in Callers, d \in Drafts : PrepareDraftSend(c, d) \/ SendDraftRefused(c, d)
         \/ \E d \in Drafts : ConfirmationExpires(d)
  PROVE  ConfirmationsFit'
<1> USE DEF Inv
<1>1. ASSUME NEW m \in Mailboxes, NEW on \in BOOLEAN, CreateMailbox(m, on) \/ ConfigureSend(m, on)
      PROVE  ConfirmationsFit'
  BY <1>1 DEF ConfirmationsFit, ConfirmationValid, CreateMailbox, ConfigureSend
<1>2. ASSUME NEW m \in Mailboxes, NEW input \in PolicyInputs, SetSendPolicy(m, input)
      PROVE  ConfirmationsFit'
  <2> SUFFICES ASSUME NEW d \in Drafts, confirmation'[d].state = "ready"
               PROVE  /\ draft'[d].status \in {"draft", "sent"}
                      /\ draft'[d].status = "draft" => ConfirmationValid(d)'
    BY DEF ConfirmationsFit
  <2>1. draft' = draft
    BY <1>2 DEF SetSendPolicy
  <2>2. draft[d].mailbox # m /\ confirmation'[d] = confirmation[d]
    BY <1>2 DEF SetSendPolicy, DraftsOf, NoConfirmation
  <2>3. draft[d].status \in {"draft", "sent"} /\ draft[d].mailbox \in Mailboxes
    BY <2>2 DEF ConfirmationsFit, RowsRefer
  <2>4. policy'[draft[d].mailbox] = policy[draft[d].mailbox]
    BY <1>2, <2>2, <2>3 DEF SetSendPolicy, Typed, TypeOK
  <2> QED BY <2>1, <2>2, <2>3, <2>4 DEF ConfirmationsFit, ConfirmationValid
<1>3. ASSUME NEW d \in Drafts, NEW m \in Mailboxes, NEW p \in Payloads, CreateDraft(d, m, p)
      PROVE  ConfirmationsFit'
  <2>1. /\ UNCHANGED <<policy, confirmation>>
        /\ draft[d].status = "none"
        /\ \A e \in Drafts \ {d} : draft'[e] = draft[e]
    BY <1>3 DEF CreateDraft, Typed, TypeOK
  <2> QED BY <2>1 DEF ConfirmationsFit, ConfirmationValid
<1>4. ASSUME NEW d \in Drafts, NEW p \in Payloads, UpdateDraft(d, p) PROVE ConfirmationsFit'
  <2>1. policy' = policy
    BY <1>4 DEF UpdateDraft
  <2>2. /\ confirmation'[d].state = "none"
        /\ \A e \in Drafts \ {d} : draft'[e] = draft[e] /\ confirmation'[e] = confirmation[e]
    BY <1>4, EditEffect
  <2> QED BY <2>1, <2>2 DEF ConfirmationsFit, ConfirmationValid
<1>5. ASSUME NEW c \in Callers, NEW d \in Drafts, PrepareDraftSend(c, d) PROVE ConfirmationsFit'
  <2>1. /\ UNCHANGED <<policy, draft>>
        /\ draft[d].status = "draft"
        /\ confirmation'[d] = [state |-> "ready", version |-> draft[d].version,
                               payload |-> draft[d].payload,
                               policyVersion |-> policy[draft[d].mailbox].version]
        /\ \A e \in Drafts \ {d} : confirmation'[e] = confirmation[e]
    BY <1>5 DEF PrepareDraftSend, Editable, Typed, TypeOK
  <2> QED BY <2>1 DEF ConfirmationsFit, ConfirmationValid
<1>6. ASSUME NEW d \in Drafts,
             ConfirmationExpires(d) \/ \E c \in Callers : SendDraftRefused(c, d)
      PROVE  ConfirmationsFit'
  <2>1. /\ UNCHANGED <<policy, draft>>
        /\ confirmation'[d].state \in {"used", "expired"}
        /\ \A e \in Drafts \ {d} : confirmation'[e] = confirmation[e]
    BY <1>6 DEF ConfirmationExpires, SendDraftRefused, Typed, TypeOK, Confirmation
  <2> QED BY <2>1 DEF ConfirmationsFit, ConfirmationValid
<1> QED BY <1>1, <1>2, <1>3, <1>4, <1>5, <1>6 DEF Editing

LEMMA InitInv == Init => Inv
<1> SUFFICES ASSUME Init PROVE Inv
  OBVIOUS
<1>1. Typed
  BY InitTyped
<1>2. /\ \A d \in Drafts : draft[d].status = "none" /\ confirmation[d].state = "none"
      /\ \A k \in Keys : operation[k].state = "none" /\ operation[k].mailbox = None
      /\ \A c \in Callers : request[c].pc = "idle"
      /\ \A k \in Keys, m \in Mailboxes : handed[k][m] = 0
  BY DEF Init, NoDraft, NoConfirmation, NoOperation, NoRequest
<1> QED BY <1>1, <1>2
        DEF Inv, RowsRefer, RequestsOwnRows, Delivers, HandedIsRecorded, ConfirmationsFit,
            DraftsOfRequests, OutcomeIsServersAnswer, ReceiptsMatchOperations,
            SentDraftsWereAccepted, HasOperation, Finished

LEMMA NextInv == Inv /\ [Next]_vars => Inv'
<1> SUFFICES ASSUME Inv, [Next]_vars PROVE Inv'
  OBVIOUS
<1>t. Typed'
  BY NextTyped DEF Inv
<1>1. CASE Settings
  <2>1. ASSUME NEW m \in Mailboxes, NEW on \in BOOLEAN,
               CreateMailbox(m, on) \/ ConfigureSend(m, on)
        PROVE  Inv'
    <3>1. ConfirmationsFit'
      BY <1>t, <2>1, ConfirmationsStep
    <3>2. UNCHANGED <<draft, operation, receipt, request, handed, answer>>
      BY <2>1 DEF CreateMailbox, ConfigureSend, history
    <3>3. \A n \in Mailboxes : mailbox'[n] = mailbox[n] \/ mailbox[n] = "absent"
      BY <2>1 DEF CreateMailbox, ConfigureSend, Inv, Typed, TypeOK
    <3> QED BY <1>t, <3>1, <3>2, <3>3, EditingPreserves
  <2>2. ASSUME NEW m \in Mailboxes, NEW input \in PolicyInputs, SetSendPolicy(m, input)
        PROVE  Inv'
    <3>1. ConfirmationsFit'
      BY <1>t, <2>2, ConfirmationsStep
    <3>2. UNCHANGED <<mailbox, draft, operation, receipt, request, handed, answer>>
      BY <2>2 DEF SetSendPolicy, history
    <3> QED BY <1>t, <3>1, <3>2, EditingPreserves
  <2>3. ASSUME NEW m \in Mailboxes, DeleteMailbox(m) PROVE Inv'
    <3>1. Cascade({m}) /\ UNCHANGED <<receipt, request, handed, answer>>
      BY <2>3 DEF DeleteMailbox, history
    <3> QED BY <1>t, <3>1, CascadePreserves
  <2>4. ASSUME DeleteAll PROVE Inv'
    <3> DEFINE M == {m \in Mailboxes : Live(m)}
    <3>1. Cascade(M) /\ UNCHANGED <<request, handed, answer>>
      BY <2>4 DEF DeleteAll, history
    <3> QED BY <1>t, <3>1, CascadePreserves
  <2> QED BY <1>1, <2>1, <2>2, <2>3, <2>4 DEF Settings
<1>2. CASE Editing
  <2>1. ConfirmationsFit'
    BY <1>t, <1>2, ConfirmationsStep
  <2>2. ASSUME NEW d \in Drafts, NEW m \in Mailboxes, NEW p \in Payloads, CreateDraft(d, m, p)
        PROVE  Inv'
    <3>1. /\ UNCHANGED <<mailbox, operation, receipt, request, handed, answer>>
          /\ draft[d].status = "none"
          /\ draft'[d].status = "draft"
          /\ draft'[d].mailbox = m
          /\ mailbox[m] = "live"
          /\ \A e \in Drafts \ {d} : draft'[e] = draft[e]
      BY <2>2 DEF CreateDraft, Live, Inv, Typed, TypeOK, history
    <3> QED BY <1>t, <2>1, <3>1, EditingPreserves
  <2>3. ASSUME NEW d \in Drafts, NEW p \in Payloads, UpdateDraft(d, p) PROVE Inv'
    <3>1. UNCHANGED <<mailbox, operation, receipt, request, handed, answer>>
      BY <2>3 DEF UpdateDraft, history
    <3>2. /\ draft[d].status = "draft"
          /\ draft'[d].status = "draft"
          /\ draft'[d].mailbox = draft[d].mailbox
          /\ \A e \in Drafts \ {d} : draft'[e] = draft[e]
      BY <2>3, EditEffect DEF Inv
    <3>3. draft[d].mailbox \in Mailboxes /\ mailbox[draft[d].mailbox] = "live"
      BY <3>2 DEF Inv, RowsRefer
    <3> QED BY <1>t, <2>1, <3>1, <3>2, <3>3, EditingPreserves
  <2> QED BY <1>2, <2>2, <2>3 DEF Editing
<1>3. ASSUME NEW c \in Callers, Calling(c) PROVE Inv'
  <2>1. CASE OpenScope(c) \/ CloseScope(c)
    <3>1. UNCHANGED <<mailbox, policy, draft, confirmation, operation, receipt, handed, answer>>
      BY <2>1 DEF OpenScope, CloseScope, stored, history
    <3>2. \A b \in Callers \ {c} : request'[b] = request[b]
      BY <2>1 DEF OpenScope, CloseScope, Inv, Typed, TypeOK
    <3>3. CASE CloseScope(c)
      <4>1. request'[c].pc = "idle" /\ request'[c].key = None
        BY <3>3 DEF CloseScope, NoRequest, Inv, Typed, TypeOK
      <4> QED BY <1>t, <3>1, <3>2, <4>1, QuietPreserves
    <3>4. CASE OpenScope(c)
      <4>1. request'[c].pc = "open"
        BY <3>4 DEF OpenScope, Inv, Typed, TypeOK
      <4> QED BY <1>t, <3>1, <3>2, <4>1, QuietPreserves
    <3> QED BY <2>1, <3>3, <3>4
  <2>2. ASSUME NEW d \in Drafts, PrepareDraftSend(c, d) \/ SendDraftRefused(c, d) PROVE Inv'
    <3>1. ConfirmationsFit'
      BY <1>t, <2>2, ConfirmationsStep
    <3>2. UNCHANGED <<mailbox, draft, operation, receipt, request, handed, answer>>
      BY <2>2 DEF PrepareDraftSend, SendDraftRefused, history
    <3> QED BY <1>t, <3>1, <3>2, EditingPreserves
  <2>3. CASE \/ \E d \in Drafts : SendDraft(c, d)
             \/ \E k \in DirectKeys, m \in Mailboxes, p \in Payloads : SendDirect(c, k, m, p)
    <3>1. PICK k \in Keys, m \in Mailboxes : Reserves(c, k, m)
      BY <2>3, SendsReserve DEF Inv
    <3> QED BY <1>t, <3>1, ReservesPreserves
  <2> QED BY <1>3, <2>1, <2>2, <2>3 DEF Calling
<1>4. ASSUME NEW c \in Callers, Delivering(c) PROVE Inv'
  BY <1>t, <1>4, HandOverPreserves, AnswerPreserves, UnknownPreserves, CompletePreserves,
     MarkPreserves DEF Delivering
<1>5. CASE Passing
  <2>1. ASSUME NEW d \in Drafts, ConfirmationExpires(d) PROVE Inv'
    <3>1. ConfirmationsFit'
      BY <1>t, <2>1, ConfirmationsStep
    <3>2. UNCHANGED <<mailbox, draft, operation, receipt, request, handed, answer>>
      BY <2>1 DEF ConfirmationExpires, history
    <3> QED BY <1>t, <3>1, <3>2, EditingPreserves
  <2> QED BY <1>t, <1>5, <2>1, AgesPreserves DEF Passing
<1>6. CASE Crash
  <2>1. UNCHANGED <<mailbox, policy, draft, confirmation, operation, receipt, handed, answer>>
    BY <1>6 DEF Crash, stored, history
  <2>2. \A c \in Callers : request'[c].pc = "idle" /\ request'[c].key = None
    BY <1>6 DEF Crash, NoRequest
  <2> QED BY <1>t, <2>1, <2>2, QuietPreserves
<1>7. CASE UNCHANGED vars
  BY <1>t, <1>7, QuietPreserves DEF vars
<1> QED BY <1>1, <1>2, <1>3, <1>4, <1>5, <1>6, <1>7 DEF Next

LEMMA Invariant == Spec => []Inv
BY InitInv, NextInv, PTL DEF Spec

----------------------------------------------------------------------------
\* However requests overlap, fail, are retried or are cut off, a key hands at most
\* one message of a mailbox to the SMTP server (reserveSendOperation).
THEOREM SentAtMostOnce == Spec => []AtMostOnce
<1>1. Inv => AtMostOnce
  BY DEF Inv, HandedIsRecorded, AtMostOnce
<1> QED BY <1>1, Invariant, PTL

\* A confirmation that can be spent fits the draft and the policy as they are now
\* (createSendConfirmation, updateDraft, setSendPolicy).
THEOREM ConfirmedIsCurrent == Spec => []ConfirmationsAreCurrent
<1>1. Inv => ConfirmationsAreCurrent
  BY DEF Inv, ConfirmationsFit, ConfirmationsAreCurrent, Editable
<1> QED BY <1>1, Invariant, PTL

\* A finished operation carries the answer given to its own mailbox
\* (completeSendOperation).
THEOREM OutcomeIsTrue == Spec => []OutcomeIsServersAnswer
<1>1. Inv => OutcomeIsServersAnswer
  BY DEF Inv
<1> QED BY <1>1, Invariant, PTL

\* A replay finds a receipt exactly when the operation is finished, and the same one.
THEOREM ReceiptsAreTrue == Spec => []ReceiptsMatchOperations
<1>1. Inv => ReceiptsMatchOperations
  BY DEF Inv
<1> QED BY <1>1, Invariant, PTL

\* Drafts and operations go with their mailbox, whatever old requests still do.
THEOREM NothingLeftBehind == Spec => []NothingOutlivesItsMailbox
<1>1. Inv => NothingOutlivesItsMailbox
  BY DEF Inv, RowsRefer, NothingOutlivesItsMailbox, HasOperation, Live
<1> QED BY <1>1, Invariant, PTL

\* A draft shown as sent has a receipt in which somebody was accepted (markDraftSent).
THEOREM SentWasAccepted == Spec => []SentDraftsWereAccepted
<1>1. Inv => SentDraftsWereAccepted
  BY DEF Inv
<1> QED BY <1>1, Invariant, PTL

\* What a step may do to a settled operation and to a draft without one.
LEMMA OperationsStep ==
  ASSUME Inv, [Next]_vars, NEW k \in Keys
  PROVE  \/ operation'[k].state = operation[k].state
         \/ operation[k].state = "submitting"
         \/ operation'[k] = NoOperation /\ mailbox'[operation[k].mailbox] = "deleted"
         \/ \E c \in Callers :
              \/ \E d \in Drafts : SendDraft(c, d)
              \/ \E j \in DirectKeys, m \in Mailboxes, p \in Payloads : SendDirect(c, j, m, p)
<1> USE DEF Inv
<1>1. ASSUME NEW M \in SUBSET Mailboxes, Cascade(M)
      PROVE  \/ operation'[k].state = operation[k].state
             \/ operation'[k] = NoOperation /\ mailbox'[operation[k].mailbox] = "deleted"
  BY <1>1, CascadeEffect
<1>2. ASSUME NEW c \in Callers, DeliveryFails(c) \/ CompleteFails(c)
      PROVE  operation'[k].state = operation[k].state \/ operation[k].state = "submitting"
  <2>1. request[c].key \in Keys /\ MarkUnknown(request[c].key)
    BY <1>2 DEF Typed, RequestsAreComplete, DeliveryFails, CompleteFails
  <2> QED BY <2>1, MarkUnknownEffect
<1>3. ASSUME NEW c \in Callers, CompleteSend(c)
      PROVE  operation'[k] = operation[k] \/ operation[k].state = "submitting"
  BY <1>3, CompleteEffect
<1>4. ASSUME NEW j \in Keys, RateEventAges(j) PROVE operation'[k].state = operation[k].state
  BY <1>4, AgesEffect
<1>5. CASE Settings
  <2>1. (\E M \in SUBSET Mailboxes : Cascade(M)) \/ operation' = operation
    BY <1>5 DEF Settings, CreateMailbox, ConfigureSend, SetSendPolicy, DeleteMailbox, DeleteAll
  <2> QED BY <1>1, <2>1
<1>6. CASE Editing
  BY <1>6 DEF Editing, CreateDraft, UpdateDraft
<1>7. ASSUME NEW c \in Callers, Calling(c)
      PROVE  \/ operation' = operation
             \/ \E d \in Drafts : SendDraft(c, d)
             \/ \E j \in DirectKeys, m \in Mailboxes, p \in Payloads : SendDirect(c, j, m, p)
  BY <1>7 DEF Calling, OpenScope, CloseScope, PrepareDraftSend, SendDraftRefused, stored
<1>8. ASSUME NEW c \in Callers, Delivering(c)
      PROVE  operation'[k].state = operation[k].state \/ operation[k].state = "submitting"
  BY <1>2, <1>3, <1>8 DEF Delivering, HandOver, SmtpAnswers, MarkDraftSent, stored
<1>9. CASE Passing
  BY <1>4, <1>9 DEF Passing, ConfirmationExpires
<1>10. CASE Crash \/ UNCHANGED vars
  BY <1>10 DEF Crash, stored, vars
<1> QED BY <1>5, <1>6, <1>7, <1>8, <1>9, <1>10 DEF Next

\* A settled operation is never reopened nor settled again.
THEOREM SettledForGood == Spec => SettledStaysSettled
<1>1. Inv /\ [Next]_vars =>
        [\A k \in Keys : operation[k].state \in Finished \cup {"unknown"} =>
           \/ operation'[k].state = operation[k].state
           \/ operation'[k] = NoOperation /\ mailbox'[operation[k].mailbox] = "deleted"]_vars
  <2> SUFFICES ASSUME Inv, [Next]_vars, NEW k \in Keys,
                      operation[k].state \in Finished \cup {"unknown"}
               PROVE  \/ operation'[k].state = operation[k].state
                      \/ /\ operation'[k] = NoOperation
                         /\ mailbox'[operation[k].mailbox] = "deleted"
    OBVIOUS
  <2>1. operation[k].state \notin {"none", "submitting"}
    BY DEF Finished
  <2>2. ASSUME NEW c \in Callers,
               \/ \E d \in Drafts : SendDraft(c, d)
               \/ \E j \in DirectKeys, m \in Mailboxes, p \in Payloads : SendDirect(c, j, m, p)
        PROVE  operation'[k].state = operation[k].state
    <3>1. PICK j \in Keys, m \in Mailboxes : Reserves(c, j, m)
      BY <2>2, SendsReserve DEF Inv
    <3> QED BY <2>1, <3>1 DEF Reserves
  <2> QED BY <2>1, <2>2, OperationsStep
<1> QED BY <1>1, Invariant, PTL DEF Spec, SettledStaysSettled

\* A draft is reserved only by spending a confirmation made for its present content
\* under the present policy (sendDraft, consumeSendConfirmation).
THEOREM OnlyConfirmedDrafts == Spec => SubmissionsSpendAConfirmation
<1>1. Inv /\ [Next]_vars =>
        [\A d \in Drafts : ~HasOperation(d) /\ HasOperation(d)' =>
           /\ confirmation[d].state = "ready"
           /\ confirmation'[d].state = "used"
           /\ operation'[d].payload = confirmation[d].payload
           /\ draft[d].version = confirmation[d].version
           /\ policy[draft[d].mailbox].version = confirmation[d].policyVersion]_vars
  <2> SUFFICES ASSUME Inv, [Next]_vars, NEW d \in Drafts, ~HasOperation(d), HasOperation(d)'
               PROVE  /\ confirmation[d].state = "ready"
                      /\ confirmation'[d].state = "used"
                      /\ operation'[d].payload = confirmation[d].payload
                      /\ draft[d].version = confirmation[d].version
                      /\ policy[draft[d].mailbox].version = confirmation[d].policyVersion
    OBVIOUS
  <2>1. d \in Keys /\ d \notin DirectKeys /\ operation'[d].state # operation[d].state
    BY KeysAreDisjoint DEF Keys, HasOperation
  <2>2. operation[d].state = "none" /\ operation'[d] # NoOperation
    BY DEF HasOperation, NoOperation
  <2>3. PICK c \in Callers :
          \/ \E e \in Drafts : SendDraft(c, e)
          \/ \E j \in DirectKeys, m \in Mailboxes, p \in Payloads : SendDirect(c, j, m, p)
    BY <2>1, <2>2, OperationsStep
  <2>4. ASSUME NEW j \in DirectKeys, NEW m \in Mailboxes, NEW p \in Payloads,
               SendDirect(c, j, m, p)
        PROVE  FALSE
    BY <2>1, <2>4 DEF SendDirect, Reserve, Inv, Typed, TypeOK
  <2>5. ASSUME NEW e \in Drafts, e # d, SendDraft(c, e) PROVE FALSE
    BY <2>1, <2>5 DEF SendDraft, Reserve, Inv, Typed, TypeOK
  <2>6. SendDraft(c, d)
    BY <2>3, <2>4, <2>5
  <2>7. ConfirmationValid(d) /\ operation'[d].payload = draft[d].payload
    BY <2>1, <2>6 DEF SendDraft, SendDraftAdmitted, Reserve, Inv, Typed, TypeOK
  <2>8. confirmation'[d].state = "used"
    BY <2>6 DEF SendDraft, Inv, Typed, TypeOK, Confirmation
  <2> QED BY <2>7, <2>8 DEF ConfirmationValid
<1> QED BY <1>1, Invariant, PTL DEF Spec, SubmissionsSpendAConfirmation
----------------------------------------------------------------------------
\* The limits.  sendUsage counts rows; a step records one operation at most, and an operation
\* only grows older, so that the rows to count are finite however many keys there are.

Recorded         == {k \in Keys : HasOperation(k)}
Counted(m, ages) == {k \in Keys : /\ HasOperation(k)
                                  /\ operation[k].mailbox = m
                                  /\ operation[k].age \in ages}
Counting == Typed /\ IsFiniteSet(Recorded)

\* An operation that is there was there before, for the same mailbox, and has not become younger.
Matures(k) ==
  HasOperation(k)' =>
    /\ HasOperation(k)
    /\ operation'[k].mailbox = operation[k].mailbox
    /\ operation'[k].age = "hour" => operation[k].age = "hour"

LEMMA OperationsMature ==
  ASSUME Typed, [Next]_vars
  PROVE  \/ \A k \in Keys : Matures(k)
         \/ \E c \in Callers, k \in Keys, m \in Mailboxes, p \in Payloads \cup {None} :
              Reserve(c, k, m, p) /\ policy' = policy
<1>1. ASSUME UNCHANGED operation PROVE \A k \in Keys : Matures(k)
  BY <1>1 DEF Matures, HasOperation
<1>2. ASSUME NEW M, Cascade(M) PROVE \A k \in Keys : Matures(k)
  BY <1>2 DEF Matures, HasOperation, Cascade, NoOperation
<1>3. ASSUME NEW j \in Keys, MarkUnknown(j) PROVE \A k \in Keys : Matures(k)
  BY <1>3 DEF Matures, HasOperation, MarkUnknown, Typed, TypeOK, Operation
<1>4. ASSUME NEW c \in Callers, CompleteSend(c) PROVE \A k \in Keys : Matures(k)
  <2>1. /\ request[c].key \in Keys /\ operation[request[c].key].state = "submitting"
        /\ operation' = [operation EXCEPT ![request[c].key].state = request[c].result]
    BY <1>4, CompleteEffect DEF CompleteSend
  <2> QED BY <2>1 DEF Matures, HasOperation, Typed, TypeOK, Operation
<1>5. ASSUME NEW j \in Keys, RateEventAges(j) PROVE \A k \in Keys : Matures(k)
  <2> SUFFICES ASSUME NEW k \in Keys PROVE Matures(k)
    OBVIOUS
  <2>1. /\ operation'[k].state = operation[k].state
        /\ operation'[k].mailbox = operation[k].mailbox
    BY <1>5, AgesEffect
  <2>2. operation'[k].age = "hour" => operation[k].age = "hour"
    BY <1>5 DEF RateEventAges, Typed, TypeOK, Operation
  <2> QED BY <2>1, <2>2 DEF Matures, HasOperation
<1>6. CASE Settings
  <2>1. (\E M \in SUBSET Mailboxes : Cascade(M)) \/ operation' = operation
    BY <1>6 DEF Settings, CreateMailbox, ConfigureSend, SetSendPolicy, DeleteMailbox, DeleteAll
  <2> QED BY <1>1, <1>2, <2>1
<1>7. CASE Editing
  BY <1>1, <1>7 DEF Editing, CreateDraft, UpdateDraft
<1>8. ASSUME NEW c \in Callers, NEW d \in Drafts, SendDraft(c, d)
      PROVE  \E k \in Keys, m \in Mailboxes, p \in Payloads \cup {None} :
               Reserve(c, k, m, p) /\ policy' = policy
  <2>1. /\ Reserve(c, d, draft[d].mailbox, draft[d].payload) /\ policy' = policy
        /\ draft[d].mailbox \in request[c].scope
    BY <1>8 DEF SendDraft, SendDraftAdmitted
  <2>2. draft[d].mailbox \in Mailboxes /\ draft[d].payload \in Payloads \cup {None} /\ d \in Keys
    BY <2>1 DEF Typed, TypeOK, Request, Draft, Keys
  <2> QED BY <2>1, <2>2
<1>9. ASSUME NEW c \in Callers, Calling(c)
      PROVE  \/ UNCHANGED operation
             \/ \E k \in Keys, m \in Mailboxes, p \in Payloads \cup {None} :
                  Reserve(c, k, m, p) /\ policy' = policy
  <2>1. ASSUME NEW k \in DirectKeys, NEW m \in Mailboxes, NEW p \in Payloads, SendDirect(c, k, m, p)
        PROVE  \E j \in Keys, n \in Mailboxes, q \in Payloads \cup {None} :
                 Reserve(c, j, n, q) /\ policy' = policy
    BY <2>1 DEF SendDirect, Keys
  <2>2. CASE OpenScope(c) \/ CloseScope(c)
    BY <2>2 DEF OpenScope, CloseScope, stored
  <2>3. ASSUME NEW d \in Drafts, PrepareDraftSend(c, d) \/ SendDraftRefused(c, d)
        PROVE  UNCHANGED operation
    BY <2>3 DEF PrepareDraftSend, SendDraftRefused
  <2> QED BY <1>8, <1>9, <2>1, <2>2, <2>3 DEF Calling
<1>10. ASSUME NEW c \in Callers, Delivering(c) PROVE \A k \in Keys : Matures(k)
  <2>1. CASE HandOver(c) \/ (\E r \in Finished : SmtpAnswers(c, r)) \/ MarkDraftSent(c)
    BY <1>1, <2>1 DEF HandOver, SmtpAnswers, MarkDraftSent, stored
  <2>2. CASE DeliveryFails(c) \/ CompleteFails(c)
    <3>1. request[c].key \in Keys /\ MarkUnknown(request[c].key)
      BY <2>2 DEF Typed, RequestsAreComplete, DeliveryFails, CompleteFails
    <3> QED BY <1>3, <3>1
  <2> QED BY <1>4, <1>10, <2>1, <2>2 DEF Delivering
<1>11. CASE Passing
  BY <1>1, <1>5, <1>11 DEF Passing, ConfirmationExpires
<1>12. CASE Crash \/ UNCHANGED vars
  BY <1>1, <1>12 DEF Crash, stored, vars
<1> QED BY <1>6, <1>7, <1>1, <1>9, <1>10, <1>11, <1>12 DEF Next

\* A reservation is counted for its mailbox, and nowhere else.
LEMMA ReservedIsCounted ==
  ASSUME Typed, NEW c \in Callers, NEW k \in Keys, NEW m \in Mailboxes,
         NEW p \in Payloads \cup {None}, Reserve(c, k, m, p)
  PROVE  /\ Recorded' = Recorded \cup {k}
         /\ \A ages : "hour" \in ages =>
              k \notin Counted(m, ages) /\ Counted(m, ages)' = Counted(m, ages) \cup {k}
         /\ \A n \in Mailboxes \ {m} : \A ages : Counted(n, ages)' = Counted(n, ages)
<1>1. /\ operation \in [Keys -> Operation] /\ ~HasOperation(k)
      /\ operation' = [operation EXCEPT ![k] = [state |-> "submitting", mailbox |-> m,
                                                payload |-> p, age |-> "hour"]]
  BY DEF Reserve, Typed, TypeOK
<1>2. /\ HasOperation(k)' /\ operation'[k].mailbox = m /\ operation'[k].age = "hour"
      /\ \A j \in Keys \ {k} : operation'[j] = operation[j]
  BY <1>1 DEF HasOperation
<1>3. \A j \in Keys \ {k} : HasOperation(j)' <=> HasOperation(j)
  BY <1>2 DEF HasOperation
<1>4. Recorded' = Recorded \cup {k}
  BY <1>2, <1>3 DEF Recorded
<1>5. ASSUME NEW ages, "hour" \in ages
      PROVE  k \notin Counted(m, ages) /\ Counted(m, ages)' = Counted(m, ages) \cup {k}
  BY <1>1, <1>2, <1>3, <1>5 DEF Counted
<1>6. ASSUME NEW n \in Mailboxes \ {m}, NEW ages PROVE Counted(n, ages)' = Counted(n, ages)
  BY <1>1, <1>2, <1>3 DEF Counted
<1> QED BY <1>4, <1>5, <1>6

LEMMA CountedAreFinite ==
  ASSUME Counting, NEW m, NEW ages
  PROVE  IsFiniteSet(Counted(m, ages)) /\ Cardinality(Counted(m, ages)) \in Nat
<1>1. Counted(m, ages) \subseteq Recorded
  BY DEF Counted, Recorded
<1> QED BY <1>1, FS_Subset, FS_CardinalityType DEF Counting

LEMMA CountingStep == Counting /\ [Next]_vars => Counting'
<1> SUFFICES ASSUME Counting, [Next]_vars PROVE Counting'
  OBVIOUS
<1>1. Typed'
  BY NextTyped DEF Counting
<1>2. CASE \A k \in Keys : Matures(k)
  <2>1. Recorded' \subseteq Recorded
    BY <1>2 DEF Matures, Recorded
  <2> QED BY <1>1, <2>1, FS_Subset DEF Counting
<1>3. ASSUME NEW c \in Callers, NEW k \in Keys, NEW m \in Mailboxes, NEW p \in Payloads \cup {None},
             Reserve(c, k, m, p)
      PROVE  Counting'
  <2>1. Recorded' = Recorded \cup {k}
    BY <1>3, ReservedIsCounted DEF Counting
  <2>2. IsFiniteSet(Recorded \cup {k})
    BY FS_AddElement DEF Counting
  <2> QED BY <1>1, <2>1, <2>2 DEF Counting
<1> QED BY <1>2, <1>3, OperationsMature DEF Counting

LEMMA AlwaysCounting == Spec => []Counting
<1>1. Init => Counting
  <2> SUFFICES ASSUME Init PROVE Counting
    OBVIOUS
  <2>1. Recorded = {}
    BY DEF Init, Recorded, HasOperation, NoOperation
  <2> QED BY <2>1, InitTyped, FS_EmptySet DEF Counting
<1> QED BY <1>1, CountingStep, PTL DEF Spec

\* No reservation takes a mailbox over the limits of its policy: evaluateSendPolicy and
\* reserveSendOperation count before the row is inserted, in one synchronous step, so that
\* overlapping requests cannot share the last place; for any number of keys and any limits.
THEOREM LimitsAreKept == Spec => RateLimitsHold
<1> DEFINE Kept(m) == Usage(m, {"hour"})' > Usage(m, {"hour"}) =>
                        /\ Usage(m, {"hour"})' <= policy[m].perHour
                        /\ Usage(m, {"hour", "day"})' <= policy[m].perDay
<1>1. ASSUME Counting, [Next]_vars, NEW m \in Mailboxes PROVE Kept(m)
  <2>1. \A ages : /\ Usage(m, ages) = Cardinality(Counted(m, ages))
                  /\ Usage(m, ages) \in Nat /\ IsFiniteSet(Counted(m, ages))
                  /\ Usage(m, ages)' = Cardinality(Counted(m, ages)')
    BY <1>1, CountedAreFinite DEF Usage, Counted
  <2>2. CASE \A k \in Keys : Matures(k)
    <3>1. Counted(m, {"hour"})' \subseteq Counted(m, {"hour"})
      BY <2>2 DEF Matures, Counted
    <3>2. /\ Cardinality(Counted(m, {"hour"})') <= Cardinality(Counted(m, {"hour"}))
          /\ Cardinality(Counted(m, {"hour"})') \in Nat
      BY <2>1, <3>1, FS_Subset, FS_CardinalityType
    <3>3. ~(Usage(m, {"hour"})' > Usage(m, {"hour"}))
      BY <2>1, <3>2
    <3> QED BY <3>3
  <2>3. ASSUME NEW c \in Callers, NEW k \in Keys, NEW n \in Mailboxes, NEW p \in Payloads \cup {None},
               Reserve(c, k, n, p)
        PROVE  Kept(m)
    <3>1. CASE m = n
      <4>1. \A ages : "hour" \in ages => Usage(m, ages)' = Usage(m, ages) + 1
        BY <1>1, <2>1, <2>3, <3>1, ReservedIsCounted, FS_AddElement DEF Counting
      <4>2. Usage(m, {"hour"}) < policy[m].perHour /\ Usage(m, {"hour", "day"}) < policy[m].perDay
        BY <2>3, <3>1 DEF Reserve, WithinLimits
      <4>3. policy[m].perHour \in Nat /\ policy[m].perDay \in Nat
        BY <1>1 DEF Counting, Typed, TypeOK, Policy
      <4> QED BY <2>1, <4>1, <4>2, <4>3
    <3>2. CASE m # n
      <4>1. Usage(m, {"hour"})' = Usage(m, {"hour"})
        BY <1>1, <2>1, <2>3, <3>2, ReservedIsCounted DEF Counting
      <4> QED BY <2>1, <4>1
    <3> QED BY <3>1, <3>2
  <2> QED BY <1>1, <2>2, <2>3, OperationsMature DEF Counting
<1>2. Counting /\ [Next]_vars => [\A m \in Mailboxes : Kept(m)]_vars
  BY <1>1
<1> QED BY <1>2, AlwaysCounting, PTL DEF Spec, RateLimitsHold

----------------------------------------------------------------------------
\* SafeSend implements SubmissionLedger.  Each step of the pipeline is a step of the ledger or
\* leaves it alone: a send reserves, sendMail hands over, the end of a delivery settles or gives
\* up, a stop of the process gives up every ticket, and the deletion of mailboxes retires their
\* owners.

\* The ledger's variables, as functions of the pipeline's.
Entry   == [k \in Keys |-> [state |-> operation[k].state, owner |-> operation[k].mailbox]]
Tickets == {<<request[c].key, request[c].mailbox>> :
              c \in {c \in Callers : request[c].pc = "connecting"}}
Retired == {m \in Mailboxes : mailbox[m] = "deleted"}

LEMMA TicketsAreConnecting ==
  \A t : t \in Tickets <=>
    \E c \in Callers : request[c].pc = "connecting" /\ t = <<request[c].key, request[c].mailbox>>
BY DEF Tickets

LEMMA TicketsAreConnectingNext ==
  \A t : t \in Tickets' <=>
    \E c \in Callers : /\ request'[c].pc = "connecting"
                       /\ t = <<request'[c].key, request'[c].mailbox>>
BY DEF Tickets

LEMMA EntryOf ==
  ASSUME NEW k \in Keys
  PROVE  /\ Entry[k].state = operation[k].state
         /\ Entry[k].owner = operation[k].mailbox
         /\ Entry'[k].state = operation'[k].state
         /\ Entry'[k].owner = operation'[k].mailbox
BY DEF Entry

\* A request that stops connecting takes its own ticket along and no other.
LEMMA TicketLeaves ==
  ASSUME Inv, NEW c \in Callers,
         request[c].pc = "connecting",
         request'[c].pc # "connecting",
         \A b \in Callers \ {c} : request'[b] = request[b]
  PROVE  Tickets' = Tickets \ {<<request[c].key, request[c].mailbox>>}
<1>1. request[c].key \in Keys /\ request[c].mailbox \in Mailboxes
  BY DEF Inv, Typed, RequestsAreComplete
<1>2. \A b \in Callers :
        /\ request[b].pc = "connecting"
        /\ request[b].key = request[c].key
        /\ request[b].mailbox = request[c].mailbox
        => b = c
  BY <1>1 DEF Inv, RequestsOwnRows, Delivers
<1> QED BY <1>2, TicketsAreConnecting, TicketsAreConnectingNext

LEMMA TicketsStay ==
  ASSUME \A c \in Callers :
           \/ request'[c] = request[c]
           \/ request[c].pc # "connecting" /\ request'[c].pc # "connecting"
  PROVE  Tickets' = Tickets
<1>1. \A t : t \in Tickets' <=> t \in Tickets
  BY TicketsAreConnecting, TicketsAreConnectingNext
<1> QED BY <1>1

LEMMA EntriesStay ==
  ASSUME \A k \in Keys : /\ operation'[k].state = operation[k].state
                         /\ operation'[k].mailbox = operation[k].mailbox
  PROVE  Entry' = Entry
BY DEF Entry

\* One entry is settled.
LEMMA EntrySettled ==
  ASSUME NEW k \in Keys, NEW outcome,
         operation'[k].state = outcome,
         operation'[k].mailbox = operation[k].mailbox,
         \A j \in Keys \ {k} : operation'[j] = operation[j]
  PROVE  Entry' = [Entry EXCEPT ![k].state = outcome]
<1>1. Entry'[k] = [Entry[k] EXCEPT !.state = outcome]
  BY DEF Entry
<1>2. \A j \in Keys \ {k} : Entry'[j] = Entry[j]
  BY DEF Entry
<1> QED BY <1>1, <1>2 DEF Entry

LEMMA RetiredStays ==
  ASSUME \/ mailbox' = mailbox
         \/ \E m \in Mailboxes, on \in BOOLEAN : CreateMailbox(m, on), TypeOK
  PROVE  Retired' = Retired
BY DEF Retired, CreateMailbox, TypeOK

LEMMA InitImplements == Init => Ledger!Init
<1> SUFFICES ASSUME Init PROVE Ledger!Init
  OBVIOUS
<1>1. Entry = [k \in Keys |-> [state |-> "none", owner |-> None]]
  BY DEF Init, NoOperation, Entry
<1>2. Tickets = {}
  BY DEF Init, NoRequest, Tickets
<1>3. Retired = {}
  BY DEF Init, Retired
<1> QED BY <1>1, <1>2, <1>3 DEF Init, Ledger!Init, Ledger!Free, Entry, Tickets, Retired

\* The mailboxes M are retired with all their entries.
LEMMA CascadeRetires ==
  ASSUME Inv, NEW M \in SUBSET Mailboxes, Cascade(M), UNCHANGED <<request, handed>>
  PROVE  Ledger!Retire(M)
<1>1. Entry' = [k \in Keys |-> IF Entry[k].owner \in M THEN Ledger!Free ELSE Entry[k]]
  BY CascadeEffect DEF Inv, Entry, NoOperation, Ledger!Free
<1>2. Retired' = Retired \cup M
  BY CascadeEffect DEF Inv, Retired
<1>3. Tickets' = Tickets
  BY DEF Tickets
<1> QED BY <1>1, <1>2, <1>3 DEF Ledger!Retire, Entry, Tickets, Retired

LEMMA ReserveImplements ==
  ASSUME Inv, NEW c \in Callers, NEW k \in Keys, NEW m \in Mailboxes, Reserves(c, k, m),
         request[c].pc = "open"
  PROVE  Ledger!Reserve(k, m)
<1> USE DEF Reserves
<1>1. Entry[k] = Ledger!Free
  BY DEF Inv, RowsRefer, Entry, Ledger!Free
<1>2. m \notin Retired
  BY DEF Retired
<1>3. Entry' = [Entry EXCEPT ![k] = [state |-> "submitting", owner |-> m]]
  <2>1. Entry'[k] = [state |-> "submitting", owner |-> m]
    BY DEF Entry
  <2>2. \A j \in Keys \ {k} : Entry'[j] = Entry[j]
    BY DEF Entry
  <2> QED BY <2>1, <2>2 DEF Entry
<1>4. Tickets' = Tickets \cup {<<k, m>>}
  <2>1. \A t : t \in Tickets' <=> t \in Tickets \/ t = <<k, m>>
    BY TicketsAreConnecting, TicketsAreConnectingNext
  <2> QED BY <2>1
<1>5. Retired' = Retired /\ handed' = handed
  BY DEF Retired
<1> QED BY <1>1, <1>2, <1>3, <1>4, <1>5 DEF Ledger!Reserve, Entry, Tickets, Retired

LEMMA HandOverImplements ==
  ASSUME Inv, NEW c \in Callers, HandOver(c)
  PROVE  \E k \in Keys, m \in Mailboxes : Ledger!HandOver(k, m)
<1>k. PICK k \in Keys, m \in Mailboxes : k = request[c].key /\ m = request[c].mailbox
  BY DEF Inv, Typed, RequestsAreComplete, HandOver
<1>1. request[c].pc = "connecting" /\ <<k, m>> \in Tickets
  BY <1>k, TicketsAreConnecting DEF HandOver
<1>2. Tickets' = Tickets \ {<<k, m>>}
  <2>1. request'[c].pc # "connecting" /\ \A b \in Callers \ {c} : request'[b] = request[b]
    BY DEF HandOver, Inv, Typed, TypeOK, Request
  <2> QED BY <1>k, <1>1, <2>1, TicketLeaves
<1>3. handed' = [handed EXCEPT ![k][m] = handed[k][m] + 1]
  BY <1>k DEF HandOver
<1>4. Entry' = Entry /\ Retired' = Retired
  BY DEF HandOver, stored, Entry, Retired
<1> QED BY <1>1, <1>2, <1>3, <1>4 DEF Ledger!HandOver, Entry, Tickets, Retired

\* A delivery that fails settles its entry or gives its ticket up.
LEMMA FailureImplements ==
  ASSUME Inv, NEW c \in Callers, DeliveryFails(c) \/ CompleteFails(c)
  PROVE  \/ \E k \in Keys : Ledger!Settle(k, "unknown")
         \/ \E lost \in SUBSET Tickets : Ledger!GiveUp(lost)
<1>k. PICK k \in Keys, m \in Mailboxes : k = request[c].key /\ m = request[c].mailbox
  BY DEF Inv, Typed, RequestsAreComplete, DeliveryFails, CompleteFails
<1>1. MarkUnknown(k) /\ UNCHANGED <<mailbox, handed>>
  BY <1>k DEF DeliveryFails, CompleteFails, history
<1>2. request'[c].pc = "open" /\ \A b \in Callers \ {c} : request'[b] = request[b]
  <2>1. ~CompleteSend(c)
    BY DEF DeliveryFails, CompleteFails, CompleteSend
  <2> QED BY <2>1, ReturnEffect DEF Inv
<1>3. Tickets' = Tickets \/ (<<k, m>> \in Tickets /\ Tickets' = Tickets \ {<<k, m>>})
  <2>1. CASE request[c].pc = "connecting"
    <3>1. <<k, m>> \in Tickets
      BY <1>k, <2>1, TicketsAreConnecting
    <3> QED BY <1>k, <1>2, <2>1, <3>1, TicketLeaves
  <2>2. CASE request[c].pc # "connecting"
    BY <1>2, <2>2, TicketsStay
  <2> QED BY <2>1, <2>2
<1>4. Retired' = Retired
  BY <1>1 DEF Retired
<1>5. CASE operation[k].state = "submitting"
  <2>1. /\ operation'[k].state = "unknown"
        /\ operation'[k].mailbox = operation[k].mailbox
        /\ \A j \in Keys \ {k} : operation'[j] = operation[j]
    BY <1>1, <1>5 DEF MarkUnknown, Inv, Typed, TypeOK, Operation
  <2>2. Entry' = [Entry EXCEPT ![k].state = "unknown"]
    BY <1>1, <2>1, EntrySettled
  <2>3. Entry[k].state = "submitting"
    BY <1>1, <1>5, EntryOf
  <2> QED BY <1>1, <1>3, <1>4, <2>2, <2>3 DEF Ledger!Settle, Entry, Tickets, Retired
<1>6. CASE operation[k].state # "submitting"
  <2>1. Entry' = Entry
    BY <1>1, <1>6 DEF MarkUnknown, Entry
  <2>2. \E lost \in SUBSET Tickets : Tickets' = Tickets \ lost
    BY <1>3
  <2> QED BY <1>1, <1>4, <2>1, <2>2 DEF Ledger!GiveUp, Entry, Tickets, Retired
<1> QED BY <1>5, <1>6

LEMMA CompleteImplements ==
  ASSUME Inv, NEW c \in Callers, CompleteSend(c)
  PROVE  \E k \in Keys, r \in Finished : Ledger!Settle(k, r)
<1>k. PICK k \in Keys, r \in Finished : k = request[c].key /\ r = request[c].result
  BY CompleteEffect DEF Inv
<1>1. /\ request[c].pc = "answered"
      /\ operation[k].state = "submitting"
      /\ operation'[k].state = r
      /\ operation'[k].mailbox = operation[k].mailbox
      /\ \A j \in Keys \ {k} : operation'[j] = operation[j]
  BY <1>k, CompleteEffect DEF Inv
<1>2. request'[c].pc # "connecting" /\ \A b \in Callers \ {c} : request'[b] = request[b]
  BY ReturnEffect DEF Inv
<1>3. Tickets' = Tickets
  BY <1>1, <1>2, TicketsStay
<1>4. Entry' = [Entry EXCEPT ![k].state = r]
  BY <1>1, EntrySettled
<1>5. Entry[k].state = "submitting"
  BY <1>1, EntryOf
<1>6. Retired' = Retired /\ handed' = handed
  BY DEF CompleteSend, history, Retired
<1> QED BY <1>3, <1>4, <1>5, <1>6 DEF Ledger!Settle, Entry, Tickets, Retired

\* The steps the ledger does not see.
LEMMA Stutters ==
  ASSUME UNCHANGED handed, Entry' = Entry, Tickets' = Tickets, Retired' = Retired
  PROVE  UNCHANGED Ledger!vars
BY DEF Ledger!vars, Entry, Tickets, Retired

LEMMA NextImplements == Inv /\ [Next]_vars => [Ledger!Next]_(Ledger!vars)
<1> SUFFICES ASSUME Inv, [Next]_vars PROVE Ledger!Next \/ UNCHANGED Ledger!vars
  OBVIOUS
<1>1. CASE Settings
  <2>1. ASSUME NEW m \in Mailboxes, NEW on \in BOOLEAN,
               CreateMailbox(m, on) \/ ConfigureSend(m, on)
        PROVE  UNCHANGED Ledger!vars
    <3>1. UNCHANGED <<operation, request, handed>>
      BY <2>1 DEF CreateMailbox, ConfigureSend, history
    <3>2. Retired' = Retired
      BY <2>1, RetiredStays DEF ConfigureSend, Inv, Typed
    <3> QED BY <3>1, <3>2, Stutters DEF Entry, Tickets
  <2>2. ASSUME NEW m \in Mailboxes, NEW input \in PolicyInputs, SetSendPolicy(m, input)
        PROVE  UNCHANGED Ledger!vars
    BY <2>2, Stutters DEF SetSendPolicy, Entry, Tickets, Retired, history
  <2>3. ASSUME NEW M \in SUBSET Mailboxes, Cascade(M), UNCHANGED <<request, handed>>
        PROVE  Ledger!Next
    BY <2>3, CascadeRetires DEF Ledger!Next
  <2>4. ASSUME NEW m \in Mailboxes, DeleteMailbox(m) PROVE Ledger!Next
    BY <2>3, <2>4 DEF DeleteMailbox, history
  <2>5. ASSUME DeleteAll PROVE Ledger!Next
    BY <2>3, <2>5 DEF DeleteAll, history
  <2> QED BY <1>1, <2>1, <2>2, <2>4, <2>5 DEF Settings
<1>2. CASE Editing
  BY <1>2, Stutters DEF Editing, CreateDraft, UpdateDraft, Entry, Tickets, Retired, history
<1>3. ASSUME NEW c \in Callers, Calling(c) PROVE Ledger!Next \/ UNCHANGED Ledger!vars
  <2>1. CASE OpenScope(c) \/ CloseScope(c)
    <3>1. UNCHANGED <<mailbox, operation, handed>>
      BY <2>1 DEF OpenScope, CloseScope, stored, history
    <3>2. /\ request[c].pc # "connecting" /\ request'[c].pc # "connecting"
          /\ \A b \in Callers \ {c} : request'[b] = request[b]
      <4>1. CASE OpenScope(c)
        BY <4>1 DEF OpenScope, Inv, Typed, TypeOK
      <4>2. CASE CloseScope(c)
        BY <4>2 DEF CloseScope, NoRequest, Inv, Typed, TypeOK
      <4> QED BY <2>1, <4>1, <4>2
    <3>3. Tickets' = Tickets
      BY <3>2, TicketsStay
    <3> QED BY <3>1, <3>3, Stutters DEF Entry, Retired
  <2>2. ASSUME NEW d \in Drafts, PrepareDraftSend(c, d) \/ SendDraftRefused(c, d)
        PROVE  UNCHANGED Ledger!vars
    BY <2>2, Stutters
    DEF PrepareDraftSend, SendDraftRefused, Entry, Tickets, Retired, history
  <2>3. CASE \/ \E d \in Drafts : SendDraft(c, d)
             \/ \E k \in DirectKeys, m \in Mailboxes, p \in Payloads : SendDirect(c, k, m, p)
    <3>1. PICK k \in Keys, m \in Mailboxes : Reserves(c, k, m)
      BY <2>3, SendsReserve DEF Inv
    <3>2. request[c].pc = "open"
      BY <2>3 DEF SendDraft, SendDraftAdmitted, SendDirect
    <3>3. Ledger!Reserve(k, m)
      BY <3>1, <3>2, ReserveImplements
    <3> QED BY <3>3 DEF Ledger!Next
  <2> QED BY <1>3, <2>1, <2>2, <2>3 DEF Calling
<1>4. ASSUME NEW c \in Callers, Delivering(c) PROVE Ledger!Next \/ UNCHANGED Ledger!vars
  <2>1. CASE HandOver(c)
    BY <2>1, HandOverImplements DEF Ledger!Next
  <2>2. ASSUME NEW r \in Finished, SmtpAnswers(c, r) PROVE UNCHANGED Ledger!vars
    <3>1. /\ request[c].pc # "connecting" /\ request'[c].pc # "connecting"
          /\ \A b \in Callers \ {c} : request'[b] = request[b]
      BY <2>2 DEF SmtpAnswers, Inv, Typed, TypeOK, Request
    <3>2. Tickets' = Tickets
      BY <3>1, TicketsStay
    <3> QED BY <2>2, <3>2, Stutters DEF SmtpAnswers, stored, Entry, Retired
  <2>3. CASE DeliveryFails(c) \/ CompleteFails(c)
    BY <2>3, FailureImplements DEF Ledger!Next, Tickets
  <2>4. CASE CompleteSend(c)
    BY <2>4, CompleteImplements DEF Ledger!Next
  <2>5. CASE MarkDraftSent(c)
    <3>1. /\ request[c].pc # "connecting" /\ request'[c].pc # "connecting"
          /\ \A b \in Callers \ {c} : request'[b] = request[b]
      BY <2>5, ReturnEffect DEF MarkDraftSent, Inv
    <3>2. Tickets' = Tickets
      BY <3>1, TicketsStay
    <3> QED BY <2>5, <3>2, Stutters DEF MarkDraftSent, history, Entry, Retired
  <2> QED BY <1>4, <2>1, <2>2, <2>3, <2>4, <2>5 DEF Delivering
<1>5. CASE Passing
  <2>1. ASSUME NEW d \in Drafts, ConfirmationExpires(d) PROVE UNCHANGED Ledger!vars
    BY <2>1, Stutters DEF ConfirmationExpires, Entry, Tickets, Retired, history
  <2>2. ASSUME NEW k \in Keys, RateEventAges(k) PROVE UNCHANGED Ledger!vars
    <3>1. Entry' = Entry
      BY <2>2, AgesEffect, EntriesStay DEF Inv
    <3> QED BY <2>2, <3>1, Stutters DEF RateEventAges, Tickets, Retired, history
  <2> QED BY <1>5, <2>1, <2>2 DEF Passing
<1>6. CASE Crash
  <2>1. Tickets' = {}
    BY <1>6 DEF Crash, NoRequest, Tickets
  <2>2. UNCHANGED <<mailbox, operation, handed>>
    BY <1>6 DEF Crash, stored, history
  <2>3. PICK lost \in SUBSET Tickets : lost = Tickets
    OBVIOUS
  <2>4. Ledger!GiveUp(lost)
    BY <2>1, <2>2, <2>3 DEF Ledger!GiveUp, Entry, Tickets, Retired
  <2> QED BY <2>4 DEF Ledger!Next, Tickets
<1>7. CASE UNCHANGED vars
  BY <1>7, Stutters DEF vars, Entry, Tickets, Retired
<1> QED BY <1>1, <1>2, <1>3, <1>4, <1>5, <1>6, <1>7 DEF Next

\* The pipeline keeps the promise of the ledger: one reservation per key, spent once,
\* settled once (reserveSendOperation, completeSendOperation, markSendOperationUnknown).
THEOREM PipelineImplementsLedger == Spec => ImplementsLedger
BY InitImplements, NextImplements, Invariant, PTL DEF Spec, ImplementsLedger, Ledger!Spec
===============================================================================
