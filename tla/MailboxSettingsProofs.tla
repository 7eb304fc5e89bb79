------------------------- MODULE MailboxSettingsProofs -------------------------
(***************************************************************************)
(* Theorems about MailboxSettings for any number of widgets, requests,     *)
(* mailboxes and tokens.                                                   *)
(*                                                                         *)
(* They rest on one inductive invariant, `Inv`.  A handler that awaits a   *)
(* test writes later with what it read before, so `Typed` says what a      *)
(* request has with it.  That no token is accepted twice, late or after an *)
(* erasure follows from what the map of sessions holds: tokens never       *)
(* accepted, younger than the erasure, that end with their chain           *)
(* (`SessionsAreFresh`).  `LimitHolds` counts rows, so it carries their    *)
(* finiteness.                                                             *)
(***************************************************************************)
EXTENDS MailboxSettings, FiniteSetTheorems, TLAPS

\* A stored row has settings and credentials.
RowsAreComplete ==
  \A m \in Mailboxes : Live(m) =>
    mailbox[m].settings \in Settings /\ mailbox[m].credentials \in Credentials

\* What a request that has been sent, or that awaits its test, has with it.
SentComplete(r) ==
  /\ r.op \in Operations
  /\ r.op \in {"create", "update"} => r.settings \in Settings
  /\ r.op \in {"create", "replace"} => r.credentials \in Credentials
  /\ r.op \notin {"list", "create", "deleteAll"} => r.mailbox \in Mailboxes
TestComplete(r) ==
  /\ r.settings \in Settings /\ r.credentials \in Credentials
  /\ Tests(r.op)
  /\ r.op # "create" => r.mailbox \in Mailboxes
RequestsAreComplete ==
  \A s \in Slots :
    /\ request[s].state = "sent" => SentComplete(request[s])
    /\ request[s].state = "testing" => TestComplete(request[s])

Typed == TypeOK /\ RowsAreComplete /\ RequestsAreComplete

\* The tokens of sessions were issued, after the last deletion of everything, and never
\* accepted; a session ends no later than the first one of its chain.
SessionsAreFresh ==
  /\ erased <= issued
  /\ \A t \in 1..MaxTokens : accepted[t] # 0 => t <= issued
  /\ \A x \in sessions :
       /\ x.token <= issued
       /\ x.token > erased
       /\ accepted[x.token] = 0
       /\ x.expires <= x.until

Stored == {m \in Mailboxes : Live(m)}

\* The user has no more mailboxes than allowed.
LimitHolds == IsFiniteSet(Stored) /\ Count <= MaxMailboxes

Inv == Typed /\ SessionsAreFresh /\ LimitHolds

LEMMA Bounds == MaxMailboxes \in Nat /\ TTL \in Nat /\ MaxTokens \in Nat /\ MaxTime \in Nat /\ MaxLost \in Nat
BY SettingsBounds

LEMMA NothingTyped ==
  /\ NoRequest \in Request
  /\ Unused \in Row /\ Deleted \in Row
  /\ Unused.state = "unused" /\ Deleted.state = "deleted" /\ NoRequest.state = "none"
<1>1. NoRequest \in Request /\ NoRequest.state = "none"
  BY Bounds DEF NoRequest, Request
<1>2. Unused \in Row /\ Unused.state = "unused"
  BY DEF Unused, Row
<1>3. Deleted \in Row /\ Deleted.state = "deleted"
  BY <1>2 DEF Deleted, Row
<1> QED BY <1>1, <1>2, <1>3

LEMMA InitInv == Init => Inv
<1> SUFFICES ASSUME Init PROVE Inv
  OBVIOUS
<1>1. TypeOK
  BY Bounds, NothingTyped DEF Init, TypeOK
<1>2. Stored = {}
  BY NothingTyped DEF Init, Stored, Live
<1>3. RowsAreComplete /\ RequestsAreComplete
  BY NothingTyped DEF Init, RowsAreComplete, RequestsAreComplete, Live
<1>4. SessionsAreFresh
  BY Bounds DEF Init, SessionsAreFresh
<1>5. LimitHolds
  BY <1>2, Bounds, FS_EmptySet DEF LimitHolds, Count, Stored
<1> QED BY <1>1, <1>3, <1>4, <1>5 DEF Inv, Typed

----------------------------------------------------------------------------
\* Sessions

\* What Issue does, from any subset of the sessions and with an end inside the chain's.
LEMMA IssueKeepsSessions ==
  ASSUME TypeOK, SessionsAreFresh,
         NEW from \in SUBSET sessions, NEW limit \in Nat, NEW until \in Nat,
         ExpiryOf(limit) <= until, Issue(from, limit, until)
  PROVE  /\ issued' = issued + 1 /\ issued' \in 0..MaxTokens
         /\ sessions' \subseteq [token : 1..MaxTokens, expires : Nat, until : Nat]
         /\ \A x \in sessions' : \/ x \in from
                                 \/ x.token = issued + 1 /\ x.expires <= x.until
<1>1. now \in Nat /\ issued \in Nat /\ issued + 1 \in 1..MaxTokens
  BY Bounds DEF TypeOK, Issue
<1>2. ExpiryOf(limit) \in Nat
  BY <1>1, Bounds DEF ExpiryOf, Earlier
<1> DEFINE new == [token |-> issued + 1, expires |-> ExpiryOf(limit), until |-> until]
<1>3. new \in [token : 1..MaxTokens, expires : Nat, until : Nat]
  BY <1>1, <1>2
<1>4. new.token = issued + 1 /\ new.expires <= new.until
  OBVIOUS
<1> HIDE DEF new
<1>5. sessions' = {x \in from : x.expires > now} \cup {new}
  BY DEF Issue, new
<1> QED BY <1>1, <1>3, <1>4, <1>5 DEF TypeOK, Issue

\* The steps that issue nothing and accept nothing.
LEMMA QuietKeepsSessions ==
  ASSUME SessionsAreFresh, UNCHANGED <<issued, accepted, erased>>, sessions' \subseteq sessions
  PROVE  SessionsAreFresh'
BY DEF SessionsAreFresh

\* The token of a request that is accepted is used up, and another one is issued.
LEMMA AuthorizeKeepsSessions ==
  ASSUME TypeOK, SessionsAreFresh, NEW s \in Slots, Authorize(s), erased' = erased
  PROVE  /\ SessionsAreFresh'
         /\ issued' = issued + 1 /\ issued' \in 0..MaxTokens
         /\ sessions' \subseteq [token : 1..MaxTokens, expires : Nat, until : Nat]
         /\ accepted' \in [1..MaxTokens -> Nat]
<1> DEFINE t == request[s].token
<1>1. PICK x \in sessions : x.token = t /\ x.expires > now /\ Issue(Others(t), x.expires, x.until)
  BY DEF Authorize
<1>2. t \in 1..MaxTokens /\ x.expires \in Nat /\ x.until \in Nat /\ x.expires <= x.until
  BY <1>1 DEF TypeOK, SessionsAreFresh
<1>3. ExpiryOf(x.expires) <= x.until
  BY <1>2, Bounds DEF ExpiryOf, Earlier, TypeOK
<1>4. Others(t) \in SUBSET sessions
  BY DEF Others
<1>5. /\ issued' = issued + 1 /\ issued' \in 0..MaxTokens
      /\ sessions' \subseteq [token : 1..MaxTokens, expires : Nat, until : Nat]
      /\ \A y \in sessions' : \/ y \in Others(t)
                              \/ y.token = issued + 1 /\ y.expires <= y.until
  BY <1>1, <1>2, <1>3, <1>4, IssueKeepsSessions
<1>6. accepted' = [accepted EXCEPT ![t] = accepted[t] + 1]
  BY DEF Authorize
<1> HIDE DEF t
<1>7. accepted' \in [1..MaxTokens -> Nat]
  BY <1>2, <1>6 DEF TypeOK
<1>8. issued \in Nat /\ erased \in Nat /\ t <= issued
  BY <1>1 DEF TypeOK, SessionsAreFresh
<1>9. \A u \in 1..MaxTokens : accepted'[u] # 0 => u <= issued'
  BY <1>2, <1>5, <1>6, <1>8 DEF TypeOK, SessionsAreFresh
<1>10. ASSUME NEW y \in sessions'
       PROVE  y.token <= issued' /\ y.token > erased' /\ accepted'[y.token] = 0 /\ y.expires <= y.until
  <2>1. y.token \in 1..MaxTokens
    BY <1>5
  <2>2. CASE y \in Others(t)
    BY <2>1, <2>2, <1>2, <1>5, <1>6, <1>8 DEF Others, TypeOK, SessionsAreFresh
  <2>3. CASE y.token = issued + 1 /\ y.expires <= y.until
    <3>1. accepted[y.token] = 0 /\ y.token # t
      BY <2>1, <2>3, <1>8 DEF TypeOK, SessionsAreFresh
    <3> QED BY <3>1, <2>1, <2>3, <1>2, <1>5, <1>6, <1>8 DEF TypeOK, SessionsAreFresh
  <2> QED BY <2>2, <2>3, <1>5
<1>11. SessionsAreFresh'
  BY <1>5, <1>8, <1>9, <1>10 DEF SessionsAreFresh
<1> QED BY <1>5, <1>7, <1>11

----------------------------------------------------------------------------
\* Rows

\* Fewer mailboxes, or the same, are not too many.
LEMMA FewerAreAllowed ==
  ASSUME LimitHolds, Stored' \subseteq Stored
  PROVE  LimitHolds'
<1>1. IsFiniteSet(Stored') /\ Cardinality(Stored') <= Cardinality(Stored)
  BY FS_Subset DEF LimitHolds
<1>2. Cardinality(Stored') \in Nat /\ Cardinality(Stored) \in Nat
  BY <1>1, FS_CardinalityType DEF LimitHolds
<1> QED BY <1>1, <1>2, Bounds DEF LimitHolds, Count, Stored

\* A row that may be stored does not exceed the limit.
LEMMA StorableIsAllowed ==
  ASSUME LimitHolds, NEW m \in Mailboxes, Storable(m), Stored' = Stored \cup {m}
  PROVE  LimitHolds'
<1>1. m \notin Stored
  BY NothingTyped DEF Storable, Stored, Live
<1>2. IsFiniteSet(Stored') /\ Cardinality(Stored') = Cardinality(Stored) + 1
  BY <1>1, FS_AddElement DEF LimitHolds
<1>3. Cardinality(Stored) \in Nat /\ Cardinality(Stored) < MaxMailboxes
  BY FS_CardinalityType DEF LimitHolds, Storable, Count, Stored
<1> QED BY <1>2, <1>3, Bounds DEF LimitHolds, Count, Stored

\* A row keeps its identifier's past: what was deleted is not stored again.
RowsFollow(old, new) ==
  /\ new \in [Mailboxes -> Row]
  /\ \A m \in Mailboxes : new[m].state = "stored" =>
       new[m].settings \in Settings /\ new[m].credentials \in Credentials
  /\ \A m \in Mailboxes : old[m] = Deleted => new[m] = Deleted

\* A stored row that is written again, complete or deleted.
LEMMA RewrittenFollows ==
  ASSUME Typed, NEW n \in Mailboxes, Live(n), NEW row \in Row,
         row.state = "stored" => row.settings \in Settings /\ row.credentials \in Credentials,
         NEW new, new = [mailbox EXCEPT ![n] = row]
  PROVE  RowsFollow(mailbox, new) /\ \A m \in Mailboxes : new[m].state = "stored" => Live(m)
<1>1. mailbox \in [Mailboxes -> Row] /\ RowsAreComplete
  BY DEF Typed, TypeOK
<1>2. \A m \in Mailboxes : Live(m) => mailbox[m] # Deleted
  BY NothingTyped DEF Live
<1> QED BY <1>1, <1>2 DEF RowsFollow, RowsAreComplete, Live

\* The rows that nothing is stored in anew.
LEMMA PerformedFollows ==
  ASSUME Typed, NEW r, SentComplete(r), Performable(r), r.op # "deleteAll", ~Tests(r.op)
  PROVE  /\ RowsFollow(mailbox, Performed(r))
         /\ \A m \in Mailboxes : Performed(r)[m].state = "stored" => Live(m)
<1>1. mailbox \in [Mailboxes -> Row] /\ RowsAreComplete
  BY DEF Typed, TypeOK
<1>4. CASE r.op = "list"
  BY <1>1, <1>4 DEF Performed, RowsFollow, RowsAreComplete, Live
<1>5. CASE r.op \in {"update", "enable", "disable", "delete"}
  <2>1. r.mailbox \in Mailboxes /\ Live(r.mailbox) /\ mailbox[r.mailbox] \in Row
    BY <1>1, <1>5, NoneIsNothing DEF SentComplete, Performable
  <2>2. mailbox[r.mailbox].settings \in Settings /\ mailbox[r.mailbox].credentials \in Credentials
    BY <1>1, <2>1 DEF RowsAreComplete
  <2>3. CASE r.op = "update"
    <3> DEFINE row == [mailbox[r.mailbox] EXCEPT !.settings = r.settings, !.enabled = FALSE, !.health = "unknown"]
    <3>1. r.settings \in Settings
      BY <2>3 DEF SentComplete
    <3>2. row \in Row /\ row.settings = r.settings /\ row.credentials = mailbox[r.mailbox].credentials
      BY <2>1, <3>1 DEF Row
    <3>3. Performed(r) = [mailbox EXCEPT ![r.mailbox] = row]
      BY <2>3 DEF Performed, Updated
    <3> HIDE DEF row
    <3> QED BY RewrittenFollows, <2>1, <2>2, <3>1, <3>2, <3>3
  <2>4. CASE r.op \in {"enable", "disable"}
    <3> PICK enabled \in BOOLEAN : Performed(r) = EnabledTo(r.mailbox, enabled)
      BY <2>4 DEF Performed
    <3> DEFINE row == [mailbox[r.mailbox] EXCEPT !.enabled = enabled]
    <3>1. row \in Row /\ row.settings = mailbox[r.mailbox].settings /\ row.credentials = mailbox[r.mailbox].credentials
      BY <2>1 DEF Row
    <3>2. Performed(r) = [mailbox EXCEPT ![r.mailbox] = row]
      BY <2>1 DEF EnabledTo
    <3> HIDE DEF row
    <3> QED BY RewrittenFollows, <2>1, <2>2, <3>1, <3>2
  <2>5. CASE r.op = "delete"
    <3>1. Performed(r) = [m \in Mailboxes |-> IF m = r.mailbox THEN Deleted ELSE mailbox[m]]
      BY <2>5 DEF Performed, Without
    <3> QED BY <3>1, <1>1, NothingTyped DEF RowsFollow, RowsAreComplete, Live
  <2> QED BY <1>5, <2>3, <2>4, <2>5
<1> QED BY <1>4, <1>5, KnownOperations DEF SentComplete, Tests, AllOperations

\* Rows that follow are typed, and no more are stored.
LEMMA FollowingRows ==
  ASSUME Inv, RowsFollow(mailbox, mailbox'),
         \A m \in Mailboxes : mailbox'[m].state = "stored" => Live(m)
  PROVE  mailbox' \in [Mailboxes -> Row] /\ RowsAreComplete' /\ LimitHolds'
<1>1. mailbox' \in [Mailboxes -> Row] /\ RowsAreComplete'
  BY DEF RowsFollow, RowsAreComplete, Live
<1>2. Stored' \subseteq Stored
  BY DEF Stored, Live
<1> QED BY <1>1, <1>2, FewerAreAllowed DEF Inv

LEMMA SameRows ==
  ASSUME Inv, UNCHANGED mailbox
  PROVE  mailbox' \in [Mailboxes -> Row] /\ RowsAreComplete' /\ LimitHolds'
<1>1. Stored' = Stored
  BY DEF Stored, Live
<1>2. LimitHolds'
  BY <1>1, FewerAreAllowed DEF Inv
<1> QED BY <1>2 DEF Inv, Typed, TypeOK, RowsAreComplete, Live

----------------------------------------------------------------------------
\* Requests

\* One request becomes another complete one.
LEMMA RequestBecomes ==
  ASSUME Typed, NEW s \in Slots, NEW r \in Request,
         r.state = "sent" => SentComplete(r),
         r.state = "testing" => TestComplete(r),
         request' = [request EXCEPT ![s] = r]
  PROVE  request' \in [Slots -> Request] /\ RequestsAreComplete'
<1>1. request' \in [Slots -> Request]
  BY DEF Typed, TypeOK
<1>2. ASSUME NEW u \in Slots
      PROVE  /\ request'[u].state = "sent" => SentComplete(request'[u])
             /\ request'[u].state = "testing" => TestComplete(request'[u])
  <2>1. CASE u = s
    BY <2>1 DEF Typed, TypeOK
  <2>2. CASE u # s
    BY <2>2 DEF Typed, TypeOK, RequestsAreComplete
  <2> QED BY <2>1, <2>2
<1> QED BY <1>1, <1>2 DEF RequestsAreComplete

LEMMA FinishTyped ==
  ASSUME Typed, NEW s \in Slots, NEW next \in 0..MaxTokens, NEW ok \in BOOLEAN, Finish(s, next, ok)
  PROVE  request' \in [Slots -> Request] /\ RequestsAreComplete'
<1> DEFINE r == [request[s] EXCEPT !.state = "done", !.next = next, !.ok = ok]
<1>1. r \in Request /\ r.state = "done"
  BY DEF Typed, TypeOK, Request
<1>2. request' = [request EXCEPT ![s] = r]
  BY DEF Finish
<1> HIDE DEF r
<1> QED BY <1>1, <1>2, RequestBecomes

LEMMA SameRequests ==
  ASSUME Typed, UNCHANGED request
  PROVE  request' \in [Slots -> Request] /\ RequestsAreComplete'
BY DEF Typed, TypeOK, RequestsAreComplete, SentComplete, TestComplete, Tests

\* A window that lets go of its requests leaves them as complete as they were.
LEMMA AbandonedTyped ==
  ASSUME Typed, NEW w \in Windows, request' = Abandoned(w)
  PROVE  request' \in [Slots -> Request] /\ RequestsAreComplete'
<1>1. ASSUME NEW s \in Slots
      PROVE  /\ request'[s] \in Request
             /\ request'[s].state = "sent" => SentComplete(request'[s])
             /\ request'[s].state = "testing" => TestComplete(request'[s])
  <2>1. request[s] \in Request
    BY DEF Typed, TypeOK
  <2> DEFINE r == [request[s] EXCEPT !.window = None]
  <2>2. /\ r \in Request /\ r.state = request[s].state /\ r.op = request[s].op
        /\ r.mailbox = request[s].mailbox /\ r.settings = request[s].settings
        /\ r.credentials = request[s].credentials
    BY <2>1 DEF Request
  <2>3. request'[s] = r \/ request'[s] = request[s]
    BY DEF Abandoned
  <2> HIDE DEF r
  <2> QED BY <2>1, <2>2, <2>3 DEF Typed, RequestsAreComplete, SentComplete, TestComplete
<1>2. request' = [s \in Slots |-> request'[s]]
  BY DEF Abandoned
<1> QED BY <1>1, <1>2 DEF RequestsAreComplete

----------------------------------------------------------------------------
\* Steps of widgets and of the clock

\* The parts of Inv, for a step that has been shown to keep each of them.
LEMMA PartsMakeInv ==
  ASSUME mailbox' \in [Mailboxes -> Row], RowsAreComplete', LimitHolds',
         request' \in [Slots -> Request], RequestsAreComplete',
         sessions' \subseteq [token : 1..MaxTokens, expires : Nat, until : Nat],
         issued' \in 0..MaxTokens, erased' \in 0..MaxTokens, accepted' \in [1..MaxTokens -> Nat],
         SessionsAreFresh',
         now' \in 0..MaxTime, lost' \in 0..MaxLost, passed' \subseteq Settings \X Credentials,
         window' \in [Windows -> [token : 0..MaxTokens, first : 0..MaxTokens, waiting : BOOLEAN]]
  PROVE  Inv'
BY DEF Inv, Typed, TypeOK

LEMMA OpenSettingsInv ==
  ASSUME Inv, NEW w \in Windows, NEW oauth \in 1..(MaxTime + 1), OpenSettings(w, oauth)
  PROVE  Inv'
<1>1. TypeOK /\ SessionsAreFresh
  BY DEF Inv, Typed
<1> DEFINE until == Earlier(now + TTL, oauth)
<1>2. oauth \in Nat /\ until \in Nat /\ ExpiryOf(oauth) <= until
  BY <1>1, Bounds DEF TypeOK, Earlier, ExpiryOf
<1>3. Issue(sessions, oauth, until) /\ sessions \in SUBSET sessions
  BY DEF OpenSettings
<1> HIDE DEF until
<1>4. /\ issued' = issued + 1 /\ issued' \in 0..MaxTokens
      /\ sessions' \subseteq [token : 1..MaxTokens, expires : Nat, until : Nat]
      /\ \A x \in sessions' : \/ x \in sessions
                              \/ x.token = issued + 1 /\ x.expires <= x.until
  BY <1>1, <1>2, <1>3, IssueKeepsSessions
<1>5. UNCHANGED <<mailbox, passed, now, request, accepted, erased, lost>>
  BY DEF OpenSettings, rows
<1>6. SessionsAreFresh'
  <2>1. issued \in Nat /\ erased \in Nat
    BY <1>1 DEF TypeOK
  <2>2. ASSUME NEW x \in sessions'
        PROVE  x.token <= issued' /\ x.token > erased' /\ accepted'[x.token] = 0 /\ x.expires <= x.until
    <3>1. x.token \in 1..MaxTokens
      BY <1>4
    <3>2. CASE x \in sessions
      BY <3>1, <3>2, <2>1, <1>1, <1>4, <1>5 DEF SessionsAreFresh
    <3>3. CASE x.token = issued + 1 /\ x.expires <= x.until
      <4>1. accepted[x.token] = 0
        BY <3>1, <3>3, <2>1, <1>1 DEF SessionsAreFresh, TypeOK
      <4> QED BY <4>1, <3>1, <3>3, <2>1, <1>1, <1>4, <1>5 DEF SessionsAreFresh
    <3> QED BY <3>2, <3>3, <1>4
  <2>3. erased' <= issued' /\ \A t \in 1..MaxTokens : accepted'[t] # 0 => t <= issued'
    BY <2>1, <1>1, <1>4, <1>5 DEF SessionsAreFresh
  <2> QED BY <2>2, <2>3 DEF SessionsAreFresh
<1>7. window' \in [Windows -> [token : 0..MaxTokens, first : 0..MaxTokens, waiting : BOOLEAN]]
  BY <1>1, <1>4 DEF OpenSettings, TypeOK
<1> QED BY <1>1, <1>4, <1>5, <1>6, <1>7, SameRows, SameRequests, PartsMakeInv DEF Inv, TypeOK

LEMMA TickInv ==
  ASSUME Inv, Tick
  PROVE  Inv'
<1>1. UNCHANGED <<mailbox, passed, sessions, issued, accepted, erased, window, request, lost>>
  BY DEF Tick, rows, tokens
<1>2. now' \in 0..MaxTime
  BY Bounds DEF Inv, Typed, TypeOK, Tick
<1>3. SessionsAreFresh'
  BY <1>1, QuietKeepsSessions DEF Inv
<1> QED BY <1>1, <1>2, <1>3, SameRows, SameRequests, PartsMakeInv DEF Inv, Typed, TypeOK

\* What a widget holds stays typed when it waits, stops waiting or takes another token.
Held == [token : 0..MaxTokens, first : 0..MaxTokens, waiting : BOOLEAN]

LEMMA HeldTyped ==
  ASSUME TypeOK, NEW w, NEW t \in 0..MaxTokens, NEW waiting \in BOOLEAN,
         \/ window' = [window EXCEPT ![w].waiting = waiting]
         \/ window' = [window EXCEPT ![w].waiting = waiting, ![w].token = t]
         \/ window' = [window EXCEPT ![w].token = t, ![w].waiting = waiting]
  PROVE  window' \in [Windows -> [token : 0..MaxTokens, first : 0..MaxTokens, waiting : BOOLEAN]]
<1>1. window \in [Windows -> Held]
  BY DEF TypeOK, Held
<1>2. DOMAIN window' = Windows /\ window' = [u \in Windows |-> window'[u]]
  BY <1>1
<1>3. ASSUME NEW u \in Windows
      PROVE  window'[u] \in Held
  <2> DEFINE v == window[u]
  <2>1. v \in Held
    BY <1>1
  <2>2. CASE u # w
    <3>1. window'[u] = v
      BY <1>1, <2>2
    <3> QED BY <2>1, <3>1
  <2>3. CASE u = w
    <3>1. \/ window'[u] = [v EXCEPT !.waiting = waiting]
          \/ window'[u] = [[v EXCEPT !.waiting = waiting] EXCEPT !.token = t]
          \/ window'[u] = [[v EXCEPT !.token = t] EXCEPT !.waiting = waiting]
      BY <1>1, <2>3
    <3> HIDE DEF v
    <3> QED BY <2>1, <3>1 DEF Held
  <2> QED BY <2>2, <2>3
<1> QED BY <1>2, <1>3 DEF Held

LEMMA SendRequestInv ==
  ASSUME Inv, NEW w \in Windows, NEW s \in Slots, NEW op \in Operations,
         NEW m \in Mailboxes \cup {None}, NEW a \in Settings \cup {None},
         NEW c \in Credentials \cup {None}, SendRequest(w, s, op, m, a, c)
  PROVE  Inv'
<1>1. UNCHANGED <<mailbox, passed, sessions, issued, accepted, erased, now, lost>>
  BY DEF SendRequest, rows, tokens
<1>2. window[w].token \in 0..MaxTokens
  BY DEF Inv, Typed, TypeOK
<1> DEFINE r == [state |-> "sent", window |-> w, op |-> op, mailbox |-> m, settings |-> a,
                 credentials |-> c, token |-> window[w].token, next |-> 0, ok |-> FALSE]
<1>3. r \in Request /\ r.state = "sent" /\ r.op = op /\ r.mailbox = m /\ r.settings = a
      /\ r.credentials = c
  BY <1>2, Bounds DEF Request
<1>4. request' = [request EXCEPT ![s] = r]
  BY DEF SendRequest
<1> HIDE DEF r
<1>5. SentComplete(r)
  BY <1>3, NoneIsNothing DEF SendRequest, SentComplete
<1>6. request' \in [Slots -> Request] /\ RequestsAreComplete'
  BY <1>3, <1>4, <1>5, RequestBecomes DEF Inv
<1>7. window' \in [Windows -> [token : 0..MaxTokens, first : 0..MaxTokens, waiting : BOOLEAN]]
  BY <1>2, HeldTyped DEF SendRequest, Inv, Typed
<1>8. SessionsAreFresh'
  BY <1>1, QuietKeepsSessions DEF Inv
<1> QED BY <1>1, <1>6, <1>7, <1>8, SameRows, PartsMakeInv DEF Inv, Typed, TypeOK

LEMMA ReceiveAnswerInv ==
  ASSUME Inv, NEW s \in Slots, ReceiveAnswer(s)
  PROVE  Inv'
<1>1. UNCHANGED <<mailbox, passed, sessions, issued, accepted, erased, now, lost>>
  BY DEF ReceiveAnswer, rows, tokens
<1>2. request' \in [Slots -> Request] /\ RequestsAreComplete'
  BY NothingTyped, RequestBecomes DEF ReceiveAnswer, Inv
<1>3. window' \in [Windows -> [token : 0..MaxTokens, first : 0..MaxTokens, waiting : BOOLEAN]]
  <2>1. request[s].next \in 0..MaxTokens /\ 0 \in 0..MaxTokens
    BY Bounds DEF Inv, Typed, TypeOK, Request
  <2>2. PICK t \in 0..MaxTokens :
          \/ window' = window
          \/ window' = [window EXCEPT ![request[s].window].waiting = FALSE,
                                      ![request[s].window].token = t]
    BY <2>1 DEF ReceiveAnswer
  <2>3. CASE window' = window
    BY <2>3 DEF Inv, Typed, TypeOK
  <2> QED BY <2>2, <2>3, HeldTyped DEF Inv, Typed
<1>4. SessionsAreFresh'
  BY <1>1, QuietKeepsSessions DEF Inv
<1> QED BY <1>1, <1>2, <1>3, <1>4, SameRows, PartsMakeInv DEF Inv, Typed, TypeOK

\* A widget that loses its answer, or is shown again.
LEMMA LostInv ==
  ASSUME Inv, NEW w \in Windows, LoseAnswer(w) \/ ShowAgain(w)
  PROVE  Inv'
<1>1. UNCHANGED <<mailbox, passed, sessions, issued, accepted, erased, now>>
      /\ lost < MaxLost /\ lost' = lost + 1 /\ request' = Abandoned(w)
  BY DEF LoseAnswer, ShowAgain, rows, tokens
<1>2. request' \in [Slots -> Request] /\ RequestsAreComplete'
  BY <1>1, AbandonedTyped DEF Inv
<1>3. window' \in [Windows -> [token : 0..MaxTokens, first : 0..MaxTokens, waiting : BOOLEAN]]
  <2>1. window[w].first \in 0..MaxTokens
    BY DEF Inv, Typed, TypeOK
  <2> QED BY <2>1, HeldTyped DEF LoseAnswer, ShowAgain, Inv, Typed
<1>4. SessionsAreFresh'
  BY <1>1, QuietKeepsSessions DEF Inv
<1>5. lost' \in 0..MaxLost
  BY <1>1, Bounds DEF Inv, Typed, TypeOK
<1> QED BY <1>1, <1>2, <1>3, <1>4, <1>5, SameRows, PartsMakeInv DEF Inv, Typed, TypeOK

----------------------------------------------------------------------------
\* Steps of the server

LEMMA RefuseInv ==
  ASSUME Inv, NEW s \in Slots, Refuse(s)
  PROVE  Inv'
<1>1. UNCHANGED <<mailbox, passed, issued, now, window, accepted, erased, lost>>
      /\ sessions' \subseteq sessions /\ Finish(s, 0, FALSE)
  BY DEF Refuse, rows, Others
<1>2. request' \in [Slots -> Request] /\ RequestsAreComplete'
  <2>1. 0 \in 0..MaxTokens /\ FALSE \in BOOLEAN
    BY Bounds
  <2> QED BY <1>1, <2>1, FinishTyped DEF Inv
<1>3. SessionsAreFresh'
  BY <1>1, QuietKeepsSessions DEF Inv
<1> QED BY <1>1, <1>2, <1>3, SameRows, PartsMakeInv DEF Inv, Typed, TypeOK

\* What an accepted operation that tests nothing does to the rows.
LEMMA PerformRows ==
  ASSUME Inv, NEW s \in Slots, Perform(s)
  PROVE  /\ RowsFollow(mailbox, mailbox')
         /\ \A m \in Mailboxes : mailbox'[m].state = "stored" => Live(m)
<1> DEFINE r == request[s]
<1>1. SentComplete(r) /\ ~Tests(r.op) /\ r.op # "deleteAll"
  BY DEF Perform, Authorize, Inv, Typed, RequestsAreComplete
<1>2. CASE Performable(r)
  BY <1>1, <1>2, PerformedFollows DEF Perform, Inv
<1>3. CASE ~Performable(r)
  BY <1>3 DEF Perform, Inv, Typed, TypeOK, RowsFollow, RowsAreComplete, Live
<1> QED BY <1>2, <1>3

LEMMA PerformInv ==
  ASSUME Inv, NEW s \in Slots, Perform(s)
  PROVE  Inv'
<1>1. UNCHANGED <<passed, erased, now, window, lost>> /\ Authorize(s)
  BY DEF Perform, Authorize
<1>2. /\ SessionsAreFresh'
      /\ issued' = issued + 1 /\ issued' \in 0..MaxTokens
      /\ sessions' \subseteq [token : 1..MaxTokens, expires : Nat, until : Nat]
      /\ accepted' \in [1..MaxTokens -> Nat]
  BY <1>1, AuthorizeKeepsSessions DEF Inv, Typed
<1>3. Performable(request[s]) \in BOOLEAN
  BY DEF Performable
<1>4. request' \in [Slots -> Request] /\ RequestsAreComplete'
  BY <1>2, <1>3, FinishTyped DEF Perform, Inv
<1>5. mailbox' \in [Mailboxes -> Row] /\ RowsAreComplete' /\ LimitHolds'
  BY PerformRows, FollowingRows
<1> QED BY <1>1, <1>2, <1>4, <1>5, PartsMakeInv DEF Inv, Typed, TypeOK

\* What the deletion of everything leaves.
LEMMA DeleteAllRows ==
  ASSUME Inv, NEW s \in Slots, DeleteAll(s)
  PROVE  /\ RowsFollow(mailbox, mailbox')
         /\ \A m \in Mailboxes : mailbox'[m].state # "stored"
<1>1. mailbox' = [m \in Mailboxes |-> IF Live(m) THEN Deleted ELSE mailbox[m]]
  BY DEF DeleteAll, Without
<1> QED BY <1>1, NothingTyped DEF Inv, Typed, TypeOK, RowsFollow, Live

LEMMA DeleteAllInv ==
  ASSUME Inv, NEW s \in Slots, DeleteAll(s)
  PROVE  Inv'
<1>1. UNCHANGED <<passed, now, window, lost>> /\ sessions' = {} /\ issued' = issued + 1
      /\ erased' = issued + 1 /\ issued < MaxTokens /\ Finish(s, issued + 1, TRUE)
  BY DEF DeleteAll, Revoked
<1> DEFINE t == request[s].token
<1>2. accepted' = [accepted EXCEPT ![t] = accepted[t] + 1]
  BY DEF DeleteAll
<1>3. t \in 1..MaxTokens /\ t <= issued
  BY DEF DeleteAll, Inv, Typed, TypeOK, SessionsAreFresh
<1> HIDE DEF t
<1>4. /\ issued \in Nat /\ issued + 1 \in 0..MaxTokens
      /\ accepted \in [1..MaxTokens -> Nat]
  BY <1>1, Bounds DEF Inv, Typed, TypeOK
<1>5. accepted' \in [1..MaxTokens -> Nat]
  BY <1>2, <1>3, <1>4
<1>6. SessionsAreFresh'
  BY <1>1, <1>2, <1>3, <1>4 DEF Inv, SessionsAreFresh
<1>7. request' \in [Slots -> Request] /\ RequestsAreComplete'
  BY <1>1, <1>4, FinishTyped DEF Inv
<1>8. mailbox' \in [Mailboxes -> Row] /\ RowsAreComplete' /\ LimitHolds'
  BY DeleteAllRows, FollowingRows
<1> QED BY <1>1, <1>4, <1>5, <1>6, <1>7, <1>8, PartsMakeInv DEF Inv, Typed, TypeOK

LEMMA BeginTestInv ==
  ASSUME Inv, NEW s \in Slots, BeginTest(s)
  PROVE  Inv'
<1>1. UNCHANGED <<mailbox, passed, erased, now, window, lost>> /\ Authorize(s)
  BY DEF BeginTest, Authorize, rows
<1>2. /\ SessionsAreFresh'
      /\ issued' = issued + 1 /\ issued' \in 0..MaxTokens
      /\ sessions' \subseteq [token : 1..MaxTokens, expires : Nat, until : Nat]
      /\ accepted' \in [1..MaxTokens -> Nat]
  BY <1>1, AuthorizeKeepsSessions DEF Inv, Typed
<1> DEFINE r == request[s]
<1>3. r \in Request /\ SentComplete(r) /\ Tests(r.op)
  BY DEF BeginTest, Authorize, Inv, Typed, TypeOK, RequestsAreComplete
<1>4. request' \in [Slots -> Request] /\ RequestsAreComplete'
  <2>1. CASE r.mailbox # None /\ ~Live(r.mailbox)
    BY <1>2, <2>1, FinishTyped DEF BeginTest, Inv
  <2>2. CASE ~(r.mailbox # None /\ ~Live(r.mailbox))
    <3> DEFINE a == IF r.op = "create" THEN r.settings ELSE mailbox[r.mailbox].settings
               c == IF r.op = "test" THEN mailbox[r.mailbox].credentials ELSE r.credentials
               q == [r EXCEPT !.state = "testing", !.next = issued + 1, !.settings = a, !.credentials = c]
    <3>1. r.op # "create" => r.mailbox \in Mailboxes /\ Live(r.mailbox)
      BY <1>3, <2>2, NoneIsNothing DEF SentComplete, Tests
    <3>2. a \in Settings /\ c \in Credentials
      BY <1>3, <3>1 DEF SentComplete, Tests, Inv, Typed, RowsAreComplete
    <3>3. request' = [request EXCEPT ![s] = q]
      BY <2>2 DEF BeginTest
    <3> HIDE DEF a, c, r
    <3>4. /\ q \in Request /\ q.state = "testing" /\ q.op = r.op /\ q.mailbox = r.mailbox
          /\ q.settings = a /\ q.credentials = c
      BY <1>2, <1>3, <3>2 DEF Request
    <3> HIDE DEF q
    <3>5. TestComplete(q)
      BY <1>3, <3>1, <3>2, <3>4 DEF TestComplete
    <3> QED BY <3>3, <3>4, <3>5, RequestBecomes DEF Inv
  <2> QED BY <2>1, <2>2
<1> QED BY <1>1, <1>2, <1>4, SameRows, PartsMakeInv DEF Inv, Typed, TypeOK

\* What a verdict does to the rows: nothing deleted is stored again, and the limit holds.
LEMMA EndTestRows ==
  ASSUME Inv, NEW s \in Slots, NEW verdict \in {"PASS", "FAIL"}, EndTest(s, verdict)
  PROVE  RowsFollow(mailbox, mailbox') /\ LimitHolds'
<1> DEFINE r == request[s]
<1>1. TestComplete(r) /\ Typed /\ mailbox \in [Mailboxes -> Row]
  BY DEF EndTest, Inv, Typed, TypeOK, RequestsAreComplete
<1>2. ASSUME NEW n \in Mailboxes, Live(n), NEW row \in Row, row.state = mailbox[n].state,
             row.settings \in Settings, row.credentials \in Credentials,
             mailbox' = [mailbox EXCEPT ![n] = row]
      PROVE  RowsFollow(mailbox, mailbox') /\ LimitHolds'
  BY <1>1, <1>2, RewrittenFollows, FollowingRows
<1>3. CASE /\ r.op = "create" /\ verdict = "PASS"
           /\ \E m \in Mailboxes : Storable(m) /\ \E enabled \in BOOLEAN :
                mailbox' = Inserted(m, r.settings, r.credentials, enabled)
  <2>1. PICK m \in Mailboxes, enabled \in BOOLEAN :
          Storable(m) /\ mailbox' = Inserted(m, r.settings, r.credentials, enabled)
    BY <1>3
  <2> DEFINE row == [state |-> "stored", settings |-> r.settings, credentials |-> r.credentials,
                     enabled |-> enabled, health |-> "connected"]
  <2>2. row \in Row /\ row.state = "stored" /\ row.settings \in Settings /\ row.credentials \in Credentials
    BY <1>1 DEF TestComplete, Row
  <2>3. mailbox' = [mailbox EXCEPT ![m] = row]
    BY <2>1 DEF Inserted
  <2> HIDE DEF row, r
  <2>4. mailbox[m] # Deleted
    BY <2>1, NothingTyped DEF Storable
  <2>5. RowsFollow(mailbox, mailbox')
    BY <1>1, <2>2, <2>3, <2>4 DEF RowsFollow, Typed, RowsAreComplete, Live
  <2>6. Stored' = Stored \cup {m}
    BY <1>1, <2>2, <2>3 DEF Stored, Live
  <2> QED BY <2>1, <2>5, <2>6, StorableIsAllowed DEF Inv
<1>4. CASE r.op = "test" /\ Writable(r.mailbox) /\ mailbox' = Recorded(r.mailbox, verdict)
  <2> DEFINE n == r.mailbox
             row == [mailbox[n] EXCEPT !.health = IF verdict = "PASS" THEN "connected" ELSE "error"]
  <2>1. n \in Mailboxes /\ Live(n) /\ mailbox[n] \in Row
    BY <1>1, <1>4 DEF TestComplete, Writable
  <2>2. mailbox[n].settings \in Settings /\ mailbox[n].credentials \in Credentials
    BY <1>1, <2>1 DEF Typed, RowsAreComplete
  <2>3. mailbox' = [mailbox EXCEPT ![n] = row]
    BY <1>4, <2>1 DEF Recorded
  <2>4. /\ row \in Row /\ row.state = mailbox[n].state
        /\ row.settings = mailbox[n].settings /\ row.credentials = mailbox[n].credentials
    BY <2>1 DEF Row
  <2> HIDE DEF n, row
  <2> QED BY <1>2, <2>1, <2>2, <2>3, <2>4
<1>5. CASE r.op = "replace" /\ Writable(r.mailbox) /\ mailbox' = Replaced(r.mailbox, r.credentials)
  <2> DEFINE n == r.mailbox
             row == [mailbox[n] EXCEPT !.credentials = r.credentials, !.health = "connected"]
  <2>1. n \in Mailboxes /\ Live(n) /\ mailbox[n] \in Row /\ r.credentials \in Credentials
    BY <1>1, <1>5 DEF TestComplete, Writable
  <2>2. mailbox[n].settings \in Settings
    BY <1>1, <2>1 DEF Typed, RowsAreComplete
  <2>3. mailbox' = [mailbox EXCEPT ![n] = row]
    BY <1>5 DEF Replaced
  <2>4. /\ row \in Row /\ row.state = mailbox[n].state
        /\ row.settings = mailbox[n].settings /\ row.credentials = r.credentials
    BY <2>1 DEF Row
  <2> HIDE DEF n, row
  <2> QED BY <1>2, <2>1, <2>2, <2>3, <2>4
<1>6. CASE mailbox' = mailbox
  BY <1>6, SameRows DEF RowsFollow, RowsAreComplete, Live
<1> QED BY <1>3, <1>4, <1>5, <1>6 DEF EndTest

LEMMA EndTestInv ==
  ASSUME Inv, NEW s \in Slots, NEW verdict \in {"PASS", "FAIL"}, EndTest(s, verdict)
  PROVE  Inv'
<1>1. UNCHANGED <<sessions, issued, accepted, erased, now, window, lost>>
  BY DEF EndTest, tokens
<1>2. passed' \subseteq Settings \X Credentials
  BY DEF EndTest, Inv, Typed, TypeOK, RequestsAreComplete, TestComplete
<1>3. \E ok \in BOOLEAN : Finish(s, request[s].next, ok)
  BY DEF EndTest
<1>4. request[s].next \in 0..MaxTokens
  BY DEF Inv, Typed, TypeOK, Request
<1>5. request' \in [Slots -> Request] /\ RequestsAreComplete'
  BY <1>3, <1>4, FinishTyped DEF Inv
<1>6. mailbox' \in [Mailboxes -> Row] /\ RowsAreComplete' /\ LimitHolds'
  BY EndTestRows DEF RowsFollow, RowsAreComplete, Live
<1>7. SessionsAreFresh'
  BY <1>1, QuietKeepsSessions DEF Inv
<1> QED BY <1>1, <1>2, <1>5, <1>6, <1>7, PartsMakeInv DEF Inv, Typed, TypeOK

\* Every step keeps the invariant.
LEMMA StepInv == Inv /\ [Next]_vars => Inv'
<1> SUFFICES ASSUME Inv, [Next]_vars PROVE Inv'
  OBVIOUS
<1>1. CASE Widget
  BY <1>1, OpenSettingsInv, SendRequestInv, ReceiveAnswerInv, LostInv DEF Widget
<1>2. CASE Server
  BY <1>2, RefuseInv, PerformInv, DeleteAllInv, BeginTestInv, EndTestInv DEF Server
<1>3. CASE Tick
  BY <1>3, TickInv
<1>4. CASE UNCHANGED vars
  <2>1. UNCHANGED <<mailbox, sessions, issued, now, window, request, passed, accepted, erased, lost>>
    BY <1>4 DEF vars
  <2>2. SessionsAreFresh'
    BY <2>1, QuietKeepsSessions DEF Inv
  <2> QED BY <2>1, <2>2, SameRows, SameRequests, PartsMakeInv DEF Inv, Typed, TypeOK
<1> QED BY <1>1, <1>2, <1>3, <1>4 DEF Next

\* The invariant holds in every state.
THEOREM Invariant == Spec => []Inv
BY InitInv, StepInv, PTL DEF Spec

\* The rows, sessions and requests always have the shape the code gives them.
THEOREM TypeCorrect == Spec => []TypeOK
<1>1. Inv => TypeOK
  BY DEF Inv, Typed
<1> QED BY <1>1, Invariant, PTL

----------------------------------------------------------------------------
\* Verdicts that come late

\* Widgets change no row and use up no token.
LEMMA WidgetIsQuiet == Widget => UNCHANGED <<mailbox, passed, accepted>>
<1>1. \A w \in Windows, oauth \in 1..(MaxTime + 1) :
        OpenSettings(w, oauth) => UNCHANGED <<mailbox, passed, accepted>>
  BY DEF OpenSettings, rows
<1>2. \A w \in Windows, s \in Slots, op \in Operations, m \in Mailboxes \cup {None},
        a \in Settings \cup {None}, c \in Credentials \cup {None} :
        SendRequest(w, s, op, m, a, c) => UNCHANGED <<mailbox, passed, accepted>>
  BY DEF SendRequest, rows, tokens
<1>3. \A s \in Slots : ReceiveAnswer(s) => UNCHANGED <<mailbox, passed, accepted>>
  BY DEF ReceiveAnswer, rows, tokens
<1>4. \A w \in Windows : LoseAnswer(w) \/ ShowAgain(w) => UNCHANGED <<mailbox, passed, accepted>>
  BY DEF LoseAnswer, ShowAgain, rows, tokens
<1> QED BY <1>1, <1>2, <1>3, <1>4 DEF Widget

\* No step stores a deleted row again.
LEMMA RowsStep == Inv /\ [Next]_vars => RowsFollow(mailbox, mailbox')
<1> SUFFICES ASSUME Inv, [Next]_vars PROVE RowsFollow(mailbox, mailbox')
  OBVIOUS
<1>1. CASE UNCHANGED mailbox
  BY <1>1, SameRows DEF RowsFollow, RowsAreComplete, Live
<1>2. CASE Widget
  BY <1>1, <1>2, WidgetIsQuiet
<1>3. CASE Server
  <2> PICK s \in Slots :
        \/ Refuse(s)
        \/ Perform(s)
        \/ DeleteAll(s)
        \/ BeginTest(s)
        \/ \E verdict \in {"PASS", "FAIL"} : EndTest(s, verdict)
    BY <1>3 DEF Server
  <2>1. CASE Refuse(s) \/ BeginTest(s)
    BY <1>1, <2>1 DEF Refuse, BeginTest, rows
  <2> QED BY <2>1, PerformRows, DeleteAllRows, EndTestRows
<1>4. CASE Tick \/ UNCHANGED vars
  BY <1>1, <1>4 DEF Tick, rows, vars
<1> QED BY <1>2, <1>3, <1>4 DEF Next

\* What a test began with is checked again when its verdict comes: the limit holds however
\* many creations await their tests together (create, in store.ts), and a mailbox deleted
\* meanwhile stays deleted (recordHealth, replaceCredentials).
THEOREM LateVerdicts == Spec => LateVerdictsAreChecked
<1>1. Inv /\ Inv' /\ [Next]_vars =>
        [/\ Count' <= MaxMailboxes
         /\ \A m \in Mailboxes : mailbox[m] = Deleted => mailbox'[m] = Deleted]_vars
  BY RowsStep DEF Inv, LimitHolds, RowsFollow
<1> QED BY <1>1, Invariant, PTL DEF Spec, LateVerdictsAreChecked

----------------------------------------------------------------------------
\* Tokens

\* The token that a request is let in with.
LEMMA AcceptedToken ==
  ASSUME Inv, NEW s \in Slots, Authorize(s) \/ DeleteAll(s)
  PROVE  \E x \in sessions :
           /\ x.token = request[s].token
           /\ x.expires > now
           /\ accepted' = [accepted EXCEPT ![x.token] = accepted[x.token] + 1]
BY DEF Authorize, DeleteAll

\* A token counts once: it was unused, issued since the last deletion, and in its time.
LEMMA AcceptedOnce ==
  ASSUME Inv, NEW s \in Slots, Authorize(s) \/ DeleteAll(s),
         NEW t \in 1..MaxTokens, accepted'[t] > accepted[t]
  PROVE  /\ accepted'[t] = 1
         /\ \E x \in sessions : x.token = t /\ now < x.until
         /\ t > erased
<1>1. PICK x \in sessions :
        /\ x.expires > now
        /\ accepted' = [accepted EXCEPT ![x.token] = accepted[x.token] + 1]
  BY AcceptedToken
<1>2. /\ x.token \in 1..MaxTokens /\ x.expires \in Nat /\ x.until \in Nat
      /\ now \in Nat /\ accepted \in [1..MaxTokens -> Nat]
  BY Bounds DEF Inv, Typed, TypeOK
<1>3. x.token > erased /\ accepted[x.token] = 0 /\ x.expires <= x.until
  BY DEF Inv, SessionsAreFresh
<1>4. x.token = t
  BY <1>1, <1>2
<1> QED BY <1>1, <1>2, <1>3, <1>4

\* A token is accepted once and in its time, and none that was issued before everything was
\* deleted (consume, issue and revokeUser in settingsSessions.ts).
THEOREM AcceptedOnceInTime == Spec => TokensAreAcceptedOnceInTime
<1>1. Inv /\ [Next]_vars =>
        [\A t \in 1..MaxTokens : accepted'[t] > accepted[t] =>
           /\ accepted'[t] = 1
           /\ \E x \in sessions : x.token = t /\ now < x.until
           /\ t > erased]_vars
  <2> SUFFICES ASSUME Inv, [Next]_vars, NEW t \in 1..MaxTokens, accepted'[t] > accepted[t]
               PROVE  /\ accepted'[t] = 1
                      /\ \E x \in sessions : x.token = t /\ now < x.until
                      /\ t > erased
    OBVIOUS
  <2>1. CASE UNCHANGED accepted
    BY <2>1 DEF Inv, Typed, TypeOK
  <2>2. CASE Widget
    BY <2>1, <2>2, WidgetIsQuiet
  <2>3. CASE Server
    <3> PICK s \in Slots :
          \/ Refuse(s)
          \/ Perform(s)
          \/ DeleteAll(s)
          \/ BeginTest(s)
          \/ \E verdict \in {"PASS", "FAIL"} : EndTest(s, verdict)
      BY <2>3 DEF Server
    <3>1. CASE Perform(s) \/ BeginTest(s) \/ DeleteAll(s)
      BY <3>1, AcceptedOnce DEF Perform, BeginTest
    <3>2. CASE Refuse(s) \/ \E verdict \in {"PASS", "FAIL"} : EndTest(s, verdict)
      BY <2>1, <3>2 DEF Refuse, EndTest, tokens
    <3> QED BY <3>1, <3>2
  <2>4. CASE Tick \/ UNCHANGED vars
    BY <2>1, <2>4 DEF Tick, tokens, vars
  <2> QED BY <2>2, <2>3, <2>4 DEF Next
<1> QED BY <1>1, Invariant, PTL DEF Spec, TokensAreAcceptedOnceInTime

----------------------------------------------------------------------------
\* Settings and credentials that did not pass together

\* A row that kept its settings and credentials, and did not become usable.
LEMMA StaysUntested ==
  ASSUME NEW m \in Mailboxes, passed \subseteq passed', UsableUntested(m)',
         /\ mailbox'[m].state = "stored" => Live(m)
         /\ mailbox'[m].settings = mailbox[m].settings
         /\ mailbox'[m].credentials = mailbox[m].credentials
         /\ mailbox'[m].enabled \/ mailbox'[m].health = "connected" =>
              mailbox[m].enabled \/ mailbox[m].health = "connected"
  PROVE  UsableUntested(m)
BY DEF UsableUntested, Live

\* Nothing but a verdict makes a mailbox usable untested.
LEMMA PerformTested ==
  ASSUME Inv, NEW s \in Slots, Perform(s) \/ DeleteAll(s), NEW m \in Mailboxes, UsableUntested(m)'
  PROVE  UsableUntested(m)
<1>1. mailbox \in [Mailboxes -> Row] /\ passed' = passed
  BY DEF Inv, Typed, TypeOK, Perform, DeleteAll
<1>2. mailbox'[m].state = "stored" /\ (mailbox'[m].enabled \/ mailbox'[m].health = "connected")
  BY DEF UsableUntested, Live
<1>3. CASE mailbox'[m] = mailbox[m]
  BY <1>1, <1>3, StaysUntested DEF Live
<1>4. CASE DeleteAll(s)
  BY <1>2, <1>4, DeleteAllRows
<1>5. CASE Perform(s) /\ mailbox'[m] # mailbox[m]
  <2> DEFINE r == request[s]
  <2>1. Performable(r) /\ mailbox' = Performed(r)
    BY <1>5 DEF Perform
  <2>2. CASE r.op = "update"
    BY <1>1, <1>2, <1>5, <2>1, <2>2 DEF Performed, Updated
  <2>3. CASE r.op = "enable"
    <3>1. m = r.mailbox /\ mailbox' = [mailbox EXCEPT ![m].enabled = TRUE]
      BY <1>1, <1>5, <2>1, <2>3 DEF Performed, EnabledTo
    <3>2. mailbox[m].health = "connected"
      BY <2>1, <2>3, <3>1 DEF Performable
    <3> QED BY <1>1, <3>1, <3>2, StaysUntested DEF Live
  <2>4. CASE r.op = "disable"
    <3>1. m = r.mailbox /\ mailbox' = [mailbox EXCEPT ![m].enabled = FALSE]
      BY <1>1, <1>5, <2>1, <2>4 DEF Performed, EnabledTo
    <3> QED BY <1>1, <3>1, StaysUntested DEF Live
  <2>5. CASE r.op = "delete"
    BY <1>1, <1>2, <1>5, <2>1, <2>5, NothingTyped DEF Performed, Without
  <2> QED BY <1>5, <2>1, <2>2, <2>3, <2>4, <2>5 DEF Performed
<1> QED BY <1>3, <1>4, <1>5

\* A verdict makes a mailbox usable untested only when the mailbox is no longer what was tested.
LEMMA EndTestTested ==
  ASSUME Inv, NEW s \in Slots, NEW verdict \in {"PASS", "FAIL"}, EndTest(s, verdict),
         NEW m \in Mailboxes, UsableUntested(m)', ~UsableUntested(m)
  PROVE  /\ request[s].state = "testing" /\ request'[s].state = "done"
         /\ request[s].mailbox = m
         /\ <<request[s].settings, request[s].credentials>> \in passed'
<1> DEFINE r == request[s]
<1>1. /\ mailbox \in [Mailboxes -> Row] /\ request \in [Slots -> Request]
      /\ passed \subseteq passed'
  BY DEF Inv, Typed, TypeOK, EndTest
<1>2. /\ mailbox'[m].state = "stored" /\ (mailbox'[m].enabled \/ mailbox'[m].health = "connected")
      /\ <<mailbox'[m].settings, mailbox'[m].credentials>> \notin passed'
  BY DEF UsableUntested, Live
<1>3. mailbox'[m] # mailbox[m]
  BY <1>1, StaysUntested DEF Live
<1>4. r.state = "testing" /\ request'[s].state = "done"
  BY <1>1 DEF EndTest, Finish, Request
<1>5. verdict = "PASS" => <<r.settings, r.credentials>> \in passed'
  BY DEF EndTest
<1>6. CASE verdict = "PASS" /\ \E n \in Mailboxes, enabled \in BOOLEAN :
             mailbox' = Inserted(n, r.settings, r.credentials, enabled)
  BY <1>1, <1>2, <1>3, <1>5, <1>6 DEF Inserted
<1>7. CASE mailbox' = Recorded(r.mailbox, verdict)
  <2>1. m = r.mailbox
        /\ mailbox' = [mailbox EXCEPT ![m].health = IF verdict = "PASS" THEN "connected" ELSE "error"]
    BY <1>1, <1>3, <1>7 DEF Recorded
  <2>2. CASE verdict = "FAIL"
    BY <1>1, <2>1, <2>2, StaysUntested DEF Live
  <2> QED BY <1>4, <1>5, <2>1, <2>2
<1>8. CASE verdict = "PASS" /\ mailbox' = Replaced(r.mailbox, r.credentials)
  <2>1. m = r.mailbox
    BY <1>1, <1>3, <1>8 DEF Replaced
  <2> QED BY <1>4, <1>5, <1>8, <2>1
<1> QED BY <1>3, <1>6, <1>7, <1>8 DEF EndTest

\* A mailbox becomes usable untested only by the good verdict of a test whose settings or
\* credentials another request replaced while it ran (recordHealth and replaceCredentials
\* write by identifier, whatever the row holds by then).
THEOREM OnlyOverlapLeavesUntested == Spec => UntestedOnlyByOverlap
<1>1. Inv /\ [Next]_vars =>
        [\A m \in Mailboxes : UsableUntested(m)' /\ ~UsableUntested(m) =>
           \E s \in Slots :
             /\ request[s].state = "testing" /\ request'[s].state = "done"
             /\ request[s].mailbox = m
             /\ <<request[s].settings, request[s].credentials>> \in passed']_vars
  <2> SUFFICES ASSUME Inv, [Next]_vars, NEW m \in Mailboxes, UsableUntested(m)', ~UsableUntested(m)
               PROVE  \E s \in Slots :
                        /\ request[s].state = "testing" /\ request'[s].state = "done"
                        /\ request[s].mailbox = m
                        /\ <<request[s].settings, request[s].credentials>> \in passed'
    OBVIOUS
  <2>1. CASE UNCHANGED <<mailbox, passed>>
    BY <2>1 DEF UsableUntested, Live
  <2>2. CASE Widget
    BY <2>1, <2>2, WidgetIsQuiet
  <2>3. CASE Server
    <3> PICK s \in Slots :
          \/ Refuse(s)
          \/ Perform(s)
          \/ DeleteAll(s)
          \/ BeginTest(s)
          \/ \E verdict \in {"PASS", "FAIL"} : EndTest(s, verdict)
      BY <2>3 DEF Server
    <3>1. CASE Refuse(s) \/ BeginTest(s)
      BY <2>1, <3>1 DEF Refuse, BeginTest, rows
    <3> QED BY <3>1, PerformTested, EndTestTested
  <2>4. CASE Tick \/ UNCHANGED vars
    BY <2>1, <2>4 DEF Tick, rows, vars
  <2> QED BY <2>2, <2>3, <2>4 DEF Next
<1> QED BY <1>1, Invariant, PTL DEF Spec, UntestedOnlyByOverlap
===============================================================================
