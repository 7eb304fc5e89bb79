---------------------------- MODULE MailboxSettings ----------------------------
(***************************************************************************)
(* The settings API (src/app/settingsApi.ts) with its one-time sessions    *)
(* (src/app/settingsSessions.ts), the rows it changes (src/app/store.ts)   *)
(* and the widgets that call it (src/app/widget.ts), for one user.         *)
(*                                                                         *)
(* A request takes its token, is given the next one and runs without a     *)
(* break unless it tests a connection: then it awaits the verdict, and     *)
(* other requests run meanwhile.  A widget sends one request at a time,    *)
(* but it may lose the answer or be shown again while one is running.      *)
(*                                                                         *)
(* The settings of a mailbox are what a connection test depends on.        *)
(* Folders only added to the allowed ones, the sending columns (module     *)
(* SafeSend) and the test of settings that are not saved are left out.     *)
(***************************************************************************)
EXTENDS Naturals, FiniteSets

CONSTANTS
  Windows,       \* widgets
  Slots,         \* requests the server may have at a time
  Mailboxes,     \* identifiers of mailboxes, each given out once
  Settings, Credentials,
  Operations,    \* the operations widgets ask for
  MaxMailboxes,  \* maxMailboxesPerUser
  TTL,           \* lifetime of a session
  MaxTokens,     \* bound: tokens issued
  MaxTime,       \* bound: the clock
  MaxLost,       \* bound: answers lost and widgets shown again
  None

AllOperations == {"list", "create", "update", "test", "replace", "enable", "disable",
                  "delete", "deleteAll"}

ASSUME SettingsBounds == {MaxMailboxes, TTL, MaxTokens, MaxTime, MaxLost} \subseteq Nat
ASSUME KnownOperations == Operations \subseteq AllOperations
ASSUME NoneIsNothing == None \notin Windows \cup Mailboxes \cup Settings \cup Credentials

VARIABLES
  mailbox,   \* the row of each identifier
  sessions,  \* the sessions that may still be used, one for each token
  issued,    \* tokens issued so far; a token is the number of its issue
  now,       \* the clock
  window,    \* what each widget holds
  request,   \* the requests in the server
  passed,    \* history: settings and credentials that passed a connection test
  accepted,  \* history: how often each token was accepted
  erased,    \* history: tokens issued when all data was deleted last
  lost       \* answers lost and widgets shown again

rows    == <<mailbox, passed>>
tokens  == <<sessions, issued, accepted, erased>>
vars    == <<mailbox, sessions, issued, now, window, request, passed, accepted, erased, lost>>

NoRequest == [state |-> "none", window |-> None, op |-> None, mailbox |-> None,
              settings |-> None, credentials |-> None, token |-> 0, next |-> 0, ok |-> FALSE]
Unused == [state |-> "unused", settings |-> None, credentials |-> None, enabled |-> FALSE,
           health |-> "unknown"]
Deleted == [Unused EXCEPT !.state = "deleted"]
Row == [state : {"unused", "stored", "deleted"}, settings : Settings \cup {None},
        credentials : Credentials \cup {None}, enabled : BOOLEAN,
        health : {"connected", "error", "unknown"}]

Live(m) == mailbox[m].state = "stored"
Count   == Cardinality({m \in Mailboxes : Live(m)})

Init ==
  /\ mailbox = [m \in Mailboxes |-> Unused]
  /\ sessions = {}
  /\ issued = 0
  /\ now = 0
  /\ window = [w \in Windows |-> [token |-> 0, first |-> 0, waiting |-> FALSE]]
  /\ request = [s \in Slots |-> NoRequest]
  /\ passed = {}
  /\ accepted = [t \in 1..MaxTokens |-> 0]
  /\ erased = 0
  /\ lost = 0

----------------------------------------------------------------------------
\* Sessions

Earlier(t, u) == IF t < u THEN t ELSE u

\* issue: the session ends after TTL, and with the authorization it comes from.
ExpiryOf(limit) == Earlier(now + TTL, limit)

\* Issued from a set of sessions; until is the end the first session of the chain had.
Issue(from, limit, until) ==
  /\ issued < MaxTokens
  /\ ExpiryOf(limit) > now
  /\ issued' = issued + 1
  /\ sessions' = {x \in from : x.expires > now}
                   \cup {[token |-> issued + 1, expires |-> ExpiryOf(limit), until |-> until]}

\* consume deletes the token before it looks at anything else.
Others(t) == {x \in sessions : x.token # t}

\* open_mailbox_settings: a widget with a session of its own, under an authorization that
\* ends at `oauth`.
OpenSettings(w, oauth) ==
  /\ window[w].first = 0
  /\ oauth > now
  /\ Issue(sessions, oauth, Earlier(now + TTL, oauth))
  /\ window' = [window EXCEPT ![w] = [token |-> issued + 1, first |-> issued + 1, waiting |-> FALSE]]
  /\ UNCHANGED <<rows, now, request, accepted, erased, lost>>

Tick ==
  /\ now < MaxTime
  /\ now' = now + 1
  /\ UNCHANGED <<rows, tokens, window, request, lost>>

----------------------------------------------------------------------------
\* Widgets

\* request: sent when the one before has come back, with the token of that answer.
SendRequest(w, s, op, m, a, c) ==
  /\ window[w].token # 0
  /\ ~window[w].waiting
  /\ request[s] = NoRequest
  /\ op \in Operations
  /\ m \in {n \in Mailboxes : Live(n)} \cup {None}
  /\ (m = None) = (op \in {"list", "create", "deleteAll"})
  /\ (a = None) = (op \notin {"create", "update"})
  /\ (c = None) = (op \notin {"create", "replace"})
  /\ request' = [request EXCEPT ![s] =
       [state |-> "sent", window |-> w, op |-> op, mailbox |-> m, settings |-> a,
        credentials |-> c, token |-> window[w].token, next |-> 0, ok |-> FALSE]]
  /\ window' = [window EXCEPT ![w].waiting = TRUE]
  /\ UNCHANGED <<rows, tokens, now, lost>>

\* The answer carries the next token, whether the operation succeeded or not; a refused
\* request and the deletion of everything leave the widget without one.
ReceiveAnswer(s) ==
  LET r == request[s] IN
  /\ r.state = "done"
  /\ window' = IF r.window = None THEN window
               ELSE [window EXCEPT ![r.window].waiting = FALSE,
                                   ![r.window].token = IF r.op = "deleteAll" /\ r.ok THEN 0 ELSE r.next]
  /\ request' = [request EXCEPT ![s] = NoRequest]
  /\ UNCHANGED <<rows, tokens, now, lost>>

Abandoned(w) == [s \in Slots |->
  IF request[s].window = w THEN [request[s] EXCEPT !.window = None] ELSE request[s]]

\* fetch fails: the widget keeps the token it used, and the server goes on.
LoseAnswer(w) ==
  /\ window[w].waiting
  /\ lost < MaxLost
  /\ lost' = lost + 1
  /\ window' = [window EXCEPT ![w].waiting = FALSE]
  /\ request' = Abandoned(w)
  /\ UNCHANGED <<rows, tokens, now>>

\* The host shows the widget again from the result of open_mailbox_settings.
ShowAgain(w) ==
  /\ window[w].first # 0
  /\ lost < MaxLost
  /\ lost' = lost + 1
  /\ window' = [window EXCEPT ![w].token = window[w].first, ![w].waiting = FALSE]
  /\ request' = Abandoned(w)
  /\ UNCHANGED <<rows, tokens, now>>

----------------------------------------------------------------------------
\* The store

\* create counts the mailboxes in the transaction that inserts the row.
Storable(m) == mailbox[m] = Unused /\ Count < MaxMailboxes

Inserted(m, a, c, enabled) == [mailbox EXCEPT ![m] =
  [state |-> "stored", settings |-> a, credentials |-> c, enabled |-> enabled, health |-> "connected"]]

\* Mutant of Updated: the mailbox stays enabled.
UpdatedEnabled(m, a) == [mailbox EXCEPT ![m] = [mailbox[m] EXCEPT !.settings = a, !.health = "unknown"]]

\* update: new settings have to be tested and enabled again.
Updated(m, a) == [mailbox EXCEPT ![m] =
  [mailbox[m] EXCEPT !.settings = a, !.enabled = FALSE, !.health = "unknown"]]

EnabledTo(m, enabled) == [mailbox EXCEPT ![m].enabled = enabled]

\* Mutant of Recorded: the status of the test becomes the health of the mailbox.
RecordedVerdict(m, verdict) == [mailbox EXCEPT ![m].health = verdict]

\* recordHealth leaves `enabled` alone, also when the test failed.
Recorded(m, verdict) ==
  [mailbox EXCEPT ![m].health = IF verdict = "PASS" THEN "connected" ELSE "error"]

\* replaceCredentials marks the row as connected.
Replaced(m, c) ==
  [mailbox EXCEPT ![m] = [mailbox[m] EXCEPT !.credentials = c, !.health = "connected"]]

Without(ms) == [m \in Mailboxes |-> IF m \in ms THEN Deleted ELSE mailbox[m]]

----------------------------------------------------------------------------
\* The server

\* Mutant of Revoked: deleteAll leaves the sessions alone.
RevokedNone(s) == Others(request[s].token)

\* revokeUser, after the request has been given its next token.
Revoked(s) == {}

Finish(s, next, ok) == request' = [request EXCEPT ![s].state = "done", ![s].next = next, ![s].ok = ok]

\* authorizeSettings refuses: the token is gone all the same.
Refuse(s) ==
  LET r == request[s] IN
  /\ r.state = "sent"
  /\ \A x \in sessions : x.token = r.token => x.expires <= now
  /\ sessions' = Others(r.token)
  /\ Finish(s, 0, FALSE)
  /\ UNCHANGED <<rows, issued, now, window, accepted, erased, lost>>

\* authorizeSettings accepts: the next token is issued before the operation begins.  The end of the
\* session is carried over in whole seconds, rounded down, which can only end the chain earlier.
Authorize(s) ==
  LET r == request[s] IN
  /\ r.state = "sent"
  /\ \E x \in sessions :
       /\ x.token = r.token
       /\ x.expires > now
       /\ Issue(Others(r.token), x.expires, x.until)
  /\ accepted' = [accepted EXCEPT ![r.token] = accepted[r.token] + 1]
  /\ UNCHANGED <<now, window, lost>>

Tests(op) == op \in {"create", "test", "replace"}

\* What an operation that tests nothing does to the rows.
Performed(r) ==
  CASE r.op = "update"    -> Updated(r.mailbox, r.settings)
    [] r.op = "enable"    -> EnabledTo(r.mailbox, TRUE)
    [] r.op = "disable"   -> EnabledTo(r.mailbox, FALSE)
    [] r.op = "delete"    -> Without({r.mailbox})
    [] OTHER              -> mailbox

\* The row exists; enabling asks for a passed test.
Performable(r) ==
  /\ r.mailbox # None => Live(r.mailbox)
  /\ r.op = "enable" => mailbox[r.mailbox].health = "connected"

Perform(s) ==
  /\ Authorize(s)
  /\ ~Tests(request[s].op)
  /\ request[s].op # "deleteAll"
  /\ mailbox' = IF Performable(request[s]) THEN Performed(request[s]) ELSE mailbox
  /\ Finish(s, issued + 1, Performable(request[s]))
  /\ UNCHANGED <<passed, erased>>

DeleteAll(s) ==
  LET r == request[s] IN
  /\ r.state = "sent"
  /\ r.op = "deleteAll"
  /\ issued < MaxTokens
  /\ \E x \in sessions : x.token = r.token /\ x.expires > now
  /\ issued' = issued + 1
  /\ sessions' = Revoked(s)
  /\ accepted' = [accepted EXCEPT ![r.token] = accepted[r.token] + 1]
  /\ erased' = issued + 1
  /\ mailbox' = Without({m \in Mailboxes : Live(m)})
  /\ Finish(s, issued + 1, TRUE)
  /\ UNCHANGED <<passed, now, window, lost>>

\* The settings and credentials to test are read now, and used when the verdict comes.
BeginTest(s) ==
  LET r == request[s] IN
  /\ Authorize(s)
  /\ Tests(r.op)
  /\ IF r.mailbox # None /\ ~Live(r.mailbox)
     THEN Finish(s, issued + 1, FALSE)
     ELSE request' = [request EXCEPT ![s] = [r EXCEPT
            !.state = "testing", !.next = issued + 1,
            !.settings = IF r.op = "create" THEN r.settings ELSE mailbox[r.mailbox].settings,
            !.credentials = IF r.op = "test" THEN mailbox[r.mailbox].credentials ELSE r.credentials]]
  /\ UNCHANGED <<rows, erased>>

\* Mutant of Writable: the row is written whether it is still there or not.
WritableAnyway(m) == mailbox[m] # Unused

Writable(m) == Live(m)

\* The verdict comes, and the operation writes what it read before the test.
EndTest(s, verdict) ==
  LET r == request[s] IN
  /\ r.state = "testing"
  /\ passed' = IF verdict = "PASS" THEN passed \cup {<<r.settings, r.credentials>>} ELSE passed
  /\ \/ /\ r.op = "create" /\ verdict = "PASS"
        /\ \E m \in Mailboxes :
             /\ Storable(m)
             /\ \E enabled \in BOOLEAN :
                  mailbox' = Inserted(m, r.settings, r.credentials, enabled)
        /\ Finish(s, r.next, TRUE)
     \/ /\ r.op = "test" /\ Writable(r.mailbox)
        /\ mailbox' = Recorded(r.mailbox, verdict)
        /\ Finish(s, r.next, verdict = "PASS")
     \/ /\ r.op = "replace" /\ verdict = "PASS" /\ Writable(r.mailbox)
        /\ mailbox' = Replaced(r.mailbox, r.credentials)
        /\ Finish(s, r.next, TRUE)
     \/ /\ \/ r.op = "create" /\ (verdict = "FAIL" \/ \A m \in Mailboxes : ~Storable(m))
           \/ r.op = "test" /\ ~Writable(r.mailbox)
           \/ r.op = "replace" /\ (verdict = "FAIL" \/ ~Writable(r.mailbox))
        /\ mailbox' = mailbox
        /\ Finish(s, r.next, FALSE)
  /\ UNCHANGED <<tokens, now, window, lost>>

----------------------------------------------------------------------------
Widget ==
  \/ \E w \in Windows, oauth \in 1..(MaxTime + 1) : OpenSettings(w, oauth)
  \/ \E w \in Windows, s \in Slots, op \in Operations, m \in Mailboxes \cup {None},
        a \in Settings \cup {None}, c \in Credentials \cup {None} : SendRequest(w, s, op, m, a, c)
  \/ \E s \in Slots : ReceiveAnswer(s)
  \/ \E w \in Windows : LoseAnswer(w) \/ ShowAgain(w)

Server ==
  \E s \in Slots :
    \/ Refuse(s)
    \/ Perform(s)
    \/ DeleteAll(s)
    \/ BeginTest(s)
    \/ \E verdict \in {"PASS", "FAIL"} : EndTest(s, verdict)

Next == Widget \/ Server \/ Tick

Spec == Init /\ [][Next]_vars
----------------------------------------------------------------------------
\* Properties

Request == [state : {"none", "sent", "testing", "done"},
            window : Windows \cup {None}, op : Operations \cup {None},
            mailbox : Mailboxes \cup {None}, settings : Settings \cup {None},
            credentials : Credentials \cup {None}, token : 0..MaxTokens,
            next : 0..MaxTokens, ok : BOOLEAN]

\* The rows, sessions and requests have the shape the code gives them.
TypeOK ==
  /\ mailbox \in [Mailboxes -> Row]
  /\ sessions \subseteq [token : 1..MaxTokens, expires : Nat, until : Nat]
  /\ issued \in 0..MaxTokens /\ erased \in 0..MaxTokens
  /\ now \in 0..MaxTime /\ lost \in 0..MaxLost
  /\ window \in [Windows -> [token : 0..MaxTokens, first : 0..MaxTokens, waiting : BOOLEAN]]
  /\ request \in [Slots -> Request]
  /\ passed \subseteq Settings \X Credentials
  /\ accepted \in [1..MaxTokens -> Nat]

\* What is true when a test begins is asked for again when its verdict comes: creations that
\* await their tests together do not take the user over the limit, and the row of a mailbox
\* deleted meanwhile is not written back.
LateVerdictsAreChecked ==
  [][/\ Count' <= MaxMailboxes
     /\ \A m \in Mailboxes : mailbox[m] = Deleted => mailbox'[m] = Deleted]_vars

\* A token is accepted once, however often a widget that lost an answer or was shown again
\* presents it; no chain of rotated tokens outlives the session it started with; and after
\* the deletion of everything no token issued before is accepted, the one in the answer to a
\* request still running included.
TokensAreAcceptedOnceInTime ==
  [][\A t \in 1..MaxTokens : accepted'[t] > accepted[t] =>
       /\ accepted'[t] = 1
       /\ \E x \in sessions : x.token = t /\ now < x.until
       /\ t > erased]_vars

\* Settings or credentials that did not pass together are enabled or shown as connected.
UsableUntested(m) ==
  /\ Live(m)
  /\ mailbox[m].enabled \/ mailbox[m].health = "connected"
  /\ <<mailbox[m].settings, mailbox[m].credentials>> \notin passed

\* "Mailbox must pass a connection test before it can be enabled", as far as the code keeps
\* it: a mailbox becomes usable untested only by the good verdict of a test of it whose
\* settings or credentials another request replaced while it ran, and in no other way.
UntestedOnlyByOverlap ==
  [][\A m \in Mailboxes : UsableUntested(m)' /\ ~UsableUntested(m) =>
       \E s \in Slots :
         /\ request[s].state = "testing" /\ request'[s].state = "done"
         /\ request[s].mailbox = m
         /\ <<request[s].settings, request[s].credentials>> \in passed']_vars
===============================================================================
