------------------------------ MODULE AdminConfig ------------------------------
(***************************************************************************)
(* The emergency panel of src/admin: administrators log in, look at the    *)
(* mailboxes of the configuration file, save, toggle and test them.  A     *)
(* request is a chain of awaits; those of several browsers interleave,     *)
(* files and secrets may be refused by the system at each of them, and the *)
(* process may stop.  One semaphore serialises the rewriting of the file.  *)
(*                                                                         *)
(* A secret's file is replaced by a rename like the configuration's, here  *)
(* in one step, and a mailbox has secret names of its own.  Rate limits,   *)
(* host and origin checks and what a page shows are left out; so is a      *)
(* request without the CSRF value of its session, which changes nothing.   *)
(***************************************************************************)
EXTENDS Semaphore, FiniteSets

CONSTANTS
  Clients,       \* browsers
  Mailboxes,     \* mailbox ids
  Forms,         \* what a form that parses says of a row: records of enabled and folders
  Gives,         \* of a browser: the secrets its forms give, <<>>, one or both in the order of the form
  FolderChoices, \* folders of the allowlist form; {} are names of nothing but blanks
  MaxRequests    \* bound: requests that change something

ASSUME BoundIsNatural == MaxRequests \in Nat
ASSUME GivesAreSecrets == \A c \in Clients : Gives[c] \subseteq Seq({"username", "password"})
ASSUME FormsParse == \A form \in Forms : form.enabled \in BOOLEAN /\ form.folders # {}

VARIABLES
  file,      \* the configuration file: a row of each mailbox
  backup,    \* the newest copy of the file, or NoConfig
  secrets,   \* the request that wrote the username and the password of a mailbox; 0 at the start
  states,    \* of a mailbox: how the last test ended
  sessions,  \* browsers with a live session
  req,       \* of a browser: the request under way
  lock,      \* #lock of the configuration store
  audit,     \* the audit file: what was told of which request
  history,   \* what requests did, <<request, deed>>
  begun      \* requests so far

vars == <<file, backup, secrets, states, sessions, req, lock, audit, history, begun>>
server == <<states, sessions, lock>>

Secrets == {"username", "password"}

NoConfig == [none |-> TRUE]
NoRow    == [saved |-> 0, enabled |-> FALSE, folders |-> {}, unseen |-> "absent"]

\* `unseen`: folder_access, send_* and smtp_*, which the form does not have.
Row(n, form) == [saved |-> n, enabled |-> form.enabled, folders |-> form.folders, unseen |-> "default"]

NoReq == [op |-> "none", at |-> "none", n |-> 0, mailbox |-> "none", form |-> [enabled |-> FALSE, folders |-> {}],
          todo |-> <<>>, sets |-> FALSE, base |-> NoConfig, entry |-> "none"]

Init ==
  /\ file \in [Mailboxes -> {NoRow} \cup {[Row(0, form) EXCEPT !.unseen = "chosen"] : form \in Forms}]
  /\ backup = NoConfig
  /\ secrets = [m \in Mailboxes |-> [secret \in Secrets |-> 0]]
  /\ states = [m \in Mailboxes |-> "unknown"]
  /\ sessions = {}
  /\ req = [c \in Clients |-> NoReq]
  /\ lock = NewSemaphore(1)
  /\ audit = {} /\ history = {} /\ begun = 0

Has(config, m) == config[m] # NoRow

----------------------------------------------------------------------------
\* Browsers

\* The deed of the browser that a secret in a form is.
Given(secret) == IF secret = "username" THEN "gives username" ELSE "gives password"

\* A request that may change something is numbered.
Begin(c, request) ==
  /\ c \in sessions /\ req[c] = NoReq /\ begun < MaxRequests
  /\ begun' = begun + 1
  /\ req' = [req EXCEPT ![c] = [request EXCEPT !.n = begun + 1]]
  /\ history' = history \cup {<<begun + 1, Given(request.todo[i])>> : i \in DOMAIN request.todo}
  /\ UNCHANGED <<file, backup, secrets, audit, server>>

Logs(c, op, at) ==
  /\ req[c] = NoReq
  /\ req' = [req EXCEPT ![c].op = op, ![c].at = at]
  /\ UNCHANGED <<file, backup, secrets, audit, history, begun, server>>

Login(c)  == c \notin sessions /\ Logs(c, "login", "verify")
Logout(c) == c \in sessions /\ Logs(c, "logout", "destroy")

Create(c, m, form, todo) ==
  Begin(c, [NoReq EXCEPT !.op = "create", !.at = "parse", !.mailbox = m, !.form = form, !.todo = todo])

Save(c, m, form, todo) ==
  Begin(c, [NoReq EXCEPT !.op = "save", !.at = "load", !.mailbox = m, !.form = form, !.todo = todo])

Toggle(c, m) ==
  Begin(c, [NoReq EXCEPT !.op = "toggle", !.at = "load", !.mailbox = m])

SetFolders(c, m, folders) ==
  Begin(c, [NoReq EXCEPT !.op = "folders", !.at = "load", !.mailbox = m,
                         !.form = [enabled |-> FALSE, folders |-> folders]])

Test(c, m) ==
  Begin(c, [NoReq EXCEPT !.op = "test", !.at = "load", !.mailbox = m])

\* A session that is not used for session_timeout_ms is deleted; a request it has let in goes on.
Expires(c) ==
  /\ c \in sessions
  /\ sessions' = sessions \ {c}
  /\ UNCHANGED <<file, backup, secrets, states, req, lock, audit, history, begun>>

----------------------------------------------------------------------------
\* Requests

\* The rest of a request that has failed is its error page.
Answered(c) == req' = [req EXCEPT ![c] = NoReq]
GoesTo(c, at) == req' = [req EXCEPT ![c].at = at]
WillTell(c, entry) == req' = [req EXCEPT ![c].at = "audit", ![c].entry = entry]

Disk == <<file, backup, secrets>>

\* What comes after the row has been looked up outside the lock.
AfterLoad(op) == CASE op = "save" -> "parse" [] op = "test" -> "testing" [] OTHER -> "enter"

\* Refused where there is no such row or no folder in the form, or by the system.
Load(c) ==
  LET r == req[c] IN
  /\ r.at = "load"
  /\ \/ Answered(c)
     \/ /\ Has(file, r.mailbox)
        /\ req' = [req EXCEPT ![c].at = AfterLoad(r.op), ![c].sets = ~file[r.mailbox].enabled]
  /\ UNCHANGED <<audit, history, server, Disk, begun>>

Parse(c, valid) ==
  /\ req[c].at = "parse"
  /\ IF valid THEN GoesTo(c, IF req[c].todo = <<>> THEN "enter" ELSE "secrets")
              ELSE WillTell(c, "refused")
  /\ UNCHANGED <<audit, history, server, Disk, begun>>

\* Mutant of NextDeed: the first secret is enough.
NextDeedAtOnce(c) == "enter"

\* Each secret that was given is replaced and told of before the configuration is.
NextDeed(c) == IF Len(req[c].todo) > 1 THEN "secrets" ELSE "enter"

Replace(c) ==
  LET r == req[c] IN
  /\ r.at = "secrets"
  /\ \/ /\ secrets' = [secrets EXCEPT ![r.mailbox][Head(r.todo)] = r.n]
        /\ history' = history \cup {<<r.n, Head(r.todo)>>}
        /\ GoesTo(c, "tell")
     \/ Answered(c) /\ UNCHANGED <<secrets, history>>
  /\ UNCHANGED <<file, backup, audit, server, begun>>

Tell(c) ==
  LET r == req[c] IN
  /\ r.at = "tell"
  /\ \/ /\ audit' = audit \cup {<<r.n, Head(r.todo)>>}
        /\ req' = [req EXCEPT ![c].at = NextDeed(c), ![c].todo = Tail(@)]
     \/ Answered(c) /\ UNCHANGED audit
  /\ UNCHANGED <<history, server, Disk, begun>>

\* Mutant of Enter: the file is read and replaced without the lock.
EnterAnyhow(c) ==
  /\ req[c].at = "enter"
  /\ GoesTo(c, "mutate")
  /\ UNCHANGED <<server, audit, history, Disk, begun>>

\* #mutate waits for the lock.
Enter(c) ==
  /\ req[c].at = "enter"
  /\ lock' = Entered(lock, <<c>>)
  /\ GoesTo(c, IF c \in GoingOn(lock, <<c>>) THEN "mutate" ELSE "queued")
  /\ UNCHANGED <<states, sessions, audit, history, Disk, begun>>

\* The lock goes to the request that has waited longest, and c goes on with `next`.
LeavesWith(c, next) ==
  /\ lock' = Left(lock)
  /\ req' = [d \in Clients |-> IF d = c THEN next
                               ELSE IF d \in Woken(lock) THEN [req[d] EXCEPT !.at = "mutate"] ELSE req[d]]

\* The change of a request, made to a configuration.
Changed(r, config) ==
  CASE r.op = "toggle"  -> [config EXCEPT ![r.mailbox].enabled = r.sets]
    [] r.op = "folders" -> [config EXCEPT ![r.mailbox].folders = r.form.folders]
    [] OTHER            -> [config EXCEPT ![r.mailbox] = Row(r.n, r.form)]

\* Mutant of Valid: what was changed is not parsed again.
ValidAnyhow(config) == TRUE

\* The schema wants a folder in every allowlist.
Valid(config) == \A m \in Mailboxes : Has(config, m) => config[m].folders # {}

Mutate(c) ==
  LET r == req[c] IN
  /\ r.at = "mutate"
  /\ \/ /\ Valid(Changed(r, file))
        /\ req' = [req EXCEPT ![c].at = "copy", ![c].base = Changed(r, file)]
        /\ UNCHANGED lock
     \/ /\ ~Valid(Changed(r, file))
        /\ LeavesWith(c, NoReq)
  /\ UNCHANGED <<states, sessions, audit, history, Disk, begun>>

Copy(c) ==
  /\ req[c].at = "copy"
  /\ backup' = file
  /\ GoesTo(c, "write")
  /\ UNCHANGED <<file, secrets, audit, history, server, begun>>

\* The temporary file has a name of its own; one that a stop leaves behind is never read.
Write(c) ==
  /\ req[c].at = "write"
  /\ GoesTo(c, "rename")
  /\ UNCHANGED <<audit, history, server, Disk, begun>>

\* Mutant of Deed: what a toggle does to the row that is there now.
DeedNow(r) ==
  CASE r.op = "create"  -> "created"
    [] r.op = "save"    -> "updated"
    [] r.op = "folders" -> "folders"
    [] OTHER            -> IF file[r.mailbox].enabled THEN "disabled" ELSE "enabled"

\* What will be told of a request: what it was to do.
Deed(r) ==
  CASE r.op = "create"  -> "created"
    [] r.op = "save"    -> "updated"
    [] r.op = "folders" -> "folders"
    [] OTHER            -> IF r.sets THEN "enabled" ELSE "disabled"

\* What it does to the row that is replaced.
Does(r) ==
  CASE r.op = "folders" -> "folders"
    [] r.op = "toggle"  -> IF r.base[r.mailbox].enabled THEN "enabled" ELSE "disabled"
    [] OTHER            -> IF Has(file, r.mailbox) THEN "updated" ELSE "created"

Rename(c) ==
  LET r == req[c] IN
  /\ r.at = "rename"
  /\ file' = r.base
  /\ history' = history \cup {<<r.n, Does(r)>>}
  /\ LeavesWith(c, [r EXCEPT !.at = "audit", !.entry = Deed(r), !.base = NoConfig])
  /\ UNCHANGED <<backup, secrets, states, sessions, audit, begun>>

Locked == {"mutate", "copy", "write", "rename"}

\* Mutant of Refused: the lock is given back only on success.
RefusedLocked(c) ==
  /\ req[c].at \in Locked
  /\ Answered(c)
  /\ UNCHANGED <<server, audit, history, Disk, begun>>

\* Reading, copying, writing or renaming is refused: the temporary file is removed and the lock
\* given back.
Refused(c) ==
  /\ req[c].at \in Locked
  /\ LeavesWith(c, NoReq)
  /\ UNCHANGED <<states, sessions, audit, history, Disk, begun>>

TestEnds(c, passes) ==
  LET r == req[c] IN
  /\ r.at = "testing"
  /\ states' = [states EXCEPT ![r.mailbox] = IF passes THEN "PASS" ELSE "FAIL"]
  /\ history' = history \cup {<<r.n, "tested">>}
  /\ WillTell(c, "tested")
  /\ UNCHANGED <<sessions, lock, audit, Disk, begun>>

Verify(c, valid) ==
  /\ req[c].at = "verify"
  /\ WillTell(c, IF valid THEN "login" ELSE "no login")
  /\ UNCHANGED <<audit, history, server, Disk, begun>>

Destroy(c) ==
  /\ req[c].at = "destroy"
  /\ sessions' = sessions \ {c}
  /\ WillTell(c, "logout")
  /\ UNCHANGED <<states, lock, audit, history, Disk, begun>>

\* The last entry; a login has its session after it.  Entries of logins and logouts, which have
\* no number, are not followed.
Audit(c) ==
  LET r == req[c] IN
  /\ r.at = "audit"
  /\ \/ /\ audit' = IF r.n = 0 THEN audit ELSE audit \cup {<<r.n, r.entry>>}
        /\ sessions' = IF r.entry = "login" THEN sessions \cup {c} ELSE sessions
     \/ UNCHANGED <<audit, sessions>>
  /\ Answered(c)
  /\ UNCHANGED <<states, lock, history, Disk, begun>>

\* The process stops and is started again: what is on disk stays.
Stop ==
  /\ states' = [m \in Mailboxes |-> "unknown"]
  /\ sessions' = {} /\ lock' = NewSemaphore(1)
  /\ req' = [c \in Clients |-> NoReq]
  /\ UNCHANGED <<audit, history, begun, Disk>>

----------------------------------------------------------------------------
Asks(c) ==
  \/ Login(c) \/ Logout(c) \/ Expires(c)
  \/ \E m \in Mailboxes :
       \/ Toggle(c, m) \/ Test(c, m)
       \/ \E form \in Forms, todo \in Gives[c] : Create(c, m, form, todo) \/ Save(c, m, form, todo)
       \/ \E folders \in FolderChoices : SetFolders(c, m, folders)

Goes(c) ==
  \/ Load(c) \/ Replace(c) \/ Tell(c)
  \/ Enter(c) \/ Mutate(c) \/ Copy(c) \/ Write(c) \/ Rename(c) \/ Refused(c)
  \/ Destroy(c) \/ Audit(c)
  \/ \E yes \in BOOLEAN : Parse(c, yes) \/ TestEnds(c, yes) \/ Verify(c, yes)

Next == (\E c \in Clients : Asks(c) \/ Goes(c)) \/ Stop

Spec == Init /\ [][Next]_vars

\* Every await of the file system, of the scrypt thread and of the test's sockets, which have
\* timeouts, comes to its end.
FairSpec == Spec /\ \A c \in Clients : WF_vars(Goes(c))
----------------------------------------------------------------------------
\* Properties

Rows == [saved : 0..MaxRequests, enabled : BOOLEAN,
         folders : ({form.folders : form \in Forms} \cup FolderChoices) \ {{}},
         unseen : {"chosen", "default"}] \cup {NoRow}

\* Rows are what the schema accepts, and sessions, requests and the lock what the code makes them.
TypeOK ==
  /\ file \in [Mailboxes -> Rows]
  /\ sessions \subseteq Clients
  /\ \A m \in Mailboxes : states[m] \in {"unknown", "PASS", "FAIL"}
  /\ \A c \in Clients : req[c].n \in 0..begun /\ (req[c].at = "none" => req[c] = NoReq)
  /\ lock.free \in Nat /\ lock.queue \in Seq(Clients)

\* The settings of a save are in the file only when the secrets given with them are in theirs.
SettingsHaveTheirSecrets ==
  \A m \in Mailboxes, secret \in Secrets :
    <<file[m].saved, Given(secret)>> \in history =>
      /\ <<file[m].saved, secret>> \in history
      /\ secrets[m][secret] # 0

\* An entry of the audit, and what was done: a creation that finds a row is told as one.
Deserved(entry, done) ==
  entry \in done \/ (entry[2] = "created" /\ <<entry[1], "updated">> \in done)

\* The audit tells of nothing that was not done: a mailbox that is told as updated was there, one
\* that is told as enabled or disabled was made so, although the row was read before the lock,
\* and a secret that is told as replaced is in its file.  What it tells untruly is the creation
\* of a mailbox whose row is there, or has come since the form was opened: the row is replaced.
AuditIsTruthful == \A entry \in audit : entry[2] = "refused" \/ Deserved(entry, history)

\* No change is lost: a request changes the file as it is when it is replaced, not as it was
\* when the request read it; and the configuration that is replaced is there as a copy,
\* whichever rewrites were refused or stopped before.
ChangesAreSerial ==
  [][/\ file' # file => backup' = file
     /\ \A c \in Clients : req[c].at = "rename" /\ req'[c].at = "audit" =>
          file' = Changed(req[c], file)]_vars

\* Every request is answered: the lock is given back whatever fails.
RequestsAreAnswered == \A c \in Clients : (req[c].at # "none") ~> (req[c].at = "none")
===============================================================================
