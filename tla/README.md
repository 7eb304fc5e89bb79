# MailBridge: TLA+ specifications and proofs

MailBridge is an MCP server over IMAP and SMTP mailboxes. It reads mail for a
connected client, and it sends mail through a pipeline of drafts, confirmations
and idempotent submissions called Safe Send. This directory models the parts in
which several clients, windows, awaits, late answers and process stops meet.
The source of every definition is named in `PROJECT.json` ("map").

Node runs one handler at a time up to its next `await`. The models follow that:
the synchronous code between two awaits is one action, and anything else may
happen at an await.

## Inventory

| Component | State | Operations | Interacts with | What is hard | What makes it correct |
|---|---|---|---|---|---|
| Safe Send pipeline (`mailSendService.ts`, `store.ts`) | tables of drafts, confirmations, policies, operations, receipts, rate events | create, edit, prepare, send a draft; send and reply directly; delete; configure | SMTP transport, composer, settings | overlapping sends of one key, edits and deletions during a delivery, stops of the process, lost answers | one submission for a key; a confirmation fits the content and policy; the recorded outcome is the server's; nothing outlives its mailbox |
| SMTP transport (`smtpAdapter.ts`) | none | connect, hand over, answer | pipeline, Sent copy | failure before or after the hand-over cannot be told apart | an uncertain outcome is never sent again |
| Sent copy writer (`sentCopy.ts`) | loop over connections | observe, append, retry | IMAP server, provider | appends given up and stored later, providers that save late | a copy is stored once, as far as a search can tell; a claimed copy exists; connections are closed; it returns |
| Safe Send composer (`safeSendWidget.ts`) | variables of a window, calls it awaits | edit, attach, save, validate, prepare, send, cancel | draft tools of the server through the host | answers in any order, two windows, calls handled after the host gave up | what is approved is what is sent; no blind overwrite; the button follows the call |
| Settings API (`settingsApi.ts`, `store.ts`) | rows of mailboxes | create, update, test, replace credentials, enable, delete, delete all | connection test, sessions, widget | a test is awaited between reading and writing a row | enabled settings were tested; the limit holds; deleted is deleted |
| Settings sessions (`settingsSessions.ts`) | map of one-time tokens | issue, consume, rotate, revoke | settings API, `open_mailbox_settings` | lost answers, widgets shown again, expiry along a chain | a token is accepted once; a chain ends in time; revocation is complete |
| Settings widget (`widget.ts`) | token and list of mailboxes | a queue of requests | settings API | a failed fetch leaves a used token | one request at a time |
| Send policy (`safeSendPolicy.ts`) | none | evaluate | pipeline | domains, limits at their boundary | no reservation beyond the limits |
| Mail reading (`mailService.ts`, `util/concurrency.ts`, `knowledgeScope.ts`) | two levels of semaphores, a folder cache, what a call has gathered | search, page, batch, thread, raw source, attachment, health, probe | IMAP adapter | permits held while waiting for permits, timeouts that do not stop the operation, partial failures, cuts at three limits | no deadlock; bounded operations; what is missing is told; pages without gaps |
| IMAP adapter (`imapFlowAdapter.ts`) | a connection per operation | EXAMINE, search, fetch in chunks, stream, probe | IMAP server | the folder changes, or is created anew, between any two commands | pieces are of one message, whole at the end; reads set no flag |
| Emergency admin panel (`admin/`) | configuration file with its copies, secrets, test states, sessions, audit file | log in and out, save, create, toggle, choose folders, test | file system, secrets, registry | every step is an await; two administrators, refused file operations, a stop between two of them | no lost update, no setting without its secret, a true audit |
| Transports and factory (`transport/`, `serviceFactory.ts`) | scope of a request, rate limit, lifetime of the process | open, close, shut down | everything | a request outlives the rows it was made from | stale scopes do no harm |
| Configuration, registry, crypto, OAuth | files, keys, key cache | load, resolve, encrypt, verify | everything | pure or delegated to libraries | input checks |
| Identifiers, brand guard, content limits, findings | none | encode, filter, match | reading | text heuristics | pure functions |
| Demo, maintenance, command line, scripts | fixtures, files | start, stage, scan | — | — | outside the running system |

`PROJECT.json` lists every component with its files and status, and under
"hazards" each situation that is hard to test, at its line, with the properties
that cover it.

## Modules

| Module | What it is |
|---|---|
| `SafeSend` | the pipeline of one user, with deletion, policies, time and process stops |
| `SubmissionLedger` | what the pipeline promises: a key is reserved by one request, handed over at most once, settled once |
| `SafeSendProofs` | theorems about `SafeSend`, and that it implements the ledger |
| `Composer`, `ComposerProofs` | windows of the composer, the host, and the server's side of one draft; theorems about them |
| `MailboxSettings`, `MailboxSettingsProofs` | widgets, one-time sessions, the settings API and the rows of mailboxes; theorems about them |
| `SentCopy`, `SentCopyProofs` | the Sent copy writer against a folder and a provider; theorems about it |
| `ReadFanout`, `ReadFanoutProofs` | the read tools over several mailboxes: scopes, permits, timeouts, partial failures, truncation, folder lists; theorems about them |
| `Semaphore` | the semaphore of `concurrency.ts` as a value, used by `ReadFanout` and `AdminConfig` |
| `PermitPool`, `PermitPoolProofs` | what a family of semaphores promises, implemented by the fan-out and the mailboxes of `ReadFanout`; its theorem |
| `FolderReading`, `FolderReadingProofs` | one folder on an IMAP server, read page by page and piece by piece while it changes; theorems about it |
| `AdminConfig`, `AdminConfigProofs` | the emergency panel with its files, await by await; theorems about it |
| `MC*` | the instances TLC checks, one `.cfg` for each question |

The modules meet at tables and messages. `SafeSend` is the server behind all
clients and leaves open who calls; `Composer` is one such client, with the
server reduced to one draft, one outstanding confirmation and one delivery (what
that reduction relies on is what `SafeSend` proves). `MailboxSettings` creates
and deletes the mailboxes `SafeSend` sees appear and disappear. `SentCopy` runs
inside the await between the SMTP answer and the receipt (`SmtpAnswers`).
`ReadFanout` has whole IMAP operations as its steps, each ending in an answer, a
failure or a timeout; `FolderReading` opens one of them up into its commands.
`AdminConfig` writes the file whose mailboxes `ReadFanout` finds enabled and whose
secrets it finds readable or not, which both leave open to the other.

Definitions named "Mutant of ..." are plausible mistakes in the code. A mutant
takes the place of the definition in a second run, in which its property must
fail. They show that the property depends on that piece of code.

### SafeSend and the code

* Variables are the tables: `mailbox`, `policy`, `draft`, `confirmation`,
  `operation` (with its rate event), `receipt`; `request` is what a request has
  in memory, its scope and the await it is at. `handed` and `answer` are history:
  what reached the SMTP server and what it said.
* `SendDraft` is the synchronous prefix of `sendDraft` up to the delivery:
  guards, policy, the confirmation, the reservation. The confirmation is spent in
  a transaction of its own, so `SendDraftRefused` spends it without a
  reservation.
* `HandOver`, `SmtpAnswers`, `DeliveryFails`, `CompleteSend`, `CompleteFails` and
  `MarkDraftSent` are the steps of `#sendOnce` and of `sendDraft` after it.
  `CompleteSend` needs the mailbox, because the audit row in its transaction
  refers to it.
* `Cascade` is `ON DELETE CASCADE`: receipts refer to the user only, so the
  deletion of one mailbox keeps them and the deletion of everything does not.
* `Crash` keeps the tables and forgets the requests.
* A payload is a model value, so the hash of a request is the pair of mailbox and
  payload; a confirmation may expire and a rate event may age at any moment,
  which covers every clock.

### Composer and the code

* Each of the widget's asynchronous functions is cut at its `callTool`: a click
  sends a call, the server serves it, the answer is taken up by `Saved`,
  `Validated`, `Attached`, `Detached`, `Prepared`, `Sent` or `Failed`. `then`
  says which function `save` was called from.
* `HostGivesUp` reports an error while the call stays on its way (`late`) and may
  still be handled (`ServeLate`). This is the host's behaviour and external.
* `patient` is a choice of the environment: such users act only while nothing is
  pending. Only `ScreenIsWhatIsSent` needs it (see Limits of the guarantees).
* A delivery that no recipient accepted is answered with the draft as it was when the
  sending began, any other with the row as it is by then (`Delivered`). The reading of a
  file may fail before anything is sent (`FileRead`).
* `delivery.shown` and `editor` are history.

### MailboxSettings and the code

* A request is `sent`, then refused or authorized. Authorization consumes the
  token, issues the next one and runs the handler in one step, as
  `authorizeSettings` calls `next()` synchronously. A handler that tests a
  connection stops at `testing` with the settings and credentials it read, and
  `EndTest` writes with them.
* The code carries the end of a chain over in whole seconds, rounded down
  (`settingsApi.ts:218`), which can only end it earlier; `Authorize` carries it over as
  it is, so what the properties say of the end holds of the code.
* A widget sends its next request when the one before has come back (`queue` in
  `widget.ts`). `LoseAnswer` and `ShowAgain` break that: the handler goes on and
  the widget holds a token that was used.
* `passed` is history: pairs that passed a test together. A verdict is a choice.

### SentCopy and the code

* `pc` is the await the writer is at. Each await may fail, `mailboxClose` in the
  finally block included, whose exception replaces what was found.
* `own` and `provided` are the copies in the folder. The provider saves at any
  time. An append that ends with an exception was stored, will not be, or is
  `pending`: the client's socket has a timeout of 30 seconds, the server none, so
  `AppendLands` may store it after any number of later steps.
* The client's type lets a search answer `false`, which `observeExisting` counts
  as "not there"; `refused` counts such answers. `missed` counts the pending
  appends that an answered search was too early for, and `late` those of them that
  were stored. `AppendedOnce` says what the two may cost: one copy too many for
  each. Nothing else makes a second copy.

### ReadFanout and the code

* An operation is <<call, mailbox, what>>. It is waiting in the queue of the
  fan-out or of its mailbox (`fanout`, `box`), `admitted` when it has its permits
  and is about to create a connection, `open` when it has one.
* `Resolve` looks at a mailbox of the call: its secrets (`SECRET_UNAVAILABLE`), its
  folder list, from the cache or by a `discover` operation under the mailbox's
  permit only. `Launch` starts the searches of all its folders at once. Between the
  two the call is resumed after an await, and the default folders are read from the
  cache again (`Latest`, `mailService.ts:586`): another discovery may have replaced
  the list the call was given, and a default folder that is not on the call's own
  list fails the mailbox.
* `Ends` with "timeout" is `withTimeout`: the permits go back, and the connection
  lives on. So the bounds are bounds of permits, not of connections. `Told` turns
  the end into results or a partial failure, and `Answer` waits for all of them
  (`Settled`).
* A health check of a mailbox that is named and disabled is refused (`Check`).
* `owed` is history: the folders an answer should cover when its searches begin.
  `AnswersAccountForAll` asks for a result or a failure of each of them. `Covers`
  lets All Mail stand for the plain folders of a discovered mailbox.
* A search is its outcome over `Contents`, a constant table of mailboxes and
  folders; the window of candidates, the filter on attachments, the removal of
  duplicates by `KeyOf` and the limit of results follow `#search`.
* Left out: `list_mailboxes` and the connection states only it reads, failures and
  messages inside a thread, the arithmetic of scores.

### FolderReading and the code

* `folder` (`validity`, `present`, `nextUid`, `seen`) is what the server has.
  `Deliver`, `Expunge`, `FlipSeen` and `Recreate` are other clients and may come
  between any two awaits of the adapter.
* A call opens the folder by EXAMINE (`Open`), compares UIDVALIDITY (`Current`),
  and goes on to `Search`, `Fetch`, `FetchRange`, `ListParts`, `Download` and the
  stream, or the three reads of the probe.
* `review` is the client that follows the cursors of the answers it is given, to
  the end or to the first error it does not repeat; a transport error it may.
* The server may ignore EXAMINE or BODY.PEEK; leave the size of a message out,
  overstate or understate it; end the stream of an attachment anywhere; or refuse a
  search, of a page or of the probe, which then reports an empty mailbox.
* Whatever reads a body is `ReadBodies`: a page reads the first 16 KB of every
  candidate (`Fetch`), a message up to `sourceMaxBytes` (`FetchMessage`), a source its
  window, an attachment its stream, the probe its newest message.
* `short`, `early`, `touched`, `stayed`, `shown`, `pieces` and `marked` are history;
  `cut` is `source_truncated` as the client was told it.
* `Misled` names the three things a server may say or do that make the code take a part for
  the whole: too small a size, no size for a message that is cut, a stream that ends
  early. `PiecesMakeTheSource` asks for the whole of every other walk. When the
  size is not exact the last window may lie beyond the end and the walk ends in
  `RAW_SOURCE_UNAVAILABLE`; the property says that with an exact size it never does.

### AdminConfig and the code

* `req[c].at` is the await the request of a browser is at, `todo` the rest of its
  secrets and writes. `Load`, `Enter`, `Mutate`, `Copy`, `Write`, `Rename`, `Tell`
  and `Audit` are the awaits of `#mutate` in `configStore.ts` and of its callers;
  `Refused` is a file operation inside the lock that rejects, the reading of the
  configuration included (`Locked`), through the finally blocks; outside the lock each
  action has the refusal as a disjunct.
* `Gives` are the secrets a browser's forms may give: none, one or both, for a
  creation as for a save.
* `Write` makes a temporary file whose name only its request knows, so it is part
  of the request, and `Stop` forgets it with the request. `Rename` is atomic.
* `history` is what was done: `Does` looks at the row that is replaced at the
  `Rename`. `Deed` is what the audit is told, from what the request knew before
  it had the lock: created or updated, folders, enabled or disabled. `Deserved`
  compares them, with one exception (see Limits of the guarantees).
* Not followed: entries of logins and logouts, copies older than the newest (two
  changes within a millisecond give theirs one name), temporary files left behind,
  and when a test last succeeded. A request whose session ends meanwhile goes on, as
  in the code.

## Runs

| Run | Bounds | Shows |
|---|---|---|
| `drafts` | one mailbox, a draft and a direct key, 2 contents, 3 versions, limits of 1 and 2 per hour and per day, 1 policy change, 2 requests, no stop | types; confirmations are current; sent drafts were accepted; nothing outlives its mailbox; a submission spends a fitting confirmation; limits hold; submissions settle; accepted drafts are marked sent |
| `direct` | 2 mailboxes sharing one key, 2 contents, 2 requests, 1 stop | at most once; outcomes and receipts are true; the ledger (in which settled stays settled) is implemented |
| `edited` | one draft, 2 versions, 2 requests | violation, see Findings |
| `composer_calls` | one window, a file that is there or not; a hasty user with 2 calls at once and 3 versions, or a patient one with 4 versions, 2 confirmations and 1 call given up | types; the panel of the final click has its confirmation and its button follows the call; what a patient user sends is what is shown |
| `composer_windows` | 2 hasty windows, 3 versions, 1 confirmation, 1 call given up | no edit from a version the window has not shown |
| `settings_rows` | 2 widgets, 2 mailboxes, a limit of 1, 5 tokens, a clock of 1, lifetime 2, 1 lost answer; create, test, delete all | types; late verdicts respect the limit and deletions; tokens are accepted once, in their time, and not after everything was deleted |
| `settings_overlap` | 2 widgets, every operation, one mailbox, 2 settings, 2 credentials, 5 tokens | untested settings become usable only by the verdict of a test that was overtaken |
| `sent_copy` | 3 attempts, 5 observations (the values of the code), 2 refused searches, any append stored late | a copy once but for refused searches and late appends, never beside one seen; claims are true; no connection left; it returns |
| `read_fanout` | 2 calls, 3 mailboxes (one with All Mail, one with an allowlist, one disabled), 3 folders, 2 permits of the fan-out and 1 of each mailbox, limits of 2; a folder list with and without the plain folders | types; answers account for every mailbox and folder and leave nothing out silently; calls are answered; the semaphores implement `PermitPool`, so that operations are bounded and nobody waits in vain |
| `folder_reading` | 3 UIDs, 2 UIDVALIDITYs, pages and windows of 1 and 2, sources cut at 2, lengths 0, 2 and 3, 1 flag changed by others, all operations, every kind of size | types; reviews miss and repeat nothing; cursors advance; pieces make the whole source unless the server misleads; reads of pages, messages and pieces set no flag, and the probe tells when they do |
| `folder_reading_gap` | 4 UIDs, pages only | violation, see Findings |
| `admin_config` | 2 administrators, 1 mailbox, 2 changing requests, forms with both secrets, one or none, any file operation refused, any number of stops | types; settings have their secrets; true audit; serial changes that keep what they replace; requests are answered |

Why the bounds are enough: every hazard is between two actors, so two requests,
windows or widgets with one more to be the late one (a deleted mailbox's request,
a call given up) make it happen. A draft needs three versions for an edit before
and one after a confirmation; a limit needs one more key than it allows; the
reuse of a key needs two mailboxes. The contents only have to differ. A waiter
behind a waiter needs two calls with more operations than permits; a gap in a
review needs a page, a candidate beyond it and one message more; a lost update
needs two changing requests. The
mutants confirm that the interesting cases are inside the bounds: each property
fails under its mutant in the same run. `MaxVersion`, `MaxPolicyVersion`,
`MaxCrashes`, `MaxConfirmations`, `MaxLost`, `MaxTokens`, `MaxTime`,
`MaxRefused`, `MaxReads`, `MaxUid`, `MaxValidity`, `MaxFlips` and
`MaxRequests` are bounds of the exploration and occur in guards
only; the proofs leave those of their modules arbitrary. Permits, pages, windows,
`SourceMax` and limits are the small values the instances give to the code's constants.

Deadlock is checked in the runs of `SafeSend`, where a request may always be
opened or closed, and in `read_fanout`, where an answered call is taken and
another one begun, so that operations waiting for each other's permits would show.
The other systems may stop: windows idle, bounds used up, or a save returned.

Symmetry is used for requests, windows, calls, keys and rows that no definition
tells apart, and never in a run of a liveness property.

## Fairness

`SafeSend` assumes weak fairness of `Delivering(c)`: the transport's sockets have
timeouts (15 and 30 seconds), the Sent copy writer returns (`SaveReturns`), and
the event loop runs every continuation. Nothing is assumed of users, of other
requests, of policies or of deletions. The run `drafts` has no process stop,
and one is enough to leave an operation open (see Limits of the guarantees). `SentCopy` assumes
weak fairness of the writer, whose client has timeouts of 10, 15 and 30 seconds.
`ReadFanout` assumes it of the steps of a call and of its operations: `withTimeout`
ends each of them, and the event loop runs the continuations. `AdminConfig` assumes
that the file system answers, that the password is verified, and that the test ends,
whose sockets have timeouts. `Composer`, `MailboxSettings` and `FolderReading`
assume none.

## Proofs

TLAPS checks these for every number of mailboxes, drafts, keys, contents and
callers, every policy and every bound. The assumptions are the named ones of the
modules: keys of drafts and of direct sends differ, policies are well-formed,
bounds are naturals, `None` is no identifier, attempts are between one and five.

`SafeSend`: none of the safety properties is inductive by itself, because a
request under way acts later on what it learnt before. `Inv` in `SafeSendProofs`
says what it may rely on:

* `Typed`: the types, and that a delivering request knows its key, its mailbox
  and, once answered, its result;
* `RowsRefer`: stored rows name a live mailbox;
* `RequestsOwnRows`: a delivering request is the only one for its key and
  mailbox, its row is `submitting` or `unknown` unless the mailbox was deleted,
  nothing was handed over before it connects, and its result is the answer given;
* `HandedIsRecorded`: what was handed over, once, keeps its row while its mailbox
  exists, so `Reserve` finds it;
* `ReceiptsMatchOperations`, `OutcomeIsServersAnswer`, `ConfirmationsFit` and
  `DraftsOfRequests`, which the properties need of each other.

Mailbox identifiers are never used twice, and that is what separates a late
answer of a deleted mailbox from the row of the mailbox that took its key.
From `Init => Inv` and `Inv /\ [Next]_vars => Inv'` follow `TypeCorrect`,
`SentAtMostOnce`, `ConfirmedIsCurrent`, `OutcomeIsTrue`, `ReceiptsAreTrue`,
`NothingLeftBehind`, `SentWasAccepted` and the action properties `SettledForGood`
and `OnlyConfirmedDrafts`. The same invariant shows that
every step of the pipeline is a step of `SubmissionLedger` or a stutter
(`PipelineImplementsLedger`).

`RateLimitsHold` counts rate events, and a cardinality only means something of a
finite set. `LimitsAreKept` therefore has an invariant of its own, `Counting`: the
recorded operations are finitely many, as they are reserved one at a time. What is
counted grows only in `Reserve`, which has compared it with the limits in the same
synchronous step; every other step only ages or removes what is counted.

`SentCopyProofs` has `TypeCorrect`, `ClientsClosed`, `ClaimIsTrue`,
`CopiesAreAccountedFor` and `NeverBesideASeenCopy`, for any number of attempts,
observations and refused searches. The invariant is `NothingSeen`, about the
appends that are stored or on their way and that no answered search was too early
for (`Unmissed`): there are at most one more of them than searches were refused and
appends stored late, and, from the first search of an attempt to its append,
not even that one, for the search would have found it. While no search was refused, what is
there then came from the provider after the last answer.

`ComposerProofs` has `TypeCorrect`, `FinalClicksFollow`, the action property
`EditsAreInformed` and `ScreenIsSent`, for any number of windows, texts, files and
calls at once (`ComposerBounds`, `PatienceIsBoolean`, `NoneIsNothing`, and
`FilesAreFew`: a draft begins with a version for each of its files, within the
bound). `Inv` holds whoever edits: what a call was told, awaited or given up long
ago, is something its window has shown, so an edit carries a version the window
knows; and a window awaits at most one send, exactly while its button is disabled.
`ScreenIsSent` has the hypothesis `Alone`, that one window is open, without which
the property is false (see Limits of the guarantees). Its difficulty is the calls that
were given up and come late. The answer to a saving shows that its version was
current, so the server accepts no edit of an earlier one (`NoEdits`); the only edit
that can still come after the validation is a repeated saving of the same text
(`Clean`), and it takes away the confirmation the click names (`ClickFits`), so the
click is refused.

`MailboxSettingsProofs` has `TypeCorrect`, `LateVerdicts`, `AcceptedOnceInTime` and
`OnlyOverlapLeavesUntested`, for any number of widgets, requests, mailboxes and
tokens (`SettingsBounds`, `KnownOperations`, `NoneIsNothing`). Acceptance is
history, and says nothing of the sessions that are left; the invariant adds
`SessionsAreFresh`: each has a token never accepted, issued after the last
deletion of everything, that ends no later than its chain. A late verdict is harmless because `EndTest` looks at the row
again, and the limit is counted again with the rows that exist then (`LimitHolds`).

`AdminConfigProofs` has `TypeCorrect`, `SecretsComeFirst`, `AuditTellsDeeds` and
`NoChangeIsLost`, for any number of administrators, mailboxes, requests and stops
(`BoundIsNatural`, `GivesAreSecrets`, and `FormsParse`: a form passes the schema, which
asks for a folder). The argument has two halves. `LockInv` says that one request is past
`Enter`, or the lock is free; so what it read is still what the file says, and its
rewrite is one change of the present file (`Based`). `Accounted` says of every
request, by its place, which of the secrets it was given are stored and which are
still to do, so that settings come after their secrets and the audit after its
deed, whatever was refused between them. A row is never taken out of the file, so
the row a save, a toggle or a choice of folders has seen before the lock is there
when it is replaced, and "updated" is true; a creation has seen none, which is why
`AuditTellsDeeds` has the exception that `Deserved` names.

`FolderReadingProofs` has `TypeCorrect`, `PagesCoverTheFolder`, `PiecesAreTheSource`,
`ReadsOnlyPeek` and the action property `EveryAnswerMovesOn`, for folders, pages,
windows, messages and stream buffers of any size (`ReadingBounds`,
`InputsArePositive`, `LengthsAreNatural`, `OperationsAreKnown`), with any mixture of the
server's faults above. What a client has seen of a folder says nothing about
what an await in the middle of a page has learnt, while others deliver and
expunge. `Walk` says where a message that stayed and was not shown may be, at each
await: ahead of the cursor; among the candidates of the search or, when it found
limit + 1, below all of them; on the page or below its cursor. `Pieces` says the
same of bytes, windows and buffers, up to what misled the client (`Misled`), and `Probe`
of the flag. The lemmas on `Newest`
(as few as asked for, as many when one is left out, on top of the others) come
from the least and greatest of finite sets of naturals.

`PermitPoolProofs` has `PoolIsSound`, for any number of pools and users and any
natural limits (`LimitsAreNatural`, a hypothesis of the theorem, which the reading
service's limits meet): permits are conserved, the queue names each waiting user once and no holder, and nobody waits
beside a free permit. The facts are inductive only together: a permit that
is given back while somebody waits changes hands without becoming free, which
needs that none is free, and the holders grow by the one woken only if it held
none. The lemmas are about one semaphore and one set of holders as values;
`EnterKeepsPool` counts the first of those who enter together by a bijection.

`ReadFanoutProofs` has `TypeCorrect`, `PermitsAreSound`, `PermitsAreKept`,
`AnswersAreComplete` and `NothingIsLeftOut`, for any finite sets of calls, mailboxes and folders, any
permits, limits and mails. The assumptions are that there are permits at all, that
the window of candidates is at least the limit of results (five times the limit,
but 50 to 500, in `search`, whose limits are at most 200), that lists and
allowlists have a folder, and that All Mail holds the mails of plain folders,
which is what the choice of default folders relies on.

* `PermitsAreSound` is a refinement: the fan-out and every mailbox are the pools of
  one `PermitPool`. An operation that ends leaves up to two pools at once, one of
  a search enters its mailbox while it counts as a holder of the fan-out, so
  `Standing` says where an operation may stand: in one queue, with a permit of
  the fan-out before it asks for its mailbox. The facts about semaphores are
  instances of the lemmas of `PermitPoolProofs`; `PermitsAreKept` states for the
  service what the pools promise.
* An answered call leaves its operations behind, and they go on. `Errands` says
  which ones may still be there at each place of a call; hence a new call of the
  same client never meets an old operation that would tell it something.
* `Accounts` and `Owes` follow each mailbox and each folder owed from the list of
  mailboxes ahead, through the operations under way, into results or failures.
  Mailboxes are asked once (`Turns`), or a failure could hide what another turn
  owes. At the answer nothing is ahead or under way, so each mailbox and each folder owed
  is in results or failures, itself or under the All Mail that `Covers` it, which is
  `AnswersAccountForAll`; with `NewestAreAll` (a newest part that is smaller than
  asked for is everything) and `AllHoldsThePlain` it gives `NothingSilentlyLeftOut`.

Every invariant was model-checked in the runs of its module before it was proved.

Only model-checked: the liveness properties (`SubmissionsSettle`, `SaveReturns`, `CallsAreAnswered`,
`RequestsAreAnswered`), which TLAPS does not reach.

## Findings

Each is a run that TLC finds violated, with the sentence it contradicts quoted in
`PROJECT.json`.

1. `edited`: a draft edited during its delivery is marked sent with content that
   was not sent (`markDraftSent` asks for no version).
2. `folder_reading_gap`: a candidate expunged between the search and the fetch of a
   page makes the cursor null while older messages remain, and the review ends
   without them (`mailService.ts:257`).

## Limits of the guarantees

What the models show a user should not rely on. Where a property has an exception for
one of these, the exception names it; the first two can be seen by changing the
constant named.

* An operation that is open when the process stops stays `submitting`: only the
  catch block of `#sendOnce` turns one into `unknown` (`SubmissionsSettle` fails in
  `drafts` with `MaxCrashes = 1`). The key stays blocked, so nothing is sent twice.
* Text typed while a confirmation is prepared stands above the button that sends
  the saved draft (`ScreenIsWhatIsSent` fails without `patient`). With two
  windows one sends the other's edit unseen, since `prepare_draft_send` takes no
  version (it fails with two `Windows`).
* Settings changed by another widget while the old ones are tested become
  `connected` and can be enabled untested, although the store says "Mailbox must
  pass a connection test before it can be enabled" (`store.ts:261`): the verdict is
  recorded in the row as it is by then (`settingsApi.ts:114`). `UntestedOnlyByOverlap`
  says that there is no other way; `[](~UsableUntested(m))` fails in `settings_overlap`.
* `NothingSilentlyLeftOut` has the exceptions it names: an attachment filter looks
  at a window of candidates only, messages with one key are shown once, and a
  refused search is `false`, which the adapter counts as no message
  (`imapFlowAdapter.ts:116`). A folder created within the lifetime of the folder
  list is not owed. The message a thread starts from may be cut off by its limit.
* Connections of operations that timed out live on beside the permits.
* `docs/SAFE_SEND.md:79` says "Uncertain append outcomes are reconciled by Message-ID
  before any retry". The reconciliation is one search after about half a second. An
  append that the client gave up after 30 seconds, and that the server stores after that
  search, is the second copy; `AppendedOnce` counts such appends as `late`.
* A size that the server understates makes `next_offset` null before the end of a source
  (`mailService.ts:334`). The end of an attachment's stream is taken for the end of the
  attachment, and `declared_size` is not compared (`imapFlowAdapter.ts:319`). A
  message without a size that is cut at `sourceMaxBytes` is not told as truncated.
  `PiecesMakeTheSource` names the three (`Misled`).
* The probe of a mailbox whose search is refused succeeds as if there were no message
  (`imapFlowAdapter.ts:375`).
* The panel's save overwrites folder access and sending settings, which its form
  does not have, by their defaults; a creation with an id in use overwrites the row
  and is told as a creation (`server.ts:218`; `Deserved` names it); an old page's "Disable" may enable, and of two toggles
  at once one is lost, as both write what they decided before they had the lock. Two
  saves may leave the settings of one with the password of the other.
* The receipts of a mailbox survive its deletion: they refer to the user only. A
  draft that every recipient rejected keeps its receipt and is never sent again.
* A widget whose fetch failed holds a used token until the settings are opened
  again. Text typed while a save of the composer is awaited is overwritten by its
  answer. A Sent copy stored by the last attempt may be reported as `failed`.
* A mailbox whose test is awaited while everything is deleted is stored when the
  test passes.

## Not modelled

* Delivery to recipients, spam, bounces: outside the program.
* Cryptography, OAuth, MIME, HTML, DNS and TLS: libraries or pure functions. A
  connection test is its verdict, a policy's domains are a set of denied contents.
* Two processes over one database: `docs/DEPLOYMENT.md` allows one active node. So
  the command line that rewrites the configuration file beside the panel
  (`cli.ts:103`), without its lock, is not modelled either.
* What a power failure leaves of files that were not fsynced.
* Rate limits of requests, host and origin checks, pages and wording.
* CSRF values: they travel with their tokens.
* The parts listed as not modelled in `PROJECT.json`, with their reasons.

## Plan

In the order of their weight:

1. `SendPolicy`: the evaluation as a pure operator against a reference over
   bounded recipients and domains.
2. `SafeSend` with `Composer`: the reduction of the server in `Composer` stated
   as a refinement mapping.
