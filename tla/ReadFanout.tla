------------------------------ MODULE ReadFanout ------------------------------
(***************************************************************************)
(* The reading calls of src/services/mailService.ts: which mailboxes and   *)
(* folders a call asks, the permits its IMAP operations take, what fails,  *)
(* and what the answer says of it.                                         *)
(*                                                                         *)
(* An operation is a triple of a call, a mailbox and what is done there:   *)
(* a folder to search, "discover", "health", or "read" for every operation *)
(* on one message, page or list.  The first permit of a search or a check  *)
(* is one of the fan-out, the other one, and the only one of the rest, is  *)
(* of its mailbox.  A timeout gives both back while the connection lives   *)
(* on.  What a connection does with its folder is module FolderReading.    *)
(***************************************************************************)
EXTENDS Semaphore, FiniteSets, SequencesExt

CONSTANTS
  Calls, Mailboxes, Folders,
  Enabled,        \* mailboxes that are enabled
  AllSelectable,  \* those with folder_access "all_selectable"; the others allow Allowed
  Allowed,        \* allowed_folders
  Kind,           \* of a folder: "all", "apart" (drafts, junk, trash) or "plain"
  Contents,       \* the matching mails of a mailbox's folder; the highest is the newest
  Attached,       \* mails with an attachment
  KeyOf,          \* what dedupeKey makes of a mail
  FanoutLimit, MailboxLimit,   \* 4 and 2 in the code
  ResultLimit,    \* messages asked for
  Window,         \* candidates of a folder that are looked at
  Listings,       \* the folders a mailbox may have when it is listed
  MaxReads,       \* bound: messages of a batch or a thread
  Requests,       \* what the client of a call asks for: records of op, boxes, folders, ...
  Selections      \* the scopes of a knowledge search

Whats == Folders \cup {"discover", "health", "read"}
Operations == Calls \X Mailboxes \X Whats

ASSUME LimitsArePositive == FanoutLimit \in Nat \ {0} /\ MailboxLimit \in Nat \ {0}
ASSUME WindowHoldsTheLimit == ResultLimit \in Nat \ {0} /\ Window \in Nat /\ Window >= ResultLimit
ASSUME ThingsAreFinite == IsFiniteSet(Calls) /\ IsFiniteSet(Mailboxes) /\ IsFiniteSet(Folders)
ASSUME BoundIsNatural == MaxReads \in Nat \ {0}
ASSUME WhatsDiffer == Folders \cap {"discover", "health", "read"} = {} /\ "all" \notin Folders

\* An allowlist names a folder, and INBOX is always there.
ASSUME FoldersAreListed ==
  /\ Enabled \subseteq Mailboxes /\ AllSelectable \subseteq Mailboxes
  /\ Allowed \subseteq Folders /\ Allowed # {}
  /\ \A list \in Listings : list \subseteq Folders /\ list # {}

\* All Mail holds the mails of the plain folders.
ASSUME AllHoldsThePlain ==
  \A m \in Mailboxes, f \in Folders :
    /\ Contents[m][f] \subseteq Nat /\ IsFiniteSet(Contents[m][f])
    /\ Kind[f] = "plain" => \A all \in Folders : Kind[all] = "all" => Contents[m][f] \subseteq Contents[m][all]

ASSUME RequestsAreValid ==
  \A c \in Calls :
    /\ Requests[c] \subseteq [op : {"search", "page", "batch", "thread", "health"}, boxes : SUBSET Mailboxes,
                             folders : SUBSET Folders, filter : BOOLEAN, reads : 0..MaxReads]
    /\ Selections[c] \subseteq SUBSET Mailboxes

VARIABLES
  fanout,     \* #fanout
  box,        \* #mailboxSemaphores
  admitted,   \* operations with a permit of the fan-out that have not asked for the other one
  open,       \* operations with a permit of their mailbox
  call,       \* the calls under way
  cache       \* #folderCache: the last list of a mailbox's folders, {} at first, and whether it is fresh

vars == <<fanout, box, admitted, open, call, cache>>

NoCall == [op |-> "none", at |-> "idle", todo |-> <<>>, boxes |-> {}, folders |-> {},
           filter |-> FALSE, list |-> {}, reads |-> 0, results |-> {}, refused |-> FALSE,
           failures |-> {}, owed |-> {}, explicit |-> {}, inline |-> {}, code |-> "none"]

\* The folders of a mailbox at its start; an allowlist does not change.
Init ==
  /\ fanout = NewSemaphore(FanoutLimit)
  /\ box = [m \in Mailboxes |-> NewSemaphore(MailboxLimit)]
  /\ admitted = {} /\ open = {}
  /\ call = [c \in Calls |-> NoCall]
  /\ cache = [m \in Mailboxes |-> [list |-> {}, fresh |-> FALSE]]

Waiting(sem) == Range(sem.queue)
Fans(o)      == o[3] \notin {"discover", "read"}
InBox(m)     == {o \in open : o[2] = m}
InFanout     == {o \in admitted \cup open \cup UNION {Waiting(box[m]) : m \in Mailboxes} : Fans(o)}
Live         == admitted \cup open \cup Waiting(fanout) \cup UNION {Waiting(box[m]) : m \in Mailboxes}
Busy(c)      == \E o \in Live : o[1] = c

\* Operations enter the fan-out one after the other, or one operation enters its mailbox.
EnterFanout(us) ==
  /\ fanout' = Entered(fanout, us)
  /\ admitted' = admitted \cup GoingOn(fanout, us)
  /\ UNCHANGED <<box, open>>

EnterBox(o) ==
  /\ box' = [box EXCEPT ![o[2]] = Entered(@, <<o>>)]
  /\ open' = open \cup GoingOn(box[o[2]], <<o>>)
  /\ admitted' = admitted \ {o}
  /\ UNCHANGED fanout

\* Mutant of LeaveAll: an operation that could not begin keeps its permit of the fan-out.
LeaveAllButBegun(o) ==
  LET m == o[2] IN
  /\ box' = IF o \in open THEN [box EXCEPT ![m] = Left(@)] ELSE box
  /\ open' = (open \ {o}) \cup IF o \in open THEN Woken(box[m]) ELSE {}
  /\ fanout' = IF Fans(o) /\ o \in open THEN Left(fanout) ELSE fanout
  /\ admitted' = (admitted \ {o}) \cup IF Fans(o) /\ o \in open THEN Woken(fanout) ELSE {}

\* The permits of o go to those who wait for them.
LeaveAll(o) ==
  LET m == o[2] IN
  /\ box' = IF o \in open THEN [box EXCEPT ![m] = Left(@)] ELSE box
  /\ open' = (open \ {o}) \cup IF o \in open THEN Woken(box[m]) ELSE {}
  /\ fanout' = IF Fans(o) THEN Left(fanout) ELSE fanout
  /\ admitted' = (admitted \ {o}) \cup IF Fans(o) THEN Woken(fanout) ELSE {}

NoPermits == UNCHANGED <<fanout, box, admitted, open>>

----------------------------------------------------------------------------
\* A call begins

\* searchKnowledge: the enabled mailboxes both the argument and the query name; {} names none.
Scoped(explicit, inline) ==
  {m \in Enabled : (explicit # {} => m \in explicit) /\ (inline # {} => m \in inline)}

\* A scope without an enabled mailbox is refused.
ScopeFails(explicit, inline) ==
  \/ explicit # {} /\ explicit \cap Enabled = {}
  \/ inline # {} /\ inline \cap Enabled = {}
  \/ Scoped(explicit, inline) = {}

\* An error, and an answer of no search, is its code alone.
Answered(record, code) ==
  IF code = "ok" /\ record.op \in {"search", "knowledge"}
  THEN [record EXCEPT !.at = "answered", !.code = code, !.list = {}]
  ELSE [NoCall EXCEPT !.op = record.op, !.at = "answered", !.code = code]

\* Where a call goes first.
FirstStep(op) == CASE op \in {"search", "page"} -> "resolving"
                   [] op = "health"             -> "checking"
                   [] OTHER                     -> "next"

Begin(c, request) ==
  /\ call[c].at = "idle" /\ ~Busy(c)
  /\ call' = [call EXCEPT ![c] =
       [NoCall EXCEPT !.op = request.op, !.boxes = request.boxes, !.todo = SetToSeq(request.boxes),
          !.folders = request.folders, !.filter = request.filter, !.reads = request.reads,
          !.at = FirstStep(request.op)]]
  /\ NoPermits /\ UNCHANGED cache

\* The search of a knowledge source: its scope decides which mailboxes are asked.
BeginKnowledge(c, explicit, inline) ==
  LET new == [NoCall EXCEPT !.op = "knowledge", !.at = "resolving", !.boxes = Mailboxes,
                !.explicit = explicit, !.inline = inline]
  IN
  /\ call[c].at = "idle" /\ ~Busy(c)
  /\ \/ /\ ScopeFails(explicit, inline)
        /\ call' = [call EXCEPT ![c] = Answered(new, "MAILBOX_SCOPE_NOT_FOUND")]
     \/ /\ ~ScopeFails(explicit, inline)
        /\ call' = [call EXCEPT ![c] = [new EXCEPT !.todo = SetToSeq(Scoped(explicit, inline))]]
  /\ NoPermits /\ UNCHANGED cache

\* mailboxHealth: the named mailboxes, or all that are enabled, are checked at once.
Check(c) ==
  LET checked == IF call[c].boxes = {} THEN Enabled ELSE call[c].boxes IN
  /\ call[c].at = "checking"
  /\ \/ /\ ~(checked \subseteq Enabled)
        /\ call' = [call EXCEPT ![c] = Answered(@, "MAILBOX_DISABLED")]
        /\ NoPermits
     \/ /\ checked \subseteq Enabled
        /\ EnterFanout(SetToSeq({<<c, m, "health">> : m \in checked}))
        /\ call' = [call EXCEPT ![c].at = "waiting", ![c].todo = <<>>]
  /\ UNCHANGED cache

----------------------------------------------------------------------------
\* #resolveSearchFolders, one mailbox after the other

Current(c) == Head(call[c].todo)

\* Mutant of Failing: the mailbox is tried again.
FailingAgain(record, code) ==
  IF record.op \in {"search", "knowledge"}
  THEN [record EXCEPT !.at = "resolving", !.failures = @ \cup {<<Head(record.todo), "all">>}]
  ELSE Answered(record, code)

\* A mailbox of a search that cannot be resolved is one failure; a page, or a thread, fails.
Failing(record, code) ==
  IF record.op \in {"search", "knowledge"}
  THEN [record EXCEPT !.at = "resolving", !.todo = Tail(@),
                      !.failures = @ \cup {<<Head(record.todo), "all">>}]
  ELSE Answered(record, code)

ResolveFails(c, code) == call' = [call EXCEPT ![c] = Failing(@, code)]

ListsFrom(c, list) == call' = [call EXCEPT ![c].at = "listed", ![c].list = list]

Resolve(c) ==
  LET m == Current(c) IN
  /\ call[c].at = "resolving" /\ call[c].todo # <<>>
  /\ \/ /\ m \notin Enabled
        /\ call' = [call EXCEPT ![c] = Answered(@, "MAILBOX_DISABLED")]
        /\ NoPermits
     \/ /\ m \in Enabled \ AllSelectable
        /\ ListsFrom(c, Allowed)
        /\ NoPermits
     \/ /\ m \in Enabled \cap AllSelectable /\ cache[m].fresh
        /\ ListsFrom(c, cache[m].list)
        /\ NoPermits
     \/ /\ m \in Enabled \cap AllSelectable /\ ~cache[m].fresh
        /\ ResolveFails(c, "SECRET_UNAVAILABLE")
        /\ NoPermits
     \/ /\ m \in Enabled \cap AllSelectable /\ ~cache[m].fresh
        /\ call' = [call EXCEPT ![c].at = "discovering"]
        /\ EnterBox(<<c, m, "discover">>)
  /\ UNCHANGED cache

\* Mutant of DefaultFolders: with an All Mail folder nothing else is searched.
OnlyAll(list) == IF \E f \in list : Kind[f] = "all" THEN {f \in list : Kind[f] = "all"} ELSE list

\* default_search_folders: All Mail stands for the plain folders.
DefaultFolders(list) ==
  IF \E f \in list : Kind[f] = "all" THEN {f \in list : Kind[f] # "plain"} ELSE list

\* An allowlist is searched as it is.
FoldersOf(m, asked, list) ==
  IF asked # {} THEN asked ELSE IF m \in AllSelectable THEN DefaultFolders(list) ELSE list

\* The list the defaults are taken from: another call may have replaced the one c has got.
Latest(c) ==
  LET m == Current(c) IN
  IF m \in AllSelectable /\ cache[m].list # {} THEN cache[m].list ELSE call[c].list

\* What the client is owed of a mailbox: the folders it asked for, or all of the list.
Owed(m, asked, list) == {<<m, f>> : f \in IF asked # {} THEN asked ELSE list}

\* The folders of one mailbox join the fan-out, or the page its mailbox.
Launch(c) ==
  LET m  == Current(c)
      fs == FoldersOf(m, call[c].folders, Latest(c))
  IN
  /\ call[c].at = "listed"
  /\ \/ /\ ~(fs \subseteq call[c].list)
        /\ ResolveFails(c, "FOLDER_NOT_ALLOWED")
        /\ NoPermits
     \/ /\ fs \subseteq call[c].list /\ call[c].op = "page"
        /\ call' = [call EXCEPT ![c].at = "reading", ![c].reads = 1]
        /\ EnterBox(<<c, m, "read">>)
     \/ /\ fs \subseteq call[c].list /\ call[c].op # "page"
        /\ call' = [call EXCEPT ![c].at = "resolving", ![c].todo = Tail(@), ![c].list = {},
                                ![c].owed = @ \cup Owed(m, call[c].folders, Latest(c))]
        /\ EnterFanout(SetToSeq({<<c, m, f>> : f \in fs}))
  /\ UNCHANGED cache

----------------------------------------------------------------------------
\* The operations

\* Mutant of Told: it is told to whoever has the call now.
ToldAnyhow(record, o, how) ==
  IF how \in {"ok", "refused"}
  THEN [record EXCEPT !.results = @ \cup {<<o[2], o[3]>>}, !.refused = @ \/ how = "refused"]
  ELSE [record EXCEPT !.failures = @ \cup {<<o[2], o[3]>>}]

\* Mutant of Told: a failure beside results of the same mailbox is dropped.
ToldOnce(record, o, how) ==
  IF record.at \in {"idle", "answered"} \/ record.op \notin {"search", "knowledge"} THEN record
  ELSE IF how \in {"ok", "refused"}
  THEN [record EXCEPT !.results = @ \cup {<<o[2], o[3]>>}, !.refused = @ \/ how = "refused"]
  ELSE IF \E t \in record.results : t[1] = o[2] THEN record
  ELSE [record EXCEPT !.failures = @ \cup {<<o[2], o[3]>>}]

\* What a folder brings to a search; to a search that has been answered already, nothing.
\* The messages of a thread and the results of a check are left out.
Told(record, o, how) ==
  IF record.at \in {"idle", "answered"} \/ record.op \notin {"search", "knowledge"} THEN record
  ELSE IF how \in {"ok", "refused"}
  THEN [record EXCEPT !.results = @ \cup {<<o[2], o[3]>>}, !.refused = @ \/ how = "refused"]
  ELSE [record EXCEPT !.failures = @ \cup {<<o[2], o[3]>>}]

\* adapters.create before the mailbox is entered; a check enters it first.
Create(o, works) ==
  /\ o \in admitted
  /\ o[3] = "health" => works
  /\ IF works THEN EnterBox(o) /\ UNCHANGED call
     ELSE LeaveAll(o) /\ call' = [call EXCEPT ![o[1]] = Told(@, o, "failed")]
  /\ UNCHANGED cache

\* The operation is over: answered, failed, or given up by withTimeout.
Ends(o) ==
  /\ o \in open
  /\ LeaveAll(o)

\* One folder is searched; a refused search is an answer with no message.
Search(o, how) ==
  /\ o[3] \in Folders
  /\ Ends(o)
  /\ call' = [call EXCEPT ![o[1]] = Told(@, o, how)]
  /\ UNCHANGED cache

Discover(o, how, list) ==
  /\ o[3] = "discover" /\ how # "refused"
  /\ Ends(o)
  /\ IF how = "ok"
     THEN cache' = [cache EXCEPT ![o[2]] = [list |-> list, fresh |-> TRUE]] /\ ListsFrom(o[1], list)
     ELSE ResolveFails(o[1], "IMAP_ERROR") /\ UNCHANGED cache

\* health() reports a failure as an answer; a timeout, or a secret that cannot be read, rejects,
\* and the whole call with it.
HealthEnds(o, how) ==
  LET c == o[1] IN
  /\ o[3] = "health" /\ how # "refused"
  /\ Ends(o)
  /\ \/ how # "timeout" /\ UNCHANGED call
     \/ /\ how # "ok"
        /\ call' = [call EXCEPT ![c] = IF @.at = "waiting" THEN Answered(@, "TIMEOUT") ELSE @]
  /\ UNCHANGED cache

\* After a read: a batch goes on, and so does a thread whose first message has identifiers.
AfterRead(record, ok, identifiers) ==
  CASE record.op \in {"batch", "messages"} ->
         [record EXCEPT !.at = "next", !.reads = @ - 1]
    [] record.op = "thread" /\ ok /\ identifiers ->
         [record EXCEPT !.at = "resolving"]
    [] OTHER -> Answered(record, IF ok THEN "ok" ELSE "IMAP_ERROR")

\* The next of a batch, of a thread's messages, or the only one.
NextRead(c, m) ==
  /\ call[c].at = "next" /\ m \in call[c].boxes
  /\ \/ /\ call[c].reads = 0
        /\ call' = [call EXCEPT ![c] = Answered(@, "ok")]
        /\ NoPermits
     \/ /\ call[c].reads > 0 /\ m \notin Enabled
        /\ call' = [call EXCEPT ![c] = AfterRead(@, FALSE, FALSE)]
        /\ NoPermits
     \/ /\ call[c].reads > 0 /\ m \in Enabled
        /\ call' = [call EXCEPT ![c].at = "reading"]
        /\ EnterBox(<<c, m, "read">>)
  /\ UNCHANGED cache

ReadEnds(o, how, identifiers) ==
  /\ o[3] = "read" /\ how # "refused"
  /\ Ends(o)
  /\ call' = [call EXCEPT ![o[1]] = AfterRead(@, how = "ok", identifiers)]
  /\ UNCHANGED cache

\* Promise.all of the tasks
Settled(c) == ~Busy(c)

\* A search or a check is answered; a thread reads the n messages that were found.
Answer(c, n) ==
  /\ call[c].at \in {"resolving", "waiting"}
  /\ call[c].at = "resolving" => call[c].todo = <<>>
  /\ Settled(c)
  /\ call' = [call EXCEPT ![c] =
       IF @.op = "thread" THEN [@ EXCEPT !.op = "messages", !.at = "next", !.reads = n]
       ELSE Answered(@, "ok")]
  /\ NoPermits /\ UNCHANGED cache

Receive(c) ==
  /\ call[c].at = "answered"
  /\ call' = [call EXCEPT ![c] = NoCall]
  /\ NoPermits /\ UNCHANGED cache

----------------------------------------------------------------------------
\* What happens around the service

CacheExpires(m) ==
  /\ cache[m].fresh
  /\ cache' = [cache EXCEPT ![m].fresh = FALSE]
  /\ NoPermits /\ UNCHANGED call

Outcomes == {"ok", "refused", "failed", "timeout"}

Works(c) ==
  \/ Check(c) \/ Resolve(c) \/ Launch(c)
  \/ \E m \in Mailboxes : NextRead(c, m)
  \/ \E n \in 0..MaxReads : Answer(c, n)

Operates(o) ==
  \/ \E works \in BOOLEAN : Create(o, works)
  \/ \E how \in Outcomes :
       \/ Search(o, how) \/ HealthEnds(o, how)
       \/ \E list \in Listings : Discover(o, how, list)
       \/ \E identifiers \in BOOLEAN : ReadEnds(o, how, identifiers)

\* A step of the code of a call.
Proceeds(c) == Works(c) \/ \E o \in admitted \cup open : o[1] = c /\ Operates(o)

Clients ==
  \E c \in Calls :
    \/ \E request \in Requests[c] : Begin(c, request)
    \/ \E explicit, inline \in Selections[c] : BeginKnowledge(c, explicit, inline)
    \/ Receive(c)

Surroundings ==
  \E m \in Mailboxes : CacheExpires(m)

Next ==
  \/ \E c \in Calls : Proceeds(c)
  \/ Clients
  \/ Surroundings

Spec == Init /\ [][Next]_vars

\* Each await comes to its end: the event loop goes on with every call, and withTimeout and
\* the reading of a local secret end every operation.
FairSpec == Spec /\ \A c \in Calls : WF_vars(Proceeds(c))
----------------------------------------------------------------------------
\* Answers

Newest(mails, n) == {u \in mails : Cardinality({v \in mails : v > u}) < n}

\* What one search brings: the wanted ones among the newest candidates, up to the limit.
Brings(m, f, filter) ==
  LET candidates == Newest(Contents[m][f], Window) IN
  Newest(IF filter THEN candidates \cap Attached ELSE candidates, ResultLimit)

\* Of the mails that look alike in a mailbox one stays; which folder is preferred is left open.
Best(found, m, key) == CHOOSE y \in found : y[1] = m /\ KeyOf[y[3]] = key

Keeps(op, found) ==
  IF op = "knowledge" THEN {x \in found : x = Best(found, x[1], KeyOf[x[3]])} ELSE found

\* The messages of an answer, newest first, and what it says of the rest.
Found(record)    == UNION {{<<r[1], r[2], u>> : u \in Brings(r[1], r[2], record.filter)} : r \in record.results}
AtLimit(record)  == \E r \in record.results : Cardinality(Brings(r[1], r[2], record.filter)) >= ResultLimit
Truncated(record) ==
  AtLimit(record) \/ Cardinality(Keeps(record.op, Found(record))) > ResultLimit

Searching(record) == record.op \in {"search", "knowledge"} /\ record.at = "answered" /\ record.code = "ok"
----------------------------------------------------------------------------
\* Properties

\* Calls, operations and permits have the shape the code gives them.
TypeOK ==
  /\ fanout.free \in Nat /\ Waiting(fanout) \subseteq Operations
  /\ \A m \in Mailboxes : box[m].free \in Nat
  /\ Live \subseteq Operations /\ admitted \cap open = {}
  /\ \A c \in Calls :
       /\ call[c].at \in {"idle", "checking", "resolving", "listed", "discovering", "waiting", "next",
                          "reading", "answered"}
       /\ call[c].reads \in 0..MaxReads
       /\ call[c].at = "idle" => call[c] = NoCall
  /\ \A m \in Mailboxes : cache[m].list \subseteq Folders /\ cache[m].fresh \in BOOLEAN

\* The fan-out, <<>>, and each mailbox, <<m>>, as pools of permits.
PoolNames == {<<>>} \cup {<<m>> : m \in Mailboxes}

SemaphoreOf(p) == IF p = <<>> THEN fanout ELSE box[p[1]]
HoldersOf(p)   == IF p = <<>> THEN InFanout ELSE InBox(p[1])

Permits == INSTANCE PermitPool WITH
  Pools <- PoolNames, Users <- Operations,
  Limit <- [p \in PoolNames |-> IF p = <<>> THEN FanoutLimit ELSE MailboxLimit],
  sem <- [p \in PoolNames |-> SemaphoreOf(p)], holders <- [p \in PoolNames |-> HoldersOf(p)]

\* "concurrency bounds": however operations fail, time out or ask for a second permit while
\* they hold one, the fan-out and each mailbox hand out no more than their permits, in the
\* order of asking, and leave nobody waiting beside a free one (PermitPoolProofs!PoolIsSound).
PermitsArePooled == Permits!Spec

\* Where no folders are named, All Mail answers for the plain folders of a discovered mailbox.
Covers(record, t, w) ==
  /\ t[1] = w[1]
  /\ \/ t[2] = w[2]
     \/ /\ record.folders = {} /\ w[1] \in AllSelectable
        /\ Kind[t[2]] = "all" /\ Kind[w[2]] = "plain"

\* An answer accounts for every mailbox it was asked for, and for every folder it owes of each,
\* in messages or partial failures, and for none beside them: whichever of the folders of a
\* mailbox fail while others answer, and although another call may discover folders meanwhile.
AnswersAccountForAll ==
  \A c \in Calls : Searching(call[c]) =>
    LET told == call[c].results \cup call[c].failures IN
    /\ \A m \in call[c].boxes :
         call[c].op = "search" \/ m \in Scoped(call[c].explicit, call[c].inline)
           => \E t \in told : t[1] = m
    /\ \A w \in call[c].owed : \E t \in told : Covers(call[c], t, w)
    /\ \A t \in told :
         /\ t[1] \in call[c].boxes \cap Enabled
         /\ call[c].explicit # {} => t[1] \in call[c].explicit
         /\ call[c].inline # {} => t[1] \in call[c].inline
         /\ t[2] # "all" /\ call[c].folders # {} => t[2] \in call[c].folders
         /\ t[2] # "all" /\ t[1] \notin AllSelectable => t[2] \in Allowed

\* "Check truncated and partial_failures before claiming that all matching mail was reviewed":
\* an answer with neither has every matching mail, or one that looks like it, of the folders
\* that were there when its search began; unless the attachment filter met more candidates
\* than are looked at, or the server refused a search.
NothingSilentlyLeftOut ==
  \A c \in Calls :
    /\ Searching(call[c])
    /\ call[c].failures = {} /\ ~Truncated(call[c])
    /\ ~call[c].refused
    /\ call[c].filter => \A r \in call[c].owed : Cardinality(Contents[r[1]][r[2]]) <= Window
    => \A owed \in call[c].owed : \A u \in Contents[owed[1]][owed[2]] :
         \/ call[c].filter /\ u \notin Attached
         \/ \E x \in Keeps(call[c].op, Found(call[c])) : x[1] = owed[1] /\ KeyOf[x[3]] = KeyOf[u]

\* Every call is answered, whichever operations fail, hang or wait for each other's permits.
CallsAreAnswered ==
  \A c \in Calls : (call[c].at # "idle") ~> (call[c].at \in {"idle", "answered"})
===============================================================================
