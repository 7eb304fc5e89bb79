--------------------------- MODULE ReadFanoutProofs ---------------------------
(***************************************************************************)
(* Theorems about ReadFanout for any number of calls, mailboxes, folders   *)
(* and permits.                                                            *)
(*                                                                         *)
(* They rest on one inductive invariant, `Inv`.  `Standing` has the pools  *)
(* of permits, as values, and where an operation can stand: it queues in   *)
(* one place and asks for its mailbox only with a permit of the fan-out.   *)
(* `Fits` relates each call to the operations it has out there, which go   *)
(* on without it when it has been answered: what they may be at each of    *)
(* its awaits (`Errands`), that no mailbox is asked twice (`Turns`), and   *)
(* that each mailbox, and each folder owed, of a search is still ahead,    *)
(* under way, in the results or a failure (`Accounts`, `Owes`).  An answer *)
(* is given when nothing is ahead or under way, which leaves the rest.     *)
(***************************************************************************)
EXTENDS ReadFanout, FiniteSetTheorems, TLAPS

Pooled == INSTANCE PermitPoolProofs WITH
  Pools <- PoolNames, Users <- Operations,
  Limit <- [p \in PoolNames |-> IF p = <<>> THEN FanoutLimit ELSE MailboxLimit],
  sem <- [p \in PoolNames |-> SemaphoreOf(p)], holders <- [p \in PoolNames |-> HoldersOf(p)]

Different(s) == \A i, j \in DOMAIN s : i # j => s[i] # s[j]

----------------------------------------------------------------------------
\* The permits: an operation asks for its second one while it holds the first.
Standing ==
  /\ Pooled!Pool(fanout, InFanout, FanoutLimit)
  /\ DOMAIN box = Mailboxes
  /\ \A m \in Mailboxes : Pooled!Pool(box[m], InBox(m), MailboxLimit)
  /\ admitted \subseteq Operations /\ open \subseteq Operations
  /\ \A o \in admitted \cup Waiting(fanout) : Fans(o)
  /\ \A o \in admitted : o \notin open
  /\ \A m \in Mailboxes : \A o \in Waiting(box[m]) : o[2] = m /\ o \notin admitted

----------------------------------------------------------------------------
\* The calls

OpNames == {"none", "search", "page", "batch", "thread", "health", "knowledge", "messages"}
Places  == {"idle", "checking", "resolving", "listed", "discovering", "waiting", "next", "reading",
            "answered"}
Codes   == {"none", "ok", "MAILBOX_SCOPE_NOT_FOUND", "MAILBOX_DISABLED", "SECRET_UNAVAILABLE",
            "FOLDER_NOT_ALLOWED", "IMAP_ERROR", "TIMEOUT"}

CallShape ==
  [op : OpNames, at : Places, todo : Seq(Mailboxes), boxes : SUBSET Mailboxes,
   folders : SUBSET Folders, filter : BOOLEAN, list : SUBSET Folders, reads : 0..MaxReads,
   results : SUBSET (Mailboxes \X Folders), refused : BOOLEAN,
   failures : SUBSET (Mailboxes \X (Folders \cup {"all"})), owed : SUBSET (Mailboxes \X Folders),
   explicit : SUBSET Mailboxes, inline : SUBSET Mailboxes, code : Codes]

Gone      == {"idle", "answered"}
Resolving == {"resolving", "listed", "discovering"}
Finds(r) == r.op \in {"search", "knowledge"}

\* The operations of a call that are under way where it stands.
Errands(r, ops) ==
  /\ \A o \in ops :
       /\ o[3] = "read" => r.at = "reading"
       /\ o[3] = "discover" => r.at = "discovering"
       /\ o[3] = "health" => r.at \in Gone \cup {"waiting"}
       /\ o[3] \in Folders => r.at \in Gone \/ (r.at \in Resolving /\ r.op # "page")
  /\ \A o, p \in ops : o[3] \in {"read", "discover"} /\ p[3] \in {"read", "discover"} => o = p

\* Which calls get where.
Course(r) ==
  /\ r.at = "idle" => r = NoCall
  /\ r.at \in {"checking", "waiting"} => r.op = "health"
  /\ r.at \in Resolving => Finds(r) \/ r.op \in {"page", "thread"}
  /\ r.at = "next" => r.op \in {"batch", "thread", "messages"}
  /\ r.at = "reading" => r.op \in {"page", "batch", "thread", "messages"}
  /\ r.at = "reading" /\ r.op \in {"batch", "messages"} => r.reads > 0

\* A mailbox is asked once.
Turns(r, ops) ==
  /\ Different(r.todo)
  /\ r.at \in {"listed", "discovering"} => r.todo # <<>> /\ Head(r.todo) \in Enabled
  /\ r.at = "discovering" => Head(r.todo) \in AllSelectable
  /\ r.at = "listed" => /\ r.list # {}
                        /\ Head(r.todo) \notin AllSelectable => r.list = Allowed
  /\ r.at \notin Gone => \A o \in ops : o[3] \in Folders => o[2] \notin Range(r.todo)

\* What a search may ask.
MayAsk(r, m) ==
  /\ m \in r.boxes
  /\ r.explicit # {} => m \in r.explicit
  /\ r.inline # {} => m \in r.inline

MaySearch(r, m, f) ==
  /\ MayAsk(r, m) /\ m \in Enabled
  /\ r.folders # {} => f \in r.folders
  /\ m \notin AllSelectable => f \in Allowed

\* The folders of a search that have answered or are being asked.
Asking(r, ops) == r.results \cup {<<o[2], o[3]>> : o \in {p \in ops : p[3] \in Folders}}

Wanted(r) == {m \in r.boxes : r.op = "search" \/ m \in Scoped(r.explicit, r.inline)}

\* A search has every mailbox, and every folder it owes, ahead, under way or accounted for.
Accounts(r, ops) ==
  /\ \A m \in Wanted(r) :
       \/ m \in Range(r.todo)
       \/ \E x \in Asking(r, ops) \cup r.failures : x[1] = m
  /\ \A m \in Range(r.todo) : MayAsk(r, m)
  /\ \A x \in Asking(r, ops) : MaySearch(r, x[1], x[2])
  /\ \A x \in r.failures :
       /\ MayAsk(r, x[1]) /\ x[1] \in Enabled
       /\ x[2] # "all" => MaySearch(r, x[1], x[2])
  /\ r.at = "answered" => r.todo = <<>> /\ ops = {}

Owes(r, ops) ==
  \A w \in r.owed : \E x \in Asking(r, ops) \cup r.failures : Covers(r, x, w) /\ x \in r.owed

InSearch(r) == Finds(r) /\ r.at # "idle" /\ (r.at = "answered" => r.code = "ok")

Fits(r, ops) ==
  /\ r \in CallShape
  /\ Errands(r, ops) /\ Course(r) /\ Turns(r, ops)
  /\ InSearch(r) => Accounts(r, ops) /\ Owes(r, ops)

Of(c) == {o \in Live : o[1] = c}

Around ==
  /\ cache \in [Mailboxes -> [list : SUBSET Folders, fresh : BOOLEAN]]
  /\ \A m \in Mailboxes : cache[m].fresh => cache[m].list # {}

Inv ==
  /\ Standing
  /\ DOMAIN call = Calls /\ \A c \in Calls : Fits(call[c], Of(c))
  /\ Around
----------------------------------------------------------------------------
\* Lists

\* SetToSeq lists its set, each element once.
LEMMA ListsAll ==
  ASSUME NEW S, IsFiniteSet(S)
  PROVE  /\ SetToSeq(S) \in Seq(S) /\ Different(SetToSeq(S))
         /\ Range(SetToSeq(S)) = S /\ DOMAIN SetToSeq(S) = 1..Len(SetToSeq(S))
<1> DEFINE n == Cardinality(S)
           s == SetToSeq(S)
<1>1. n \in Nat /\ IsFiniteSet(1..n) /\ Cardinality(1..n) = n
  BY FS_CardinalityType, FS_Interval
<1>2. \E f \in [1..n -> S] : IsInjective(f)
  <2>1. ExistsBijection(1..n, S)
    BY <1>1, FS_SameCardinalityBij
  <2> QED BY <2>1 DEF ExistsBijection, Bijection, Injection, IsInjective
<1>3. s \in [1..n -> S] /\ IsInjective(s)
  BY <1>2 DEF SetToSeq
<1> HIDE DEF s
<1>4. s \in Surjection(1..n, S)
  <2>1. s \in Injection(1..n, S)
    BY <1>3 DEF Injection, IsInjective
  <2> QED BY <1>1, <2>1, FS_Injection
<1>5. Range(s) = S
  BY <1>3, <1>4 DEF Range, Surjection
<1>6. s \in Seq(S) /\ DOMAIN s = 1..Len(s)
  BY <1>1, <1>3
<1>7. Different(s)
  BY <1>3 DEF Different, IsInjective
<1> QED BY <1>5, <1>6, <1>7 DEF s

\* The rest of a list of different things.
LEMMA RestOfList ==
  ASSUME NEW S, NEW s \in Seq(S), Different(s), s # <<>>
  PROVE  /\ Tail(s) \in Seq(S) /\ Different(Tail(s))
         /\ Head(s) \in Range(s) /\ Head(s) \in S
         /\ Range(Tail(s)) = Range(s) \ {Head(s)}
<1>1. /\ Tail(s) \in Seq(S) /\ Len(s) \in Nat \ {0} /\ DOMAIN s = 1..Len(s)
      /\ DOMAIN Tail(s) = 1..(Len(s) - 1)
      /\ Head(s) = s[1] /\ 1 \in DOMAIN s
  OBVIOUS
<1>2. \A i \in 1..(Len(s) - 1) : Tail(s)[i] = s[i + 1]
  OBVIOUS
<1> DEFINE t == Tail(s)
<1>3. t = Tail(s)
  OBVIOUS
<1> HIDE DEF t
<1>4. Different(t)
  BY <1>1, <1>2, <1>3 DEF Different
<1>5. Range(t) = Range(s) \ {Head(s)}
  <2>1. ASSUME NEW i \in DOMAIN t PROVE t[i] \in Range(s) /\ t[i] # Head(s)
    BY <1>1, <1>2, <1>3 DEF Different, Range
  <2>2. ASSUME NEW i \in DOMAIN s, s[i] # Head(s) PROVE s[i] \in Range(t)
    <3>1. i - 1 \in DOMAIN t /\ (i - 1) + 1 = i
      BY <1>1, <1>3, <2>2
    <3> QED BY <1>1, <1>2, <1>3, <3>1 DEF Range
  <2> QED BY <2>1, <2>2 DEF Range
<1>6. Head(s) \in Range(s) /\ Head(s) \in S
  BY <1>1 DEF Range
<1> QED BY <1>1, <1>3, <1>4, <1>5, <1>6

----------------------------------------------------------------------------
\* Permits

\* Those who enter in a row get permits or wait.
LEMMA ManyEnter ==
  ASSUME NEW s, NEW h, NEW limit \in Nat, Pooled!Pool(s, h, limit),
         NEW users \in Seq(Operations), Different(users),
         \A o \in Range(users) : o \notin h /\ o \notin Waiting(s)
  PROVE  /\ Pooled!Pool(Entered(s, users), h \cup GoingOn(s, users), limit)
         /\ Waiting(Entered(s, users)) \cup GoingOn(s, users) = Waiting(s) \cup Range(users)
         /\ GoingOn(s, users) \subseteq Range(users) /\ Waiting(s) \subseteq Waiting(Entered(s, users))
<1>1. /\ DOMAIN users = 1..Len(users) /\ Len(users) \in Nat
      /\ \A i, j \in 1..Len(users) : i # j => users[i] # users[j]
  BY DEF Different
<1>2. s.queue \in Seq(Operations) /\ s.free \in Nat
  BY DEF Pooled!Pool
<1>3. \A i \in 1..Len(users) : users[i] \notin h /\ \A j \in DOMAIN s.queue : users[i] # s.queue[j]
  <2>1. \A i \in 1..Len(users) : users[i] \in Range(users)
    BY <1>1 DEF Range
  <2>2. \A j \in DOMAIN s.queue : s.queue[j] \in Waiting(s)
    BY DEF Waiting, Range
  <2> QED BY <2>1, <2>2
<1>4. Pooled!Pool(Pooled!Entered(s, users), h \cup Pooled!GoingOn(s, users), limit)
  BY <1>1, <1>3, Pooled!EnterKeepsPool
<1>5. Pooled!Entered(s, users) = Entered(s, users) /\ Pooled!GoingOn(s, users) = GoingOn(s, users)
  BY DEF Entered, GoingOn, Granted, Pooled!Entered, Pooled!GoingOn, Pooled!Granted
<1>6. Pooled!Pool(Entered(s, users), h \cup GoingOn(s, users), limit)
  BY <1>4, <1>5
<1> DEFINE old == {s.queue[i] : i \in DOMAIN s.queue}
           now == {Pooled!Entered(s, users).queue[i] : i \in DOMAIN Pooled!Entered(s, users).queue}
           all == {users[i] : i \in 1..Len(users)}
<1>7. /\ old \subseteq now /\ Pooled!GoingOn(s, users) \subseteq all
      /\ now \cup Pooled!GoingOn(s, users) = old \cup all
  BY <1>2, Pooled!EnteredShare
<1>8. old = Waiting(s) /\ now = Waiting(Entered(s, users)) /\ all = Range(users)
  BY <1>1, <1>5 DEF Waiting, Range
<1> HIDE DEF old, now, all
<1> QED BY <1>5, <1>6, <1>7, <1>8

\* A permit that is given back.
LEMMA OneLeaves ==
  ASSUME NEW s, NEW h, NEW limit \in Nat, Pooled!Pool(s, h, limit), NEW o \in h
  PROVE  /\ Pooled!Pool(Left(s), (h \ {o}) \cup Woken(s), limit)
         /\ Waiting(Left(s)) \cup Woken(s) = Waiting(s)
<1>1. Pooled!Pool(Pooled!Left(s), (h \ {o}) \cup Pooled!Woken(s), limit)
  BY Pooled!LeaveKeepsPool
<1>2. Pooled!Left(s) = Left(s) /\ Pooled!Woken(s) = Woken(s)
  BY DEF Left, Woken, Pooled!Left, Pooled!Woken
<1>3. Waiting(Left(s)) \cup Woken(s) = Waiting(s)
  <2>1. s \in [free : Nat, queue : Seq(Operations)] /\ Different(s.queue)
    BY DEF Pooled!Pool, Different
  <2>2. CASE s.queue = <<>>
    BY <2>1, <2>2 DEF Left, Woken, Waiting
  <2>3. CASE s.queue # <<>>
    <3>1. Left(s).queue = Tail(s.queue) /\ Woken(s) = {Head(s.queue)}
      BY <2>1, <2>3 DEF Left, Woken
    <3>2. Range(Tail(s.queue)) = Range(s.queue) \ {Head(s.queue)} /\ Head(s.queue) \in Range(s.queue)
      BY <2>1, <2>3, RestOfList
    <3> QED BY <3>1, <3>2 DEF Waiting
  <2> QED BY <2>2, <2>3
<1> QED BY <1>1, <1>2, <1>3

\* Different operations are listed by one order of them.
LEMMA OrderOfThem ==
  ASSUME NEW users \in Seq(Operations), Different(users)
  PROVE  /\ IsFiniteSet(Range(users)) /\ Range(users) \subseteq Operations
         /\ users \in SetToSeqs(Range(users))
<1> DEFINE all == Range(users)
<1>1. /\ users \in [1..Len(users) -> all] /\ Len(users) \in Nat /\ all \subseteq Operations
      /\ \A i, j \in 1..Len(users) : i # j => users[i] # users[j]
  BY DEF Different, Range
<1>2. users \in Bijection(1..Len(users), all)
  <2>1. \A u \in all : \E i \in 1..Len(users) : users[i] = u
    BY DEF Range
  <2> QED BY <1>1, <2>1 DEF Bijection, Injection, Surjection, IsInjective
<1>3. IsFiniteSet(1..Len(users)) /\ Cardinality(1..Len(users)) = Len(users)
  <2>1. \A n \in Nat : IsFiniteSet(1..n) /\ Cardinality(1..n) = n
    BY FS_Interval
  <2> QED BY <1>1, <2>1
<1>4. IsFiniteSet(all) /\ Cardinality(all) = Len(users)
  BY <1>1, <1>2, <1>3, FS_Bijection DEF ExistsBijection
<1> HIDE DEF all
<1> QED BY <1>1, <1>4 DEF SetToSeqs, all

\* A pool where these operations enter.
LEMMA EnterMoves ==
  ASSUME NEW p \in PoolNames, NEW users \in Seq(Operations), Different(users),
         SemaphoreOf(p)' = Entered(SemaphoreOf(p), users),
         HoldersOf(p)' = HoldersOf(p) \cup GoingOn(SemaphoreOf(p), users),
         GoingOn(SemaphoreOf(p), users) \subseteq Range(users),
         Waiting(SemaphoreOf(p)) \subseteq Waiting(SemaphoreOf(p)'),
         Waiting(SemaphoreOf(p)') \cup GoingOn(SemaphoreOf(p), users) = Waiting(SemaphoreOf(p)) \cup Range(users),
         \A o \in Range(users) : o \notin HoldersOf(p) /\ o \notin Waiting(SemaphoreOf(p))
  PROVE  Permits!Enter(p)
<1>1. /\ Permits!Members(p) = HoldersOf(p) \cup Waiting(SemaphoreOf(p))
      /\ Permits!Members(p)' = HoldersOf(p)' \cup Waiting(SemaphoreOf(p)')
  BY DEF Permits!Members, Permits!Waiting, Waiting, Range
<1>2. Permits!Members(p)' \ Permits!Members(p) = Range(users)
  BY <1>1
<1>3. Permits!Entered(SemaphoreOf(p), users) = Entered(SemaphoreOf(p), users)
      /\ Permits!GoingOn(SemaphoreOf(p), users) = GoingOn(SemaphoreOf(p), users)
  BY DEF Entered, GoingOn, Granted, Permits!Entered, Permits!GoingOn, Permits!Granted
<1>4. IsFiniteSet(Range(users)) /\ Range(users) \subseteq Operations /\ users \in SetToSeqs(Range(users))
  BY OrderOfThem
<1>5. /\ [q \in PoolNames |-> SemaphoreOf(q)][p] = SemaphoreOf(p)
      /\ [q \in PoolNames |-> SemaphoreOf(q)]'[p] = SemaphoreOf(p)'
      /\ [q \in PoolNames |-> HoldersOf(q)][p] = HoldersOf(p)
      /\ [q \in PoolNames |-> HoldersOf(q)]'[p] = HoldersOf(p)'
  OBVIOUS
<1>6. \E order \in SetToSeqs(Permits!Members(p)' \ Permits!Members(p)) :
        /\ SemaphoreOf(p)' = Permits!Entered(SemaphoreOf(p), order)
        /\ HoldersOf(p)' = HoldersOf(p) \cup Permits!GoingOn(SemaphoreOf(p), order)
  BY <1>2, <1>3, <1>4
<1>7. \A S : Permits!IsFiniteSet(S) = IsFiniteSet(S) /\ Permits!SetToSeqs(S) = SetToSeqs(S)
  BY DEF Permits!IsFiniteSet, IsFiniteSet, Permits!SetToSeqs, SetToSeqs, Permits!Cardinality, Cardinality
<1> QED BY <1>2, <1>4, <1>5, <1>6, <1>7 DEF Permits!Enter

\* A pool where an operation is done.
LEMMA LeaveMoves ==
  ASSUME NEW p \in PoolNames, NEW o \in HoldersOf(p),
         SemaphoreOf(p)' = Left(SemaphoreOf(p)),
         HoldersOf(p)' = (HoldersOf(p) \ {o}) \cup Woken(SemaphoreOf(p))
  PROVE  Permits!Leave(p, o)
<1>1. Permits!Left(SemaphoreOf(p)) = Left(SemaphoreOf(p))
      /\ Permits!Woken(SemaphoreOf(p)) = Woken(SemaphoreOf(p))
  BY DEF Left, Woken, Permits!Left, Permits!Woken
<1> QED BY <1>1 DEF Permits!Leave

\* What a pool does when an operation begins or ends somewhere.
PoolStep(p) ==
  \/ SemaphoreOf(p)' = SemaphoreOf(p) /\ HoldersOf(p)' = HoldersOf(p)
  \/ Permits!Enter(p)
  \/ \E o \in HoldersOf(p) : Permits!Leave(p, o)

\* Together the pools make a step.
LEMMA PoolsMove ==
  ASSUME \A p \in PoolNames : PoolStep(p)
  PROVE  Permits!Next
BY DEF PoolStep, Permits!Next

\* The two kinds of pools.
LEMMA PoolsAre ==
  /\ <<>> \in PoolNames /\ SemaphoreOf(<<>>) = fanout /\ HoldersOf(<<>>) = InFanout
  /\ SemaphoreOf(<<>>)' = fanout' /\ HoldersOf(<<>>)' = InFanout'
  /\ \A p \in PoolNames : p = <<>> \/ \E m \in Mailboxes : p = <<m>>
  /\ \A m \in Mailboxes :
       /\ <<m>> \in PoolNames /\ SemaphoreOf(<<m>>) = box[m] /\ HoldersOf(<<m>>) = InBox(m)
       /\ SemaphoreOf(<<m>>)' = box'[m] /\ HoldersOf(<<m>>)' = InBox(m)'
BY DEF PoolNames, SemaphoreOf, HoldersOf

Queued == UNION {Waiting(box[m]) : m \in Mailboxes}

\* Where an operation stands.
LEMMA WhereTheyStand ==
  ASSUME Standing
  PROVE  /\ Waiting(fanout) \cap InFanout = {} /\ Waiting(fanout) \subseteq Operations
         /\ Queued \cap open = {} /\ Queued \cap admitted = {} /\ Queued \subseteq Operations
         /\ Live = admitted \cup open \cup Waiting(fanout) \cup Queued
         /\ InFanout = {o \in admitted \cup open \cup Queued : Fans(o)}
         /\ Live \subseteq Operations
         /\ \A m \in Mailboxes :
              /\ Waiting(box[m]) \cap InBox(m) = {}
              /\ \A o \in Queued : o \in Waiting(box[m]) <=> o[2] = m
<1>1. /\ Waiting(fanout) \cap InFanout = {} /\ Waiting(fanout) \subseteq Operations
  BY DEF Standing, Pooled!Pool, Waiting, Range
<1>2. \A m \in Mailboxes :
        /\ Waiting(box[m]) \cap InBox(m) = {} /\ Waiting(box[m]) \subseteq Operations
        /\ \A o \in Waiting(box[m]) : o[2] = m /\ o \notin admitted
  <2> SUFFICES ASSUME NEW m \in Mailboxes
               PROVE  Waiting(box[m]) \cap InBox(m) = {} /\ Waiting(box[m]) \subseteq Operations
    BY DEF Standing
  <2>1. Pooled!Pool(box[m], InBox(m), MailboxLimit)
    BY DEF Standing
  <2> QED BY <2>1 DEF Pooled!Pool, Waiting, Range
<1>3. /\ Queued \cap admitted = {} /\ Queued \subseteq Operations
      /\ \A m \in Mailboxes : \A o \in Queued : o \in Waiting(box[m]) <=> o[2] = m
  BY <1>2 DEF Queued
<1>4. Queued \cap open = {}
  BY <1>2 DEF Queued, InBox
<1>5. /\ Live = admitted \cup open \cup Waiting(fanout) \cup Queued
      /\ InFanout = {o \in admitted \cup open \cup Queued : Fans(o)}
  BY DEF Live, InFanout, Queued
<1>6. Live \subseteq Operations
  BY <1>1, <1>3, <1>5 DEF Standing
<1> QED BY <1>1, <1>2, <1>3, <1>4, <1>5, <1>6

\* Operations that ask for the fan-out get a permit of it or wait.
LEMMA FanoutGrows ==
  ASSUME Standing, NEW users \in Seq(Operations), Different(users),
         \A o \in Range(users) : Fans(o) /\ o \notin Live, EnterFanout(users)
  PROVE  Standing' /\ Live' = Live \cup Range(users) /\ Permits!Next
<1> DEFINE on == GoingOn(fanout, users)
<1>1. /\ fanout' = Entered(fanout, users) /\ admitted' = admitted \cup on
      /\ UNCHANGED <<box, open>>
  BY DEF EnterFanout
<1>2. Range(users) \cap InFanout = {} /\ Range(users) \cap Waiting(fanout) = {}
  BY WhereTheyStand
<1>3. /\ Pooled!Pool(fanout', InFanout \cup on, FanoutLimit)
      /\ Waiting(fanout') \cup on = Waiting(fanout) \cup Range(users)
      /\ on \subseteq Range(users) /\ Waiting(fanout) \subseteq Waiting(fanout')
  BY <1>1, <1>2, ManyEnter, LimitsArePositive DEF Standing
<1>4. Range(users) \subseteq Operations
  BY DEF Range
<1>5. Queued' = Queued /\ \A m \in Mailboxes : InBox(m)' = InBox(m)
  BY <1>1 DEF Queued, InBox
<1>6. InFanout' = InFanout \cup on
  BY <1>1, <1>3, <1>5, WhereTheyStand DEF InFanout, Queued
<1> HIDE DEF on
<1>7. Standing'
  <2>1. on \cap Live = {} /\ \A o \in on : Fans(o)
    BY <1>3
  <2>2. \A o \in admitted' \cup Waiting(fanout') : Fans(o)
    BY <1>1, <1>3, <2>1 DEF Standing
  <2>3. admitted' \subseteq Operations /\ open' \subseteq Operations /\ \A o \in admitted' : o \notin open'
    BY <1>1, <1>3, <1>4, <2>1, WhereTheyStand DEF Standing
  <2>4. \A m \in Mailboxes : \A o \in Waiting(box'[m]) : o[2] = m /\ o \notin admitted'
    BY <1>1, <2>1, WhereTheyStand DEF Standing, Queued
  <2>5. DOMAIN box' = Mailboxes /\ \A m \in Mailboxes : Pooled!Pool(box'[m], InBox(m)', MailboxLimit)
    BY <1>1, <1>5 DEF Standing
  <2> QED BY <1>3, <1>6, <2>2, <2>3, <2>4, <2>5 DEF Standing
<1>8. Live' = Live \cup Range(users)
  BY <1>1, <1>3, <1>5, WhereTheyStand DEF Live, Queued
<1>9. Permits!Enter(<<>>)
  BY <1>1, <1>2, <1>3, <1>6, PoolsAre, EnterMoves DEF on
<1>10. \A m \in Mailboxes : PoolStep(<<m>>)
  BY <1>1, <1>5, PoolsAre DEF PoolStep
<1> QED BY <1>7, <1>8, <1>9, <1>10, PoolsAre, PoolsMove DEF PoolStep

\* An operation that asks for its mailbox, with a permit of the fan-out or without one.
LEMMA BoxGrows ==
  ASSUME Standing, NEW o \in Operations, o \in admitted \/ (o \notin Live /\ ~Fans(o)), EnterBox(o)
  PROVE  Standing' /\ Live' = Live \cup {o} /\ Permits!Next
<1> DEFINE m == o[2]
           on == GoingOn(box[m], <<o>>)
<1>0. m \in Mailboxes
  BY DEF Operations
<1>1. /\ box' = [box EXCEPT ![m] = Entered(@, <<o>>)] /\ open' = open \cup on
      /\ admitted' = admitted \ {o} /\ fanout' = fanout
  BY DEF EnterBox
<1>2. <<o>> \in Seq(Operations) /\ Different(<<o>>) /\ Range(<<o>>) = {o}
  BY DEF Different, Range
<1>3. DOMAIN box = Mailboxes /\ Pooled!Pool(box[m], InBox(m), MailboxLimit)
  BY <1>0 DEF Standing
<1>4. o \notin InBox(m) /\ o \notin Queued /\ o \notin open
  BY WhereTheyStand DEF InBox, Standing
<1>5. o \notin Waiting(box[m])
  BY <1>0, <1>4 DEF Queued
<1> HIDE DEF m
<1>6. /\ Pooled!Pool(box'[m], InBox(m) \cup on, MailboxLimit)
      /\ Waiting(box'[m]) \cup on = Waiting(box[m]) \cup {o}
      /\ on \subseteq {o} /\ Waiting(box[m]) \subseteq Waiting(box'[m])
  <2>1. box'[m] = Entered(box[m], <<o>>)
    BY <1>0, <1>1, <1>3
  <2>2. \A p \in Range(<<o>>) : p \notin InBox(m) /\ p \notin Waiting(box[m])
    BY <1>2, <1>4, <1>5
  <2> DEFINE users == <<o>>
  <2>3. users \in Seq(Operations) /\ Different(users) /\ MailboxLimit \in Nat
    BY <1>2, LimitsArePositive
  <2>4. /\ box'[m] = Entered(box[m], users) /\ on = GoingOn(box[m], users) /\ Range(users) = {o}
        /\ \A p \in Range(users) : p \notin InBox(m) /\ p \notin Waiting(box[m])
    BY <1>2, <2>1, <2>2
  <2> HIDE DEF users, on
  <2>5. /\ Pooled!Pool(Entered(box[m], users), InBox(m) \cup GoingOn(box[m], users), MailboxLimit)
        /\ Waiting(Entered(box[m], users)) \cup GoingOn(box[m], users) = Waiting(box[m]) \cup Range(users)
        /\ GoingOn(box[m], users) \subseteq Range(users)
        /\ Waiting(box[m]) \subseteq Waiting(Entered(box[m], users))
    <3>1. \A p \in Range(users) : p \notin InBox(m) /\ p \notin Waiting(box[m])
      BY <2>4
    <3> QED BY <1>3, <2>3, <3>1, ManyEnter
  <2> QED BY <2>4, <2>5
<1> HIDE DEF on
<1>7. \A n \in Mailboxes \ {m} : box'[n] = box[n]
  BY <1>1, <1>3
<1>8. InBox(m)' = InBox(m) \cup on /\ \A n \in Mailboxes \ {m} : InBox(n)' = InBox(n)
  BY <1>1, <1>6 DEF InBox, m
<1>9. Queued' \cup on = Queued \cup {o} /\ Queued \subseteq Queued'
  <2>1. Queued = Waiting(box[m]) \cup UNION {Waiting(box[n]) : n \in Mailboxes \ {m}}
    BY <1>0 DEF Queued
  <2>2. Queued' = Waiting(box'[m]) \cup UNION {Waiting(box[n]) : n \in Mailboxes \ {m}}
    BY <1>0, <1>7 DEF Queued
  <2> QED BY <1>6, <2>1, <2>2
<1>10. Waiting(box'[m]) \cap (InBox(m) \cup on) = {}
  BY <1>6 DEF Pooled!Pool, Waiting, Range
<1>11. InFanout' = InFanout
  <2>1. InFanout' = {x \in admitted' \cup open' \cup Queued' : Fans(x)}
    BY DEF InFanout, Queued
  <2>2. admitted' \cup open' \cup Queued' = admitted \cup open \cup Queued \cup {o}
    BY <1>1, <1>9
  <2>3. Fans(o) => o \in admitted
    OBVIOUS
  <2> QED BY <2>1, <2>2, <2>3, WhereTheyStand
<1>12. Live' = Live \cup {o}
  <2>1. Live' = admitted' \cup open' \cup Waiting(fanout') \cup Queued'
    BY DEF Live, Queued
  <2> QED BY <1>1, <1>9, <2>1, WhereTheyStand
<1>13. Standing'
  <2>1. \A x \in admitted' \cup Waiting(fanout') : Fans(x)
    BY <1>1 DEF Standing
  <2>2. admitted' \subseteq Operations /\ open' \subseteq Operations /\ \A x \in admitted' : x \notin open'
    BY <1>1, <1>6 DEF Standing
  <2>3. \A n \in Mailboxes : \A x \in Waiting(box'[n]) : x[2] = n /\ x \notin admitted'
    <3>1. \A x \in Waiting(box'[m]) : x[2] = m /\ x \notin admitted'
      BY <1>0, <1>1, <1>6 DEF Standing, m
    <3>2. \A n \in Mailboxes \ {m} : \A x \in Waiting(box'[n]) : x[2] = n /\ x \notin admitted'
      BY <1>1, <1>7 DEF Standing
    <3> QED BY <3>1, <3>2
  <2>4. \A n \in Mailboxes : Pooled!Pool(box'[n], InBox(n)', MailboxLimit)
    <3>1. Pooled!Pool(box'[m], InBox(m)', MailboxLimit)
      BY <1>6, <1>8
    <3>2. \A n \in Mailboxes \ {m} : Pooled!Pool(box'[n], InBox(n)', MailboxLimit)
      BY <1>7, <1>8 DEF Standing
    <3> QED BY <3>1, <3>2
  <2>5. DOMAIN box' = Mailboxes
    BY <1>1, <1>3
  <2> QED BY <1>1, <1>11, <2>1, <2>2, <2>3, <2>4, <2>5 DEF Standing
<1>14. Permits!Enter(<<m>>)
  <2>1. SemaphoreOf(<<m>>)' = Entered(SemaphoreOf(<<m>>), <<o>>)
    BY <1>0, <1>1, <1>3, PoolsAre
  <2> QED BY <1>0, <1>2, <1>4, <1>5, <1>6, <1>8, <2>1, PoolsAre, EnterMoves DEF on
<1>15. PoolStep(<<>>) /\ \A n \in Mailboxes \ {m} : PoolStep(<<n>>)
  BY <1>1, <1>7, <1>8, <1>11, PoolsAre DEF PoolStep
<1> QED BY <1>12, <1>13, <1>14, <1>15, PoolsAre, PoolsMove DEF PoolStep

\* An operation that is over gives back what it holds: the permit of its mailbox when it has
\* one, and the one of the fan-out when it took one.
LEMMA PermitsReturn ==
  ASSUME Standing, NEW o \in admitted \cup open, LeaveAll(o)
  PROVE  Standing' /\ Live' = Live \ {o} /\ Permits!Next
<1> DEFINE m == o[2]
           here == IF o \in open THEN Woken(box[m]) ELSE {}
           up == IF Fans(o) THEN Woken(fanout) ELSE {}
<1>0. m \in Mailboxes /\ o \in Operations
  BY DEF Operations, Standing
<1>1. /\ box' = IF o \in open THEN [box EXCEPT ![m] = Left(@)] ELSE box
      /\ open' = (open \ {o}) \cup here
      /\ fanout' = IF Fans(o) THEN Left(fanout) ELSE fanout
      /\ admitted' = (admitted \ {o}) \cup up
  BY DEF LeaveAll
<1>2. DOMAIN box = Mailboxes /\ Pooled!Pool(box[m], InBox(m), MailboxLimit)
      /\ Pooled!Pool(fanout, InFanout, FanoutLimit) /\ MailboxLimit \in Nat /\ FanoutLimit \in Nat
  BY <1>0, LimitsArePositive DEF Standing
<1>3. /\ o \notin Waiting(fanout) /\ o \notin Queued
      /\ o \in open => o \notin admitted /\ o \in InBox(m)
      /\ Fans(o) => o \in InFanout
      /\ o \in admitted => Fans(o)
  <2>1. Fans(o) => o \in InFanout
    BY WhereTheyStand
  <2>2. o \notin Waiting(fanout)
    BY <2>1, WhereTheyStand DEF Standing
  <2> QED BY <2>1, <2>2, WhereTheyStand DEF Standing, InBox
<1>4. o \in open => /\ Pooled!Pool(Left(box[m]), (InBox(m) \ {o}) \cup Woken(box[m]), MailboxLimit)
                    /\ Waiting(Left(box[m])) \cup Woken(box[m]) = Waiting(box[m])
  BY <1>2, <1>3, OneLeaves
<1>5. Fans(o) => /\ Pooled!Pool(Left(fanout), (InFanout \ {o}) \cup Woken(fanout), FanoutLimit)
                 /\ Waiting(Left(fanout)) \cup Woken(fanout) = Waiting(fanout)
  BY <1>2, <1>3, OneLeaves
<1>6. Waiting(box'[m]) \cup here = Waiting(box[m])
  BY <1>0, <1>1, <1>2, <1>4
<1>7. Waiting(fanout') \cup up = Waiting(fanout)
  BY <1>1, <1>5
<1>8. \A n \in Mailboxes \ {m} : box'[n] = box[n]
  BY <1>1, <1>2
<1>9. Queued' \cup here = Queued /\ here \subseteq Waiting(box[m])
  <2>1. Queued = Waiting(box[m]) \cup UNION {Waiting(box[n]) : n \in Mailboxes \ {m}}
    BY <1>0 DEF Queued
  <2>2. Queued' = Waiting(box'[m]) \cup UNION {Waiting(box[n]) : n \in Mailboxes \ {m}}
    BY <1>0, <1>8 DEF Queued
  <2> HIDE DEF here
  <2> QED BY <1>6, <2>1, <2>2
<1> HIDE DEF m
<1>10. \A x \in here : x[2] = m /\ x \in Operations /\ x \notin admitted /\ x \notin open
  BY <1>0, <1>9, WhereTheyStand DEF Standing
<1>11. \A x \in up : Fans(x) /\ x \in Operations /\ x \notin admitted /\ x \notin open /\ x \notin Queued
  BY <1>7, WhereTheyStand DEF Standing
<1>12. /\ InBox(m)' = (InBox(m) \ {o}) \cup here
       /\ \A n \in Mailboxes \ {m} : InBox(n)' = InBox(n)
  <2> HIDE DEF here, up
  <2> QED BY <1>1, <1>10 DEF InBox, m
<1>13. InFanout' = (InFanout \ {o}) \cup up
  <2>1. InFanout' = {x \in admitted' \cup open' \cup Queued' : Fans(x)}
    BY DEF InFanout, Queued
  <2>2. admitted' \cup open' \cup Queued' = ((admitted \cup open \cup Queued) \ {o}) \cup up
    <3> HIDE DEF here, up
    <3> QED BY <1>1, <1>3, <1>9
  <2> HIDE DEF here, up
  <2> QED BY <1>11, <2>1, <2>2, WhereTheyStand
<1>14. Live' = Live \ {o}
  <2>1. Live' = admitted' \cup open' \cup Waiting(fanout') \cup Queued'
    BY DEF Live, Queued
  <2> HIDE DEF here, up
  <2> QED BY <1>1, <1>3, <1>7, <1>9, <2>1, WhereTheyStand
<1>15. Standing'
  <2>1. \A x \in admitted' \cup Waiting(fanout') : Fans(x)
    <3> HIDE DEF here, up
    <3> QED BY <1>1, <1>7, <1>11 DEF Standing
  <2>2. admitted' \subseteq Operations /\ open' \subseteq Operations /\ \A x \in admitted' : x \notin open'
    <3>1. here \cap up = {}
      BY <1>9, <1>11, WhereTheyStand
    <3> HIDE DEF here, up
    <3> QED BY <1>1, <1>10, <1>11, <3>1 DEF Standing
  <2>3. \A n \in Mailboxes : \A x \in Waiting(box'[n]) : x[2] = n /\ x \notin admitted'
    <3> HIDE DEF here, up
    <3>1. \A x \in Waiting(box'[m]) : x[2] = m /\ x \in Queued /\ x \notin admitted
      BY <1>0, <1>6 DEF Standing, Queued
    <3>2. \A n \in Mailboxes \ {m} : \A x \in Waiting(box'[n]) : x[2] = n /\ x \in Queued /\ x \notin admitted
      BY <1>8 DEF Standing, Queued
    <3> QED BY <1>1, <1>11, <3>1, <3>2
  <2>4. \A n \in Mailboxes : Pooled!Pool(box'[n], InBox(n)', MailboxLimit)
    <3>1. Pooled!Pool(box'[m], InBox(m)', MailboxLimit)
      <4>1. CASE o \in open
        BY <1>0, <1>1, <1>2, <1>4, <1>12, <4>1
      <4>2. CASE o \notin open
        <5>1. InBox(m) \ {o} = InBox(m)
          BY <4>2 DEF InBox
        <5> QED BY <1>1, <1>2, <1>12, <4>2, <5>1
      <4> QED BY <4>1, <4>2
    <3>2. \A n \in Mailboxes \ {m} : Pooled!Pool(box'[n], InBox(n)', MailboxLimit)
      BY <1>8, <1>12 DEF Standing
    <3> QED BY <3>1, <3>2
  <2>5. DOMAIN box' = Mailboxes
    BY <1>1, <1>2
  <2>6. Pooled!Pool(fanout', InFanout', FanoutLimit)
    <3>1. CASE Fans(o)
      BY <1>1, <1>5, <1>13, <3>1
    <3>2. CASE ~Fans(o)
      <4>1. InFanout \ {o} = InFanout
        BY <3>2 DEF InFanout
      <4> QED BY <1>1, <1>2, <1>13, <3>2, <4>1
    <3> QED BY <3>1, <3>2
  <2> QED BY <2>1, <2>2, <2>3, <2>4, <2>5, <2>6 DEF Standing
<1>16. PoolStep(<<>>)
  <2>1. CASE Fans(o)
    BY <1>1, <1>3, <1>13, <2>1, PoolsAre, LeaveMoves DEF PoolStep
  <2>2. CASE ~Fans(o)
    <3>1. InFanout \ {o} = InFanout
      BY <2>2 DEF InFanout
    <3> QED BY <1>1, <1>13, <2>2, <3>1, PoolsAre DEF PoolStep
  <2> QED BY <2>1, <2>2
<1>17. PoolStep(<<m>>)
  <2>1. CASE o \in open
    <3>1. box'[m] = Left(box[m]) /\ InBox(m)' = (InBox(m) \ {o}) \cup Woken(box[m])
      BY <1>0, <1>1, <1>2, <1>12, <2>1
    <3>2. Permits!Leave(<<m>>, o)
      BY <1>0, <1>3, <2>1, <3>1, PoolsAre, LeaveMoves
    <3> QED BY <1>0, <1>3, <2>1, <3>2, PoolsAre DEF PoolStep
  <2>2. CASE o \notin open
    <3>1. InBox(m) \ {o} = InBox(m)
      BY <2>2 DEF InBox
    <3> QED BY <1>0, <1>1, <1>12, <2>2, <3>1, PoolsAre DEF PoolStep
  <2> QED BY <2>1, <2>2
<1>18. \A n \in Mailboxes \ {m} : PoolStep(<<n>>)
  BY <1>8, <1>12, PoolsAre DEF PoolStep
<1> QED BY <1>14, <1>15, <1>16, <1>17, <1>18, PoolsAre, PoolsMove

\* A step that leaves the permits alone.
LEMMA NothingMoves ==
  ASSUME Standing, UNCHANGED <<fanout, box, admitted, open>>
  PROVE  Standing' /\ Live' = Live /\ UNCHANGED Permits!vars
<1>1. /\ InFanout' = InFanout /\ \A m \in Mailboxes : InBox(m)' = InBox(m)
      /\ Live' = Live
  BY DEF InFanout, InBox, Live
<1>2. Standing'
  BY <1>1 DEF Standing
<1>3. \A p \in PoolNames : SemaphoreOf(p)' = SemaphoreOf(p) /\ HoldersOf(p)' = HoldersOf(p)
  BY <1>1, PoolsAre
<1>4. UNCHANGED PoolNames
  BY DEF PoolNames
<1> QED BY <1>1, <1>2, <1>3, <1>4 DEF Permits!vars

----------------------------------------------------------------------------
\* What a call makes of its record, and that it still fits

\* The operations of a call that has come to its answer are of folders or checks.
Harmless(ops) == \A o \in ops : o[3] \in Folders \cup {"health"}

\* The record of a call that is not there.
LEMMA NoCallIsCall == NoCall \in CallShape
BY BoundIsNatural DEF NoCall, CallShape, OpNames, Places, Codes

\* A call that has been received leaves its operations alone.
LEMMA NoCallFits ==
  ASSUME NEW ops, Harmless(ops)
  PROVE  Fits(NoCall, ops)
<1>1. NoCall \in CallShape
  BY NoCallIsCall
<1>2. NoCall.at = "idle" /\ NoCall.todo = <<>>
  BY DEF NoCall
<1>3. Errands(NoCall, ops)
  BY <1>2, WhatsDiffer DEF Errands, Harmless, Gone
<1>4. Course(NoCall) /\ Turns(NoCall, ops) /\ ~InSearch(NoCall)
  BY <1>2 DEF Course, Resolving, Turns, Different, InSearch, Gone
<1> QED BY <1>1, <1>3, <1>4 DEF Fits

\* A call that is answered with its code alone.
LEMMA AnsweredFits ==
  ASSUME NEW r \in CallShape, NEW code \in Codes, NEW ops, Harmless(ops),
         ~(code = "ok" /\ Finds(r))
  PROVE  Fits(Answered(r, code), ops)
<1> DEFINE n == Answered(r, code)
<1>1. n = [NoCall EXCEPT !.op = r.op, !.at = "answered", !.code = code]
  BY DEF Answered, Finds
<1>2. NoCall \in CallShape /\ r.op \in OpNames /\ NoCall.todo = <<>>
  BY NoCallIsCall DEF CallShape, NoCall
<1>3. n \in CallShape /\ n.op = r.op /\ n.at = "answered" /\ n.code = code /\ n.todo = <<>>
  BY <1>1, <1>2 DEF CallShape, Places
<1> HIDE DEF n
<1>4. Errands(n, ops)
  BY <1>3, WhatsDiffer DEF Errands, Harmless, Gone
<1>5. Course(n)
  BY <1>3 DEF Course, Resolving
<1>6. Turns(n, ops) /\ ~InSearch(n)
  BY <1>3 DEF Turns, Different, InSearch, Gone, Finds
<1> QED BY <1>3, <1>4, <1>5, <1>6 DEF Fits, n

\* A mailbox that cannot be resolved is a failure of a search, and the end of another call.
LEMMA FailingFits ==
  ASSUME NEW r, NEW ops, Fits(r, ops), r.at \in Resolving, r.todo # <<>>, Head(r.todo) \in Enabled,
         NEW code \in Codes \ {"ok"}, NEW left, left \subseteq ops, Harmless(left),
         \A o \in ops : o[3] \in Folders => o \in left
  PROVE  Fits(Failing(r, code), left)
<1>0. r \in CallShape
  BY DEF Fits
<1>1. CASE ~Finds(r)
  BY <1>0, <1>1, AnsweredFits DEF Failing, Finds
<1>2. CASE Finds(r)
  <2> DEFINE m == Head(r.todo)
             n == [r EXCEPT !.at = "resolving", !.todo = Tail(r.todo), !.failures = r.failures \cup {<<m, "all">>}]
  <2>1. Failing(r, code) = n
    BY <1>2 DEF Failing, Finds
  <2>2. /\ Tail(r.todo) \in Seq(Mailboxes) /\ Different(Tail(r.todo)) /\ m \in Mailboxes
        /\ m \in Range(r.todo) /\ Range(Tail(r.todo)) = Range(r.todo) \ {m}
    <3>1. r.todo \in Seq(Mailboxes) /\ Different(r.todo)
      BY <1>0 DEF CallShape, Fits, Turns
    <3> QED BY <3>1, RestOfList
  <2> HIDE DEF m
  <2>3. n \in CallShape
    <3>1. r.failures \cup {<<m, "all">>} \in SUBSET (Mailboxes \X (Folders \cup {"all"}))
      BY <1>0, <2>2 DEF CallShape
    <3>2. "resolving" \in Places
      BY DEF Places
    <3> QED BY <1>0, <2>2, <3>1, <3>2 DEF CallShape
  <2>4. /\ n.at = "resolving" /\ n.todo = Tail(r.todo) /\ n.failures = r.failures \cup {<<m, "all">>}
        /\ n.op = r.op /\ n.boxes = r.boxes /\ n.folders = r.folders /\ n.results = r.results
        /\ n.owed = r.owed /\ n.explicit = r.explicit /\ n.inline = r.inline
    BY <1>0 DEF CallShape
  <2> HIDE DEF n
  <2>5. Errands(n, left)
    BY <2>4, WhatsDiffer DEF Errands, Harmless, Fits, Resolving, Gone
  <2>6. Course(n)
    BY <1>2, <2>4 DEF Course, Finds
  <2>7. Turns(n, left)
    BY <2>2, <2>4 DEF Turns, Fits, Resolving, Gone
  <2>8. Accounts(r, ops) /\ Owes(r, ops)
    BY <1>2 DEF Fits, InSearch, Resolving
  <2>9. Asking(n, left) = Asking(r, ops) /\ Wanted(n) = Wanted(r)
    BY <2>4 DEF Asking, Wanted
  <2>10. \A x, f : (MayAsk(n, x) <=> MayAsk(r, x)) /\ (MaySearch(n, x, f) <=> MaySearch(r, x, f))
    BY <2>4 DEF MayAsk, MaySearch
  <2>11. Accounts(n, left)
    <3>1. \A k \in Wanted(n) : k \in Range(n.todo) \/ \E x \in Asking(n, left) \cup n.failures : x[1] = k
      <4>1. \A k \in Wanted(r) : k \in Range(r.todo) \/ \E x \in Asking(r, ops) \cup r.failures : x[1] = k
        BY <2>8 DEF Accounts
      <4>2. <<m, "all">> \in n.failures /\ <<m, "all">>[1] = m /\ r.failures \subseteq n.failures
        BY <2>4
      <4> QED BY <2>2, <2>4, <2>9, <4>1, <4>2
    <3>2. \A x \in n.failures :
            /\ MayAsk(n, x[1]) /\ x[1] \in Enabled
            /\ x[2] # "all" => MaySearch(n, x[1], x[2])
      BY <2>2, <2>4, <2>8, <2>10 DEF Accounts, m
    <3> QED BY <2>2, <2>4, <2>8, <2>9, <2>10, <3>1, <3>2 DEF Accounts
  <2>12. Owes(n, left)
    <3>1. r.failures \subseteq n.failures /\ \A x, w : Covers(n, x, w) <=> Covers(r, x, w)
      BY <2>4 DEF Covers
    <3> QED BY <2>4, <2>8, <2>9, <3>1 DEF Owes
  <2> QED BY <2>1, <2>3, <2>5, <2>6, <2>7, <2>11, <2>12 DEF Fits
<1> QED BY <1>1, <1>2

\* A mailbox is listed.
Listed(r, list) == [r EXCEPT !.at = "listed", !.list = list]

LEMMA ListedFits ==
  ASSUME NEW r, NEW ops, Fits(r, ops), r.at \in {"resolving", "discovering"}, r.todo # <<>>,
         Head(r.todo) \in Enabled, NEW list, list \subseteq Folders, list # {},
         Head(r.todo) \notin AllSelectable => list = Allowed,
         NEW left, left \subseteq ops, Harmless(left), \A o \in ops : o[3] \in Folders => o \in left
  PROVE  Fits(Listed(r, list), left)
<1> DEFINE n == [r EXCEPT !.at = "listed", !.list = list]
<1>0. r \in CallShape /\ r.at \in Resolving
  BY DEF Fits, Resolving
<1>1. Listed(r, list) = n
  BY DEF Listed
<1>2. n \in CallShape
  <2>1. "listed" \in Places
    BY DEF Places
  <2> QED BY <1>0, <2>1 DEF CallShape
<1>3. /\ n.at = "listed" /\ n.todo = r.todo /\ n.failures = r.failures
      /\ n.op = r.op /\ n.boxes = r.boxes /\ n.folders = r.folders /\ n.results = r.results
      /\ n.owed = r.owed /\ n.explicit = r.explicit /\ n.inline = r.inline /\ n.list = list
  BY <1>0 DEF CallShape
<1> HIDE DEF n
<1>4. Errands(n, left)
  BY <1>0, <1>3, WhatsDiffer DEF Errands, Harmless, Fits, Resolving, Gone
<1>5. Course(n)
  BY <1>0, <1>3 DEF Course, Finds, Fits, Resolving
<1>6. Turns(n, left)
  BY <1>0, <1>3 DEF Turns, Fits, Resolving, Gone
<1>7. InSearch(n) => Accounts(n, left) /\ Owes(n, left)
  <2> SUFFICES ASSUME Finds(r) PROVE Accounts(n, left) /\ Owes(n, left)
    BY <1>3 DEF InSearch, Finds
  <2>1. Accounts(r, ops) /\ Owes(r, ops)
    BY <1>0 DEF Fits, InSearch, Resolving
  <2>2. Asking(n, left) = Asking(r, ops) /\ Wanted(n) = Wanted(r)
    BY <1>3 DEF Asking, Wanted
  <2>3. \A x, f : (MayAsk(n, x) <=> MayAsk(r, x)) /\ (MaySearch(n, x, f) <=> MaySearch(r, x, f))
    BY <1>3 DEF MayAsk, MaySearch
  <2>4. Accounts(n, left)
    BY <1>3, <2>1, <2>2, <2>3 DEF Accounts
  <2>5. \A x, w : Covers(n, x, w) <=> Covers(r, x, w)
    BY <1>3 DEF Covers
  <2> QED BY <1>3, <2>1, <2>2, <2>4, <2>5 DEF Owes
<1> QED BY <1>1, <1>2, <1>4, <1>5, <1>6, <1>7 DEF Fits

\* A folder that is searched for another one.
StandsFor(m, asked, g, f) ==
  g = f \/ (asked = {} /\ m \in AllSelectable /\ Kind[g] = "all" /\ Kind[f] = "plain")

\* The folders that are searched stand for all those of the list, or for those asked for.
LEMMA FoldersCover ==
  ASSUME NEW m, NEW asked, NEW list, list # {}
  PROVE  /\ FoldersOf(m, asked, list) # {}
         /\ asked # {} => FoldersOf(m, asked, list) = asked
         /\ \A w \in Owed(m, asked, list) :
              w[1] = m /\ \E g \in FoldersOf(m, asked, list) :
                            StandsFor(m, asked, g, w[2]) /\ <<m, g>> \in Owed(m, asked, list)
<1> DEFINE fs == FoldersOf(m, asked, list)
<1>1. CASE asked # {}
  BY <1>1 DEF FoldersOf, Owed, StandsFor
<1>2. CASE asked = {}
  <2>1. \A f \in list : <<m, f>> \in Owed(m, asked, list)
    BY <1>2 DEF Owed
  <2>2. \A w \in Owed(m, asked, list) : w[1] = m /\ w[2] \in list
    BY <1>2 DEF Owed
  <2>3. CASE fs = list
    BY <1>2, <2>1, <2>2, <2>3 DEF StandsFor
  <2>4. CASE fs # list
    <3>1. m \in AllSelectable /\ \E g \in list : Kind[g] = "all"
      BY <1>2, <2>4 DEF FoldersOf, DefaultFolders
    <3>2. PICK g \in list : Kind[g] = "all"
      BY <3>1
    <3>3. fs = {f \in list : Kind[f] # "plain"}
      BY <1>2, <2>4 DEF FoldersOf, DefaultFolders
    <3>4. g \in fs /\ Kind[g] # "plain"
      BY <3>2, <3>3
    <3>5. ASSUME NEW w \in Owed(m, asked, list)
          PROVE  \E h \in fs : StandsFor(m, asked, h, w[2]) /\ <<m, h>> \in Owed(m, asked, list)
      <4>1. CASE w[2] \in fs
        BY <2>1, <2>2, <4>1 DEF StandsFor
      <4>2. CASE w[2] \notin fs
        BY <1>2, <2>1, <2>2, <3>1, <3>2, <3>3, <3>4, <4>2 DEF StandsFor
      <4> QED BY <4>1, <4>2
    <3> QED BY <1>2, <2>2, <3>4, <3>5
  <2> QED BY <2>3, <2>4
<1> QED BY <1>1, <1>2

\* The folders of a mailbox are on their way.
Launched(r, latest) ==
  [r EXCEPT !.at = "resolving", !.todo = Tail(@), !.list = {},
            !.owed = @ \cup Owed(Head(r.todo), r.folders, latest)]

OnFolders(c, m, fs) == {<<c, m, f>> : f \in fs}

LEMMA LaunchedFits ==
  ASSUME NEW r, NEW ops, NEW c, Fits(r, ops), r.at = "listed", r.op # "page",
         NEW latest, latest \subseteq Folders, latest # {},
         FoldersOf(Head(r.todo), r.folders, latest) \subseteq r.list
  PROVE  Fits(Launched(r, latest),
              ops \cup OnFolders(c, Head(r.todo), FoldersOf(Head(r.todo), r.folders, latest)))
<1> DEFINE m == Head(r.todo)
           fs == FoldersOf(m, r.folders, latest)
           more == Owed(m, r.folders, latest)
           new == {<<c, m, f>> : f \in fs}
           n == [r EXCEPT !.at = "resolving", !.todo = Tail(r.todo), !.list = {}, !.owed = r.owed \cup more]
<1>0. r \in CallShape /\ r.at \in Resolving /\ r.todo # <<>> /\ m \in Enabled
  BY DEF Fits, Resolving, Turns
<1>1. Launched(r, latest) = n
  BY DEF Launched
<1>2. /\ Tail(r.todo) \in Seq(Mailboxes) /\ Different(Tail(r.todo)) /\ m \in Mailboxes
      /\ m \in Range(r.todo) /\ Range(Tail(r.todo)) = Range(r.todo) \ {m}
  <2>1. r.todo \in Seq(Mailboxes) /\ Different(r.todo)
    BY <1>0 DEF CallShape, Fits, Turns
  <2> QED BY <1>0, <2>1, RestOfList
<1>3. fs \subseteq r.list /\ fs \subseteq Folders
  BY <1>0 DEF CallShape
<1>4. /\ fs # {} /\ (r.folders # {} => fs = r.folders)
      /\ \A w \in more :
           w[1] = m /\ \E g \in fs : StandsFor(m, r.folders, g, w[2]) /\ <<m, g>> \in more
  BY FoldersCover
<1>14. r.owed \cup more \in SUBSET (Mailboxes \X Folders)
  <2>1. r.folders \subseteq Folders /\ r.owed \subseteq Mailboxes \X Folders
    BY <1>0 DEF CallShape
  <2>2. \A f \in Folders : <<m, f>> \in Mailboxes \X Folders
    BY <1>2
  <2> HIDE DEF m
  <2> QED BY <2>1, <2>2 DEF Owed
<1> HIDE DEF fs, more
<1>5. \A o \in new : o[2] = m /\ o[3] \in fs /\ o[3] \in Folders
  BY <1>3
<1>6. {<<o[2], o[3]>> : o \in new} = {<<m, f>> : f \in fs}
  <2>1. \A o \in new : \E f \in fs : <<o[2], o[3]>> = <<m, f>>
    OBVIOUS
  <2>2. \A f \in fs : \E o \in new : <<o[2], o[3]>> = <<m, f>>
    <3>1. ASSUME NEW f \in fs PROVE \E o \in new : <<o[2], o[3]>> = <<m, f>>
      <4>1. <<c, m, f>> \in new /\ <<c, m, f>>[2] = m /\ <<c, m, f>>[3] = f
        OBVIOUS
      <4> QED BY <4>1
    <3> QED BY <3>1
  <2> HIDE DEF new
  <2> QED BY <2>1, <2>2
<1> HIDE DEF new, m
<1>7. n \in CallShape
  <2>1. "resolving" \in Places
    BY DEF Places
  <2>2. {} \in SUBSET Folders
    OBVIOUS
  <2> QED BY <1>0, <1>2, <1>14, <2>1, <2>2 DEF CallShape
<1>8. /\ n.at = "resolving" /\ n.todo = Tail(r.todo) /\ n.failures = r.failures
      /\ n.op = r.op /\ n.boxes = r.boxes /\ n.folders = r.folders /\ n.results = r.results
      /\ n.owed = r.owed \cup more /\ n.explicit = r.explicit /\ n.inline = r.inline
  BY <1>0 DEF CallShape
<1> HIDE DEF n
<1> DEFINE all == ops \cup new
<1>9. Errands(n, all)
  <2>1. Errands(r, ops)
    BY DEF Fits
  <2>2. \A o \in ops : o[3] \notin {"read", "discover", "health"}
    BY <2>1 DEF Errands, Gone
  <2>3. \A o \in all : o[3] \notin {"read", "discover", "health"}
    BY <1>5, <2>2, WhatsDiffer
  <2> HIDE DEF all
  <2> QED BY <1>8, <2>3 DEF Errands, Resolving
<1>10. Course(n)
  BY <1>0, <1>8 DEF Course, Finds, Fits, Resolving
<1>11. Turns(n, all)
  <2>1. \A o \in ops : o[3] \in Folders => o[2] \notin Range(r.todo)
    BY DEF Turns, Fits, Gone
  <2>2. \A o \in all : o[3] \in Folders => o[2] \notin Range(n.todo)
    BY <1>2, <1>5, <1>8, <2>1
  <2> HIDE DEF all
  <2> QED BY <1>2, <1>8, <2>2 DEF Turns
<1>12. InSearch(n) => Accounts(n, all) /\ Owes(n, all)
  <2> SUFFICES ASSUME Finds(r) PROVE Accounts(n, all) /\ Owes(n, all)
    BY <1>8 DEF InSearch, Finds
  <2>1. Accounts(r, ops) /\ Owes(r, ops)
    BY <1>0 DEF Fits, InSearch, Resolving
  <2>2. Asking(n, all) = Asking(r, ops) \cup {<<m, f>> : f \in fs} /\ Wanted(n) = Wanted(r)
    <3>1. {<<o[2], o[3]>> : o \in {p \in all : p[3] \in Folders}}
            = {<<o[2], o[3]>> : o \in {p \in ops : p[3] \in Folders}} \cup {<<o[2], o[3]>> : o \in new}
      BY <1>5
    <3> QED BY <1>6, <1>8, <3>1 DEF Asking, Wanted
  <2>3. \A x, f : (MayAsk(n, x) <=> MayAsk(r, x)) /\ (MaySearch(n, x, f) <=> MaySearch(r, x, f))
    BY <1>8 DEF MayAsk, MaySearch
  <2>4. \A x \in {<<m, f>> : f \in fs} : MaySearch(n, x[1], x[2])
    <3>1. MayAsk(r, m)
      BY <1>2, <2>1 DEF Accounts
    <3>2. m \notin AllSelectable => fs \subseteq Allowed
      BY <1>3 DEF Fits, Turns, m
    <3>3. \A f \in fs : MaySearch(r, m, f)
      BY <1>0, <1>4, <3>1, <3>2 DEF MaySearch, m
    <3> QED BY <2>3, <3>3
  <2>5. \A k \in Wanted(n) : k \in Range(n.todo) \/ \E x \in Asking(n, all) \cup n.failures : x[1] = k
    <3>1. \A k \in Wanted(r) : k \in Range(r.todo) \/ \E x \in Asking(r, ops) \cup r.failures : x[1] = k
      BY <2>1 DEF Accounts
    <3>2. \E x \in Asking(n, all) : x[1] = m
      <4>1. PICK g \in fs : TRUE
        BY <1>4
      <4>2. <<m, g>> \in Asking(n, all) /\ <<m, g>>[1] = m
        BY <2>2, <4>1
      <4> QED BY <4>2
    <3> QED BY <1>2, <1>8, <2>2, <3>1, <3>2
  <2>6. Accounts(n, all)
    <3>1. \A k \in Range(n.todo) : MayAsk(n, k)
      BY <1>2, <1>8, <2>1, <2>3 DEF Accounts
    <3>2. \A x \in Asking(n, all) : MaySearch(n, x[1], x[2])
      BY <2>1, <2>2, <2>3, <2>4 DEF Accounts
    <3>3. \A x \in n.failures :
            /\ MayAsk(n, x[1]) /\ x[1] \in Enabled
            /\ x[2] # "all" => MaySearch(n, x[1], x[2])
      BY <1>8, <2>1, <2>3 DEF Accounts
    <3> QED BY <1>8, <2>5, <3>1, <3>2, <3>3 DEF Accounts
  <2>7. \A x, w : Covers(n, x, w) <=> Covers(r, x, w)
    BY <1>8 DEF Covers
  <2>8. ASSUME NEW w \in more
        PROVE  \E x \in Asking(n, all) : Covers(r, x, w) /\ x \in more
    <3>1. PICK g \in fs : StandsFor(m, r.folders, g, w[2]) /\ <<m, g>> \in more /\ w[1] = m
      BY <1>4
    <3>2. <<m, g>> \in Asking(n, all) /\ <<m, g>>[1] = m /\ <<m, g>>[2] = g
      BY <2>2, <3>1
    <3>3. Covers(r, <<m, g>>, w)
      BY <3>1, <3>2 DEF Covers, StandsFor
    <3> QED BY <3>1, <3>2, <3>3
  <2>9. \A w \in r.owed : \E x \in Asking(n, all) \cup n.failures : Covers(r, x, w) /\ x \in r.owed
    BY <1>8, <2>1, <2>2 DEF Owes
  <2> HIDE DEF all
  <2>12. Owes(n, all)
    BY <1>8, <2>7, <2>8, <2>9 DEF Owes
  <2> QED BY <2>6, <2>12
<1>13. OnFolders(c, Head(r.todo), FoldersOf(Head(r.todo), r.folders, latest)) = new
  BY DEF OnFolders, fs, new, m
<1> QED BY <1>1, <1>7, <1>9, <1>10, <1>11, <1>12, <1>13 DEF Fits

\* What an operation on a folder tells.
LEMMA ToldFits ==
  ASSUME NEW r, NEW ops, ops \subseteq Operations, Fits(r, ops),
         NEW o \in ops, o[3] \in Folders, NEW how
  PROVE  Fits(Told(r, o, how), ops \ {o})
<1> DEFINE x == <<o[2], o[3]>>
           left == ops \ {o}
<1>0. r \in CallShape /\ Errands(r, ops) /\ Course(r) /\ Turns(r, ops) /\ x \in Mailboxes \X Folders
  BY DEF Fits, Operations
<1>1. Errands(r, left) /\ Turns(r, left)
  BY <1>0 DEF Errands, Turns
<1>2. CASE r.at \in Gone \/ ~Finds(r)
  <2>1. ~InSearch(r)
    BY <1>2 DEF InSearch, Fits, Accounts, Gone
  <2>2. Told(r, o, how) = r
    BY <1>2 DEF Told, Finds, Gone
  <2> QED BY <1>0, <1>1, <2>1, <2>2 DEF Fits
<1>3. CASE r.at \notin Gone /\ Finds(r)
  <2>1. Accounts(r, ops) /\ Owes(r, ops) /\ r.at # "answered"
    BY <1>3 DEF Fits, InSearch, Gone
  <2>2. x \in Asking(r, ops) /\ MaySearch(r, x[1], x[2])
    BY <2>1 DEF Asking, Accounts
  <2>3. Asking(r, left) \cup {x} = Asking(r, ops)
    BY DEF Asking
  <2> DEFINE ok == [r EXCEPT !.results = r.results \cup {x}, !.refused = r.refused \/ how = "refused"]
             bad == [r EXCEPT !.failures = r.failures \cup {x}]
  <2>4. ok \in CallShape /\ bad \in CallShape
    <3>1. r.results \cup {x} \in SUBSET (Mailboxes \X Folders)
          /\ r.failures \cup {x} \in SUBSET (Mailboxes \X (Folders \cup {"all"}))
      BY <1>0 DEF CallShape
    <3>2. (r.refused \/ how = "refused") \in BOOLEAN
      BY <1>0 DEF CallShape
    <3> HIDE DEF x
    <3> QED BY <1>0, <3>1, <3>2 DEF CallShape
  <2> HIDE DEF x
  <2>5. ASSUME NEW n \in {ok, bad}
        PROVE  /\ n.at = r.at /\ n.todo = r.todo /\ n.op = r.op /\ n.boxes = r.boxes
               /\ n.folders = r.folders /\ n.owed = r.owed /\ n.explicit = r.explicit
               /\ n.inline = r.inline /\ n.list = r.list /\ n.reads = r.reads
    BY <1>0 DEF CallShape
  <2>6. /\ ok.results = r.results \cup {x} /\ ok.failures = r.failures
        /\ bad.failures = r.failures \cup {x} /\ bad.results = r.results
    BY <1>0 DEF CallShape
  <2>7. Told(r, o, how) \in {ok, bad}
    BY <1>3 DEF Told, Finds, Gone, x
  <2> HIDE DEF ok, bad
  <2>8. ASSUME NEW n \in {ok, bad} PROVE Fits(n, left)
    <3>1. Errands(n, left) /\ Turns(n, left)
      BY <1>1, <2>5 DEF Errands, Turns
    <3>2. Course(n)
      BY <1>0, <1>3, <2>5 DEF Course, Finds, Gone
    <3>3. Asking(n, left) \cup n.failures = Asking(r, ops) \cup r.failures
      <4>1. Asking(ok, left) = Asking(r, left) \cup {x} /\ Asking(bad, left) = Asking(r, left)
        BY <2>6 DEF Asking
      <4> QED BY <2>3, <2>6, <4>1
    <3>4. Wanted(n) = Wanted(r)
      BY <2>5 DEF Wanted
    <3>5. \A k, f : (MayAsk(n, k) <=> MayAsk(r, k)) /\ (MaySearch(n, k, f) <=> MaySearch(r, k, f))
      BY <2>5 DEF MayAsk, MaySearch
    <3>6. Asking(n, left) \subseteq Asking(r, ops) /\ n.failures \subseteq r.failures \cup {x}
      <4>1. Asking(ok, left) = Asking(r, left) \cup {x} /\ Asking(bad, left) = Asking(r, left)
        BY <2>6 DEF Asking
      <4> QED BY <2>3, <2>6, <4>1
    <3>7. Accounts(n, left)
      <4>1. \A k \in Wanted(n) : k \in Range(n.todo) \/ \E y \in Asking(n, left) \cup n.failures : y[1] = k
        BY <2>1, <2>5, <3>3, <3>4 DEF Accounts
      <4>2. \A k \in Range(n.todo) : MayAsk(n, k)
        BY <2>1, <2>5, <3>5 DEF Accounts
      <4>3. \A y \in Asking(n, left) : MaySearch(n, y[1], y[2])
        BY <2>1, <3>5, <3>6 DEF Accounts
      <4>4. \A y \in n.failures :
              /\ MayAsk(n, y[1]) /\ y[1] \in Enabled
              /\ y[2] # "all" => MaySearch(n, y[1], y[2])
        BY <2>1, <2>2, <3>5, <3>6 DEF Accounts, MaySearch
      <4>5. n.at # "answered"
        BY <2>1, <2>5
      <4> QED BY <4>1, <4>2, <4>3, <4>4, <4>5 DEF Accounts
    <3>8. Owes(n, left)
      <4>1. \A y, w : Covers(n, y, w) <=> Covers(r, y, w)
        BY <2>5 DEF Covers
      <4> QED BY <2>1, <2>5, <3>3, <4>1 DEF Owes
    <3> QED BY <2>4, <3>1, <3>2, <3>7, <3>8 DEF Fits
  <2> QED BY <2>7, <2>8
<1> QED BY <1>2, <1>3

\* The operations a call can have where it stands.
LEMMA OperationsFit ==
  ASSUME NEW r, NEW ops, ops \subseteq Operations, Fits(r, ops)
  PROVE  /\ r.at \in {"checking", "next"} => ops = {}
         /\ r.at = "listed" /\ r.op = "page" => ops = {}
         /\ r.at \notin {"reading", "discovering"} => Harmless(ops)
         /\ \A o \in ops : o[3] = "discover" => r.at = "discovering" /\ Harmless(ops \ {o})
         /\ \A o \in ops : o[3] = "read" => r.at = "reading" /\ ops = {o}
<1>1. \A o \in ops : o[3] \in Folders \cup {"discover", "health", "read"}
  BY DEF Operations, Whats
<1>2. Errands(r, ops)
  BY DEF Fits
<1>3. r.at \in {"checking", "next"} => ops = {}
  BY <1>1, <1>2 DEF Errands, Gone, Resolving
<1>4. r.at = "listed" /\ r.op = "page" => ops = {}
  BY <1>1, <1>2 DEF Errands, Gone, Resolving
<1>5. r.at \notin {"reading", "discovering"} => Harmless(ops)
  BY <1>1, <1>2 DEF Errands, Harmless
<1>6. \A o \in ops : o[3] = "discover" => r.at = "discovering" /\ Harmless(ops \ {o})
  BY <1>1, <1>2 DEF Errands, Harmless
<1>7. ASSUME NEW o \in ops, o[3] = "read" PROVE r.at = "reading" /\ ops = {o}
  <2>1. r.at = "reading"
    BY <1>2, <1>7 DEF Errands
  <2>2. \A p \in ops : p[3] = "read"
    BY <1>1, <1>2, <2>1 DEF Errands, Gone, Resolving
  <2> QED BY <1>2, <1>7, <2>1, <2>2 DEF Errands
<1> QED BY <1>3, <1>4, <1>5, <1>6, <1>7

\* A call that begins.
LEMMA BegunFits ==
  ASSUME NEW c \in Calls, NEW request \in Requests[c]
  PROVE  Fits([NoCall EXCEPT !.op = request.op, !.boxes = request.boxes, !.todo = SetToSeq(request.boxes),
                 !.folders = request.folders, !.filter = request.filter, !.reads = request.reads,
                 !.at = FirstStep(request.op)], {})
<1> DEFINE n == [NoCall EXCEPT !.op = request.op, !.boxes = request.boxes, !.todo = SetToSeq(request.boxes),
                   !.folders = request.folders, !.filter = request.filter, !.reads = request.reads,
                   !.at = FirstStep(request.op)]
           todo == SetToSeq(request.boxes)
<1>1. /\ request.op \in {"search", "page", "batch", "thread", "health"}
      /\ request.boxes \in SUBSET Mailboxes /\ request.folders \in SUBSET Folders
      /\ request.filter \in BOOLEAN /\ request.reads \in 0..MaxReads
  BY RequestsAreValid
<1>2. todo \in Seq(request.boxes) /\ Different(todo) /\ Range(todo) = request.boxes
  <2>1. IsFiniteSet(request.boxes)
    BY <1>1, ThingsAreFinite, FS_Subset
  <2> QED BY <2>1, ListsAll
<1>3. todo \in Seq(Mailboxes)
  BY <1>1, <1>2
<1>4. NoCall \in CallShape
  BY NoCallIsCall
<1> HIDE DEF todo
<1>5. FirstStep(request.op) \in Places
  BY <1>1 DEF FirstStep, Places
<1>6. n \in CallShape
  BY <1>1, <1>3, <1>4, <1>5 DEF CallShape, OpNames, todo
<1>7. /\ n.op = request.op /\ n.boxes = request.boxes /\ n.todo = todo /\ n.folders = request.folders
      /\ n.at = FirstStep(request.op) /\ n.results = {} /\ n.failures = {} /\ n.owed = {}
      /\ n.explicit = {} /\ n.inline = {}
  BY DEF NoCall, todo
<1> HIDE DEF n
<1>8. /\ n.at \in {"resolving", "checking", "next"}
      /\ n.at = "resolving" <=> n.op \in {"search", "page"}
      /\ n.at = "checking" <=> n.op = "health"
  BY <1>1, <1>7 DEF FirstStep
<1>9. Errands(n, {}) /\ Turns(n, {})
  BY <1>2, <1>7, <1>8 DEF Errands, Turns
<1>10. Course(n)
  BY <1>1, <1>7, <1>8 DEF Course, Resolving, Finds
<1>11. InSearch(n) => Accounts(n, {}) /\ Owes(n, {})
  BY <1>2, <1>7, <1>8 DEF InSearch, Accounts, Owes, Asking, Wanted, MayAsk
<1> QED BY <1>6, <1>9, <1>10, <1>11 DEF Fits, n

\* A knowledge search that begins.
LEMMA KnowledgeFits ==
  ASSUME NEW explicit \in SUBSET Mailboxes, NEW inline \in SUBSET Mailboxes
  PROVE  Fits([NoCall EXCEPT !.op = "knowledge", !.at = "resolving", !.boxes = Mailboxes,
                 !.explicit = explicit, !.inline = inline, !.todo = SetToSeq(Scoped(explicit, inline))], {})
<1> DEFINE todo == SetToSeq(Scoped(explicit, inline))
           n == [NoCall EXCEPT !.op = "knowledge", !.at = "resolving", !.boxes = Mailboxes,
                   !.explicit = explicit, !.inline = inline, !.todo = todo]
<1>1. Scoped(explicit, inline) \subseteq Mailboxes
  BY FoldersAreListed DEF Scoped
<1>2. todo \in Seq(Mailboxes) /\ Different(todo) /\ Range(todo) = Scoped(explicit, inline)
  <2>1. IsFiniteSet(Scoped(explicit, inline))
    BY <1>1, ThingsAreFinite, FS_Subset
  <2>2. todo \in Seq(Scoped(explicit, inline)) /\ Different(todo) /\ Range(todo) = Scoped(explicit, inline)
    BY <2>1, ListsAll
  <2> QED BY <1>1, <2>2
<1>3. NoCall \in CallShape
  BY NoCallIsCall
<1> HIDE DEF todo
<1>4. n \in CallShape
  BY <1>2, <1>3 DEF CallShape, OpNames, Places
<1>5. /\ n.op = "knowledge" /\ n.boxes = Mailboxes /\ n.todo = todo
      /\ n.at = "resolving" /\ n.results = {} /\ n.failures = {} /\ n.owed = {}
      /\ n.explicit = explicit /\ n.inline = inline
  BY DEF NoCall
<1> HIDE DEF n
<1>6. Errands(n, {}) /\ Turns(n, {}) /\ Course(n)
  BY <1>2, <1>5 DEF Errands, Turns, Course, Resolving, Finds
<1>7. \A k \in Range(todo) : MayAsk(n, k)
  BY <1>1, <1>2, <1>5 DEF MayAsk, Scoped
<1>8. InSearch(n) => Accounts(n, {}) /\ Owes(n, {})
  BY <1>2, <1>5, <1>7 DEF Accounts, Owes, Asking, Wanted
<1> QED BY <1>4, <1>6, <1>8 DEF Fits, n, todo

\* The checks of all mailboxes.
LEMMA CheckingFits ==
  ASSUME NEW r, NEW ops, Fits(r, {}), r.at = "checking", \A o \in ops : o[3] = "health"
  PROVE  Fits([r EXCEPT !.at = "waiting", !.todo = <<>>], ops)
<1> DEFINE n == [r EXCEPT !.at = "waiting", !.todo = <<>>]
<1>1. r \in CallShape /\ r.op = "health"
  BY DEF Fits, Course
<1>2. n \in CallShape
  <2>1. "waiting" \in Places /\ <<>> \in Seq(Mailboxes)
    BY DEF Places
  <2> QED BY <1>1, <2>1 DEF CallShape
<1>3. n.at = "waiting" /\ n.op = "health" /\ n.todo = <<>>
  BY <1>1 DEF CallShape
<1> HIDE DEF n
<1>4. Errands(n, ops)
  BY <1>3, WhatsDiffer DEF Errands
<1>5. Course(n) /\ Turns(n, ops) /\ ~InSearch(n)
  BY <1>3, WhatsDiffer DEF Course, Turns, Different, InSearch, Finds, Resolving
<1> QED BY <1>2, <1>4, <1>5 DEF Fits, n

\* A mailbox whose folders are asked for.
LEMMA DiscoveringFits ==
  ASSUME NEW r, NEW ops, NEW c, Fits(r, ops), Harmless(ops), r.at = "resolving", r.todo # <<>>,
         Head(r.todo) \in Enabled \cap AllSelectable
  PROVE  Fits([r EXCEPT !.at = "discovering"], ops \cup {<<c, Head(r.todo), "discover">>})
<1> DEFINE n == [r EXCEPT !.at = "discovering"]
           all == ops \cup {<<c, Head(r.todo), "discover">>}
<1>0. r \in CallShape
  BY DEF Fits
<1>1. n \in CallShape
  <2>1. "discovering" \in Places
    BY DEF Places
  <2> QED BY <1>0, <2>1 DEF CallShape
<1>2. /\ n.at = "discovering" /\ n.todo = r.todo /\ n.failures = r.failures
      /\ n.op = r.op /\ n.boxes = r.boxes /\ n.folders = r.folders /\ n.results = r.results
      /\ n.owed = r.owed /\ n.explicit = r.explicit /\ n.inline = r.inline
  BY <1>0 DEF CallShape
<1>3. /\ \A o \in all : o \in ops \/ (o = <<c, Head(r.todo), "discover">> /\ o[3] = "discover")
      /\ ops \subseteq all
  OBVIOUS
<1> HIDE DEF n, all
<1>4. \A o \in ops : o[3] \in Folders /\ o[3] \notin {"read", "discover", "health"}
  BY WhatsDiffer DEF Harmless, Fits, Errands, Gone
<1>5. Errands(n, all)
  <2>1. \A o \in all :
          \/ o[3] \in Folders /\ o[3] \notin {"read", "discover", "health"}
          \/ o[3] = "discover" /\ o = <<c, Head(r.todo), "discover">>
    BY <1>3, <1>4
  <2>2. r.op # "page" \/ \A o \in ops : o[3] \notin Folders
    BY DEF Fits, Errands, Gone
  <2>3. \A o \in all : o[3] \in Folders => o \in ops
    BY <1>3, WhatsDiffer
  <2>4. \A o \in all : o[3] \in Folders => n.at \in Resolving /\ n.op # "page"
    BY <1>2, <2>2, <2>3 DEF Resolving
  <2>5. \A o \in all : o[3] # "read" /\ o[3] # "health"
    BY <2>1
  <2>6. \A o, p \in all : o[3] \in {"read", "discover"} /\ p[3] \in {"read", "discover"} => o = p
    BY <2>1
  <2> QED BY <1>2, <2>4, <2>5, <2>6 DEF Errands
<1>6. Course(n)
  BY <1>2 DEF Course, Finds, Fits, Resolving
<1>7. Turns(n, all)
  BY <1>2, <1>3, WhatsDiffer DEF Turns, Fits, Gone
<1>8. InSearch(n) => Accounts(n, all) /\ Owes(n, all)
  <2>1. InSearch(n) => Accounts(r, ops) /\ Owes(r, ops)
    BY <1>2 DEF InSearch, Finds, Fits
  <2>2. {p \in all : p[3] \in Folders} = {p \in ops : p[3] \in Folders}
    BY <1>3, WhatsDiffer
  <2>3. Asking(n, all) = Asking(r, ops) /\ Wanted(n) = Wanted(r)
    BY <1>2, <2>2 DEF Asking, Wanted
  <2>4. \A x, f : (MayAsk(n, x) <=> MayAsk(r, x)) /\ (MaySearch(n, x, f) <=> MaySearch(r, x, f))
    BY <1>2 DEF MayAsk, MaySearch
  <2>5. Accounts(r, ops) => Accounts(n, all)
    BY <1>2, <2>3, <2>4 DEF Accounts
  <2>6. Owes(r, ops) => Owes(n, all)
    <3>1. \A x, w : Covers(n, x, w) <=> Covers(r, x, w)
      BY <1>2 DEF Covers
    <3> QED BY <1>2, <2>3, <3>1 DEF Owes
  <2> QED BY <2>1, <2>5, <2>6
<1> QED BY <1>1, <1>5, <1>6, <1>7, <1>8 DEF Fits, n, all

\* A message, a page or a list that is read.
LEMMA ReadingFits ==
  ASSUME NEW r, NEW c, NEW m, Fits(r, {}), r.op \in {"page", "batch", "thread", "messages"},
         NEW reads \in 1..MaxReads
  PROVE  Fits([r EXCEPT !.at = "reading", !.reads = reads], {<<c, m, "read">>})
<1> DEFINE n == [r EXCEPT !.at = "reading", !.reads = reads]
           ops == {<<c, m, "read">>}
<1>0. r \in CallShape /\ Turns(r, {}) /\ reads > 0 /\ reads \in 0..MaxReads
  <2>1. MaxReads \in Nat
    BY BoundIsNatural
  <2>2. reads > 0 /\ reads \in 0..MaxReads
    BY <2>1
  <2> QED BY <2>2 DEF Fits
<1>1. n \in CallShape
  <2>1. "reading" \in Places
    BY DEF Places
  <2> QED BY <1>0, <2>1 DEF CallShape
<1>2. n.at = "reading" /\ n.op = r.op /\ n.todo = r.todo /\ n.reads = reads
  BY <1>0 DEF CallShape
<1>3. \A o \in ops : o[3] = "read" /\ o = <<c, m, "read">>
  <2>1. <<c, m, "read">>[3] = "read"
    OBVIOUS
  <2> QED BY <2>1
<1> HIDE DEF n, ops
<1>4. Errands(n, ops)
  BY <1>2, <1>3, WhatsDiffer DEF Errands
<1>5. Course(n)
  BY <1>0, <1>2 DEF Course, Resolving
<1>6. Turns(n, ops) /\ ~InSearch(n)
  BY <1>0, <1>2, <1>3, WhatsDiffer DEF Turns, InSearch, Finds, Gone
<1> QED BY <1>1, <1>4, <1>5, <1>6 DEF Fits, n, ops

\* What follows a read.
LEMMA AfterReadFits ==
  ASSUME NEW r \in CallShape, Different(r.todo), NEW ok \in BOOLEAN, NEW identifiers \in BOOLEAN,
         r.op \in {"page", "batch", "thread", "messages"},
         r.op \in {"batch", "messages"} => r.reads > 0
  PROVE  Fits(AfterRead(r, ok, identifiers), {})
<1>1. CASE r.op \in {"batch", "messages"}
  <2> DEFINE n == [r EXCEPT !.at = "next", !.reads = r.reads - 1]
  <2>1. AfterRead(r, ok, identifiers) = n
    BY <1>1 DEF AfterRead
  <2>2. n \in CallShape
    <3>1. r.reads \in 0..MaxReads /\ r.reads > 0 /\ MaxReads \in Nat
      BY <1>1, BoundIsNatural DEF CallShape
    <3>2. r.reads - 1 \in 0..MaxReads
      BY <3>1
    <3>3. "next" \in Places
      BY DEF Places
    <3> QED BY <3>2, <3>3 DEF CallShape
  <2>3. n.at = "next" /\ n.op = r.op /\ n.todo = r.todo
    BY DEF CallShape
  <2> HIDE DEF n
  <2>4. Errands(n, {}) /\ Course(n) /\ Turns(n, {}) /\ ~InSearch(n)
    BY <1>1, <2>3 DEF Errands, Course, Turns, InSearch, Finds, Resolving
  <2> QED BY <2>1, <2>2, <2>4 DEF Fits
<1>2. CASE r.op = "thread" /\ ok /\ identifiers
  <2> DEFINE n == [r EXCEPT !.at = "resolving"]
  <2>1. AfterRead(r, ok, identifiers) = n
    BY <1>2 DEF AfterRead
  <2>2. n \in CallShape
    <3>1. "resolving" \in Places
      BY DEF Places
    <3> QED BY <3>1 DEF CallShape
  <2>3. n.at = "resolving" /\ n.op = r.op /\ n.todo = r.todo
    BY DEF CallShape
  <2> HIDE DEF n
  <2>4. Errands(n, {}) /\ Course(n) /\ Turns(n, {}) /\ ~InSearch(n)
    BY <1>2, <2>3 DEF Errands, Course, Turns, InSearch, Finds, Resolving
  <2> QED BY <2>1, <2>2, <2>4 DEF Fits
<1>3. CASE r.op \notin {"batch", "messages"} /\ ~(r.op = "thread" /\ ok /\ identifiers)
  <2> DEFINE code == IF ok THEN "ok" ELSE "IMAP_ERROR"
  <2>1. AfterRead(r, ok, identifiers) = Answered(r, code)
    BY <1>3 DEF AfterRead
  <2>2. code \in Codes /\ ~Finds(r) /\ Harmless({})
    BY <1>3 DEF Codes, Finds, Harmless
  <2> HIDE DEF code
  <2> QED BY <2>1, <2>2, AnsweredFits
<1> QED BY <1>1, <1>2, <1>3

\* A call whose tasks are over.
LEMMA SettledFits ==
  ASSUME NEW r, Fits(r, {}), r.at \in {"resolving", "waiting"}, r.at = "resolving" => r.todo = <<>>,
         NEW n \in 0..MaxReads
  PROVE  Fits(IF r.op = "thread" THEN [r EXCEPT !.op = "messages", !.at = "next", !.reads = n]
              ELSE Answered(r, "ok"), {})
<1>0. r \in CallShape /\ Course(r) /\ Turns(r, {})
  BY DEF Fits
<1>1. CASE r.op = "thread"
  <2> DEFINE t == [r EXCEPT !.op = "messages", !.at = "next", !.reads = n]
  <2>1. t \in CallShape
    BY <1>0 DEF CallShape, OpNames, Places
  <2>2. t.at = "next" /\ t.op = "messages" /\ t.todo = r.todo
    BY <1>0 DEF CallShape
  <2> HIDE DEF t
  <2>3. Errands(t, {}) /\ Course(t) /\ Turns(t, {}) /\ ~InSearch(t)
    BY <1>0, <2>2 DEF Errands, Course, Turns, InSearch, Finds, Resolving
  <2> QED BY <1>1, <2>1, <2>3 DEF Fits, t
<1>2. CASE r.op # "thread" /\ ~Finds(r)
  <2>1. "ok" \in Codes /\ Harmless({})
    BY DEF Codes, Harmless
  <2> QED BY <1>0, <1>2, <2>1, AnsweredFits
<1>3. CASE Finds(r)
  <2> DEFINE t == [r EXCEPT !.at = "answered", !.code = "ok", !.list = {}]
  <2>1. Answered(r, "ok") = t /\ r.op # "thread"
    BY <1>3 DEF Answered, Finds
  <2>2. t \in CallShape
    <3>1. "answered" \in Places /\ "ok" \in Codes
      BY DEF Places, Codes
    <3> QED BY <1>0, <3>1 DEF CallShape
  <2>3. /\ t.at = "answered" /\ t.todo = r.todo /\ t.failures = r.failures
        /\ t.op = r.op /\ t.boxes = r.boxes /\ t.folders = r.folders /\ t.results = r.results
        /\ t.owed = r.owed /\ t.explicit = r.explicit /\ t.inline = r.inline
    BY <1>0 DEF CallShape
  <2> HIDE DEF t
  <2>4. r.at = "resolving" /\ r.todo = <<>>
    BY <1>0, <1>3 DEF Course, Finds
  <2>5. Accounts(r, {}) /\ Owes(r, {})
    BY <1>3, <2>4 DEF Fits, InSearch
  <2>6. Asking(t, {}) = Asking(r, {}) /\ Wanted(t) = Wanted(r)
    BY <2>3 DEF Asking, Wanted
  <2>7. \A x, f : (MayAsk(t, x) <=> MayAsk(r, x)) /\ (MaySearch(t, x, f) <=> MaySearch(r, x, f))
    BY <2>3 DEF MayAsk, MaySearch
  <2>8. Accounts(t, {})
    BY <2>3, <2>4, <2>5, <2>6, <2>7 DEF Accounts
  <2>9. Owes(t, {})
    <3>1. \A x, w : Covers(t, x, w) <=> Covers(r, x, w)
      BY <2>3 DEF Covers
    <3> QED BY <2>3, <2>5, <2>6, <3>1 DEF Owes
  <2>10. Errands(t, {}) /\ Course(t) /\ Turns(t, {})
    BY <1>0, <2>3 DEF Errands, Course, Turns, Resolving, Gone
  <2> QED BY <2>1, <2>2, <2>8, <2>9, <2>10 DEF Fits
<1> QED BY <1>1, <1>2, <1>3

----------------------------------------------------------------------------
\* Steps

\* A step of one call.
Becomes(c, n) == DOMAIN call' = Calls /\ call'[c] = n /\ \A d \in Calls \ {c} : call'[d] = call[d]

\* The other calls keep what they had.
LEMMA OneCallMoves ==
  ASSUME Inv, NEW c \in Calls, NEW n, Becomes(c, n), Standing', Around',
         \A o : o[1] # c => (o \in Live' <=> o \in Live), Fits(n, Of(c)')
  PROVE  Inv'
<1>1. ASSUME NEW d \in Calls \ {c} PROVE Of(d)' = Of(d)
  BY <1>1 DEF Of
<1>2. \A d \in Calls : Fits(call'[d], Of(d)')
  BY <1>1 DEF Becomes, Inv
<1> QED BY <1>2 DEF Inv, Becomes

\* What is known of a call.
LEMMA OfCall ==
  ASSUME Inv, NEW c \in Calls
  PROVE  /\ Fits(call[c], Of(c)) /\ call[c] \in CallShape /\ DOMAIN call = Calls
         /\ Of(c) \subseteq Operations /\ Of(c) = {o \in Live : o[1] = c} /\ Standing
         /\ Of(c)' = {o \in Live' : o[1] = c} /\ (~Busy(c) <=> Of(c) = {})
<1>1. Live \subseteq Operations
  BY WhereTheyStand DEF Inv
<1> QED BY <1>1 DEF Inv, Fits, Of, Busy

\* Steps leave the permits sound.
Sound == Inv' /\ (Permits!Next \/ UNCHANGED Permits!vars)

\* A call that goes on while no operation begins or ends.
LEMMA QuietStep ==
  ASSUME Inv, NEW c \in Calls, NEW n, Becomes(c, n), Fits(n, Of(c)),
         NoPermits, UNCHANGED cache
  PROVE  Sound
<1>1. Standing' /\ Live' = Live /\ UNCHANGED Permits!vars
  BY NothingMoves DEF Inv, NoPermits
<1>2. Around' /\ Of(c)' = Of(c)
  BY <1>1 DEF Inv, Around, Of
<1> QED BY <1>1, <1>2, OneCallMoves DEF Sound

\* An operation of a call that begins.
LEMMA OperationBegins ==
  ASSUME Inv, NEW c \in Calls, NEW m \in Mailboxes, NEW what \in {"discover", "read"}, NEW n,
         Becomes(c, n), <<c, m, what>> \notin Live, Fits(n, Of(c) \cup {<<c, m, what>>}),
         EnterBox(<<c, m, what>>), UNCHANGED cache
  PROVE  Sound
<1> DEFINE o == <<c, m, what>>
<1>1. o \in Operations /\ ~Fans(o) /\ o[1] = c
  BY DEF Operations, Whats, Fans
<1> HIDE DEF o
<1>2. Standing' /\ Live' = Live \cup {o} /\ Permits!Next
  BY <1>1, BoxGrows DEF Inv, o
<1>3. Of(c)' = Of(c) \cup {o}
  BY <1>1, <1>2 DEF Of
<1>4. Around'
  BY DEF Inv, Around
<1>5. \A x : x[1] # c => (x \in Live' <=> x \in Live)
  BY <1>1, <1>2
<1> QED BY <1>2, <1>3, <1>4, <1>5, OneCallMoves DEF Sound, o

\* An operation of a call that ends.
LEMMA OperationEnds ==
  ASSUME Inv, NEW o \in admitted \cup open, LeaveAll(o), NEW n, Becomes(o[1], n),
         Fits(n, Of(o[1]) \ {o}), Around'
  PROVE  Sound
<1>1. o \in Operations /\ o[1] \in Calls
  BY DEF Inv, Standing, Operations
<1>2. Standing' /\ Live' = Live \ {o} /\ Permits!Next
  BY PermitsReturn DEF Inv
<1>3. Of(o[1])' = Of(o[1]) \ {o}
  BY <1>2 DEF Of
<1>4. \A x : x[1] # o[1] => (x \in Live' <=> x \in Live)
  BY <1>2
<1> QED BY <1>1, <1>2, <1>3, <1>4, OneCallMoves DEF Sound

\* As many values as arguments at most.
LEMMA FiniteImage ==
  ASSUME NEW A, IsFiniteSet(A), NEW f, DOMAIN f = A, NEW S, S = {f[x] : x \in A}
  PROVE  IsFiniteSet(S)
<1> DEFINE g == [x \in A |-> f[x]]
<1>1. g \in Surjection(A, S)
  BY DEF Surjection
<1> QED BY <1>1, FS_Surjection

\* The operations of a call that join the fan-out.
LEMMA OperationsJoin ==
  ASSUME Inv, NEW c \in Calls, NEW S \in SUBSET Operations, IsFiniteSet(S),
         \A o \in S : o[1] = c /\ Fans(o) /\ o \notin Live,
         NEW n, Becomes(c, n), Fits(n, Of(c) \cup S),
         EnterFanout(SetToSeq(S)), UNCHANGED cache
  PROVE  Sound
<1> DEFINE users == SetToSeq(S)
<1>1. users \in Seq(S) /\ Different(users) /\ Range(users) = S
  BY ListsAll
<1> HIDE DEF users
<1>2. users \in Seq(Operations)
  BY <1>1
<1>3. Standing' /\ Live' = Live \cup S /\ Permits!Next
  BY <1>1, <1>2, FanoutGrows DEF Inv, users
<1>4. Of(c)' = Of(c) \cup S
  BY <1>3 DEF Of
<1>5. Around' /\ \A x : x[1] # c => (x \in Live' <=> x \in Live)
  BY <1>3 DEF Inv, Around
<1> QED BY <1>3, <1>4, <1>5, OneCallMoves DEF Sound

\* What the steps of a resolution make of their call.
LEMMA ListsBecomes ==
  ASSUME Inv, NEW c \in Calls, NEW list, ListsFrom(c, list)
  PROVE  Becomes(c, Listed(call[c], list))
<1>1. DOMAIN call = Calls /\ call[c] \in CallShape
  BY OfCall
<1> QED BY <1>1 DEF ListsFrom, Becomes, Listed, CallShape, Current

LEMMA FailsBecomes ==
  ASSUME Inv, NEW c \in Calls, NEW code, ResolveFails(c, code)
  PROVE  Becomes(c, Failing(call[c], code))
<1>1. DOMAIN call = Calls /\ call[c] \in CallShape
  BY OfCall
<1> QED BY <1>1 DEF ResolveFails, Becomes

\* mailboxHealth
LEMMA CheckIsSound ==
  ASSUME Inv, NEW c \in Calls, Check(c)
  PROVE  Sound
<1> DEFINE r == call[c]
           M == IF r.boxes = {} THEN Enabled ELSE r.boxes
           S == {<<c, m, "health">> : m \in M}
           n == [r EXCEPT !.at = "waiting", !.todo = <<>>]
<1>1. r.at = "checking" /\ UNCHANGED cache
  BY DEF Check
<1>2. Of(c) = {} /\ Fits(r, {}) /\ r \in CallShape /\ DOMAIN call = Calls
  <2>1. Fits(r, Of(c)) /\ Of(c) \subseteq Operations /\ r \in CallShape /\ DOMAIN call = Calls
    BY OfCall
  <2>2. Of(c) = {}
    BY <1>1, <2>1, OperationsFit
  <2> QED BY <2>1, <2>2
<1>3. CASE NoPermits /\ call' = [call EXCEPT ![c] = Answered(@, "MAILBOX_DISABLED")]
  <2>1. Becomes(c, Answered(r, "MAILBOX_DISABLED"))
    BY <1>2, <1>3 DEF Becomes
  <2>2. "MAILBOX_DISABLED" \in Codes \ {"ok"} /\ Harmless({})
    BY DEF Codes, Harmless
  <2>3. Fits(Answered(r, "MAILBOX_DISABLED"), Of(c))
    BY <1>2, <2>2, AnsweredFits
  <2> HIDE DEF r
  <2> QED BY <1>1, <1>3, <2>1, <2>3, QuietStep
<1>8. M \subseteq Mailboxes
  BY <1>2, FoldersAreListed DEF CallShape
<1> HIDE DEF M
<1>4. S \subseteq Operations /\ \A o \in S : o[1] = c /\ o[3] = "health"
  BY <1>8 DEF Operations, Whats
<1>5. IsFiniteSet(S)
  <2> DEFINE f == [m \in M |-> <<c, m, "health">>]
  <2>1. IsFiniteSet(M)
    BY <1>8, ThingsAreFinite, FS_Subset
  <2>2. DOMAIN f = M /\ S = {f[m] : m \in M}
    OBVIOUS
  <2> HIDE DEF S, f
  <2> QED BY <2>1, <2>2, FiniteImage
<1> HIDE DEF S
<1>6. Fits(n, Of(c) \cup S)
  <2>1. Fits(n, S)
    BY <1>1, <1>2, <1>4, CheckingFits
  <2>2. Of(c) \cup S = S
    BY <1>2
  <2> QED BY <2>1, <2>2
<1>7. \A o \in S : o[1] = c /\ Fans(o) /\ o \notin Live
  BY <1>2, <1>4, OfCall DEF Fans
<1>9. CASE /\ EnterFanout(SetToSeq(S))
           /\ call' = [call EXCEPT ![c].at = "waiting", ![c].todo = <<>>]
  <2>1. Becomes(c, n)
    BY <1>2, <1>9 DEF Becomes, CallShape
  <2> HIDE DEF n, r
  <2> QED BY <1>1, <1>4, <1>5, <1>6, <1>7, <1>9, <2>1, OperationsJoin
<1>10. \/ NoPermits /\ call' = [call EXCEPT ![c] = Answered(@, "MAILBOX_DISABLED")]
       \/ /\ EnterFanout(SetToSeq(S))
          /\ call' = [call EXCEPT ![c].at = "waiting", ![c].todo = <<>>]
  BY DEF Check, S, M
<1> QED BY <1>3, <1>9, <1>10

\* #selectableFolders, up to its await
LEMMA ResolveIsSound ==
  ASSUME Inv, NEW c \in Calls, Resolve(c)
  PROVE  Sound
<1> DEFINE r == call[c]
           m == Head(r.todo)
<1>1. r.at = "resolving" /\ r.todo # <<>> /\ UNCHANGED cache
  BY DEF Resolve
<1>2. /\ Fits(r, Of(c)) /\ r \in CallShape /\ DOMAIN call = Calls /\ Of(c) \subseteq Operations
      /\ Harmless(Of(c)) /\ Of(c) = {o \in Live : o[1] = c}
  BY <1>1, OfCall, OperationsFit
<1>3. m \in Mailboxes
  <2>1. r.todo \in Seq(Mailboxes) /\ Different(r.todo)
    BY <1>2 DEF CallShape, Fits, Turns
  <2> QED BY <1>1, <2>1, RestOfList
<1>4. cache[m].list \subseteq Folders /\ (cache[m].fresh => cache[m].list # {})
  BY <1>3 DEF Inv, Around
<1>5. CASE /\ m \notin Enabled /\ NoPermits
           /\ call' = [call EXCEPT ![c] = Answered(@, "MAILBOX_DISABLED")]
  <2>1. Becomes(c, Answered(r, "MAILBOX_DISABLED"))
    BY <1>2, <1>5 DEF Becomes
  <2>2. "MAILBOX_DISABLED" \in Codes
    BY DEF Codes
  <2>3. Fits(Answered(r, "MAILBOX_DISABLED"), Of(c))
    BY <1>2, <2>2, AnsweredFits
  <2> HIDE DEF r
  <2> QED BY <1>1, <1>5, <2>1, <2>3, QuietStep
<1>6. ASSUME NEW list, list \subseteq Folders, list # {}, ListsFrom(c, list), NoPermits,
             m \in Enabled, m \notin AllSelectable => list = Allowed
      PROVE  Sound
  <2>1. Becomes(c, Listed(r, list))
    BY <1>6, ListsBecomes
  <2>2. Fits(Listed(r, list), Of(c))
    BY <1>1, <1>2, <1>6, ListedFits
  <2> HIDE DEF r, m
  <2> QED BY <1>1, <1>6, <2>1, <2>2, QuietStep
<1>7. CASE m \in Enabled /\ ResolveFails(c, "SECRET_UNAVAILABLE") /\ NoPermits
  <2>1. Becomes(c, Failing(r, "SECRET_UNAVAILABLE"))
    BY <1>7, FailsBecomes
  <2>2. "SECRET_UNAVAILABLE" \in Codes \ {"ok"} /\ r.at \in Resolving
    BY <1>1 DEF Codes, Resolving
  <2>3. Fits(Failing(r, "SECRET_UNAVAILABLE"), Of(c))
    BY <1>1, <1>2, <1>7, <2>2, FailingFits
  <2> HIDE DEF r, m
  <2> QED BY <1>1, <1>7, <2>1, <2>3, QuietStep
<1>8. CASE /\ m \in Enabled \cap AllSelectable /\ EnterBox(<<c, m, "discover">>)
           /\ call' = [call EXCEPT ![c].at = "discovering"]
  <2> DEFINE n == [r EXCEPT !.at = "discovering"]
  <2>1. Becomes(c, n)
    BY <1>2, <1>8 DEF Becomes
  <2>2. Fits(n, Of(c) \cup {<<c, m, "discover">>})
    BY <1>1, <1>2, <1>8, DiscoveringFits
  <2>3. <<c, m, "discover">> \notin Live
    <3>1. <<c, m, "discover">>[1] = c /\ <<c, m, "discover">>[3] = "discover"
      OBVIOUS
    <3> QED BY <1>2, <3>1, WhatsDiffer DEF Harmless
  <2> HIDE DEF r, m, n
  <2> QED BY <1>1, <1>3, <1>8, <2>1, <2>2, <2>3, OperationBegins
<1> HIDE DEF r, m
<1>9. \/ /\ m \notin Enabled /\ NoPermits
         /\ call' = [call EXCEPT ![c] = Answered(@, "MAILBOX_DISABLED")]
      \/ m \in Enabled /\ m \notin AllSelectable /\ ListsFrom(c, Allowed) /\ NoPermits
      \/ /\ m \in Enabled /\ m \in AllSelectable /\ cache[m].fresh
         /\ ListsFrom(c, cache[m].list) /\ NoPermits
      \/ m \in Enabled /\ ResolveFails(c, "SECRET_UNAVAILABLE") /\ NoPermits
      \/ /\ m \in Enabled \cap AllSelectable /\ EnterBox(<<c, m, "discover">>)
         /\ call' = [call EXCEPT ![c].at = "discovering"]
  BY DEF Resolve, Current, r, m
<1> QED BY <1>4, <1>5, <1>6, <1>7, <1>8, <1>9, FoldersAreListed

\* The folders of a mailbox, or its page
LEMMA LaunchIsSound ==
  ASSUME Inv, NEW c \in Calls, Launch(c)
  PROVE  Sound
<1> DEFINE r == call[c]
           m == Head(r.todo)
           latest == Latest(c)
           fs == FoldersOf(m, r.folders, latest)
<1>1. r.at = "listed" /\ UNCHANGED cache
  BY DEF Launch
<1>2. /\ Fits(r, Of(c)) /\ r \in CallShape /\ DOMAIN call = Calls /\ Of(c) \subseteq Operations
      /\ Harmless(Of(c)) /\ Of(c) = {o \in Live : o[1] = c}
  BY <1>1, OfCall, OperationsFit
<1>3. r.todo # <<>> /\ m \in Enabled /\ m \in Mailboxes /\ m \in Range(r.todo)
  <2>1. r.todo \in Seq(Mailboxes) /\ Different(r.todo) /\ r.todo # <<>> /\ m \in Enabled
    BY <1>1, <1>2 DEF CallShape, Fits, Turns
  <2> QED BY <2>1, RestOfList
<1>4. CASE ResolveFails(c, "FOLDER_NOT_ALLOWED") /\ NoPermits
  <2>1. Becomes(c, Failing(r, "FOLDER_NOT_ALLOWED"))
    BY <1>4, FailsBecomes
  <2>2. "FOLDER_NOT_ALLOWED" \in Codes \ {"ok"} /\ r.at \in Resolving
    BY <1>1 DEF Codes, Resolving
  <2>3. Fits(Failing(r, "FOLDER_NOT_ALLOWED"), Of(c))
    BY <1>2, <1>3, <2>2, FailingFits
  <2> HIDE DEF r, m
  <2> QED BY <1>1, <1>4, <2>1, <2>3, QuietStep
<1>5. CASE /\ r.op = "page" /\ EnterBox(<<c, m, "read">>)
           /\ call' = [call EXCEPT ![c].at = "reading", ![c].reads = 1]
  <2> DEFINE n == [r EXCEPT !.at = "reading", !.reads = 1]
             o == <<c, m, "read">>
  <2>1. Becomes(c, n)
    BY <1>2, <1>5 DEF Becomes
  <2>2. Of(c) = {}
    BY <1>1, <1>2, <1>5, OperationsFit
  <2>3. 1 \in 1..MaxReads
    BY BoundIsNatural
  <2>4. Fits(n, {o})
    BY <1>2, <1>5, <2>2, <2>3, ReadingFits
  <2>5. Of(c) \cup {o} = {o} /\ o[1] = c
    BY <2>2
  <2>6. o \notin Live
    BY <1>2, <2>2, <2>5
  <2> HIDE DEF r, m, n
  <2> QED BY <1>1, <1>3, <1>5, <2>1, <2>4, <2>5, <2>6, OperationBegins
<1>8. latest \subseteq Folders /\ latest # {}
  <2>1. cache[m].list \subseteq Folders
    BY <1>3 DEF Inv, Around
  <2>2. r.list \subseteq Folders /\ r.list # {}
    BY <1>1, <1>2 DEF CallShape, Fits, Turns
  <2> QED BY <2>1, <2>2 DEF Latest, Current
<1> HIDE DEF latest
<1>6. CASE /\ fs \subseteq r.list /\ r.op # "page"
           /\ call' = [call EXCEPT ![c].at = "resolving", ![c].todo = Tail(@), ![c].list = {},
                                   ![c].owed = @ \cup Owed(m, r.folders, latest)]
           /\ EnterFanout(SetToSeq({<<c, m, f>> : f \in fs}))
  <2> DEFINE S == OnFolders(c, m, fs)
             n == Launched(r, latest)
  <2>1. Becomes(c, n)
    BY <1>2, <1>6 DEF Becomes, Launched, CallShape
  <2>2. fs \subseteq Folders
    BY <1>2, <1>6 DEF CallShape
  <2>3. Fits(n, Of(c) \cup S)
    <3>1. Fits(r, Of(c)) /\ r.at = "listed" /\ r.op # "page" /\ fs \subseteq r.list
      BY <1>1, <1>2, <1>6
    <3> HIDE DEF r
    <3> QED BY <1>8, <3>1, LaunchedFits
  <2> HIDE DEF fs, m, r
  <2>4. \A o \in S : o[1] = c /\ o[2] = m /\ o[3] \in Folders
    BY <2>2 DEF OnFolders
  <2>5. S \subseteq Operations
    BY <1>3, <2>2 DEF Operations, Whats, OnFolders
  <2>6. IsFiniteSet(S)
    <3> DEFINE g == [f \in fs |-> <<c, m, f>>]
    <3>1. IsFiniteSet(fs)
      BY <2>2, ThingsAreFinite, FS_Subset
    <3>2. DOMAIN g = fs /\ S = {g[f] : f \in fs}
      BY DEF OnFolders
    <3> HIDE DEF S, g
    <3> QED BY <3>1, <3>2, FiniteImage
  <2>7. \A o \in Of(c) : o[3] \in Folders => o[2] # m
    BY <1>1, <1>2, <1>3 DEF Fits, Turns, Gone
  <2>8. \A o \in S : o[1] = c /\ Fans(o) /\ o \notin Live
    BY <1>2, <2>4, <2>7, WhatsDiffer DEF Fans
  <2> HIDE DEF n, S
  <2>9. EnterFanout(SetToSeq(S))
    BY <1>6 DEF S, OnFolders
  <2> QED BY <1>1, <2>1, <2>3, <2>5, <2>6, <2>8, <2>9, OperationsJoin
<1> HIDE DEF r, m, fs
<1>7. \/ ResolveFails(c, "FOLDER_NOT_ALLOWED") /\ NoPermits
      \/ /\ r.op = "page" /\ EnterBox(<<c, m, "read">>)
         /\ call' = [call EXCEPT ![c].at = "reading", ![c].reads = 1]
      \/ /\ fs \subseteq r.list /\ r.op # "page"
         /\ call' = [call EXCEPT ![c].at = "resolving", ![c].todo = Tail(@), ![c].list = {},
                                 ![c].owed = @ \cup Owed(m, r.folders, latest)]
         /\ EnterFanout(SetToSeq({<<c, m, f>> : f \in fs}))
  BY DEF Launch, Current, r, m, fs, latest
<1> QED BY <1>4, <1>5, <1>6, <1>7

\* The next message, of a batch or a thread
LEMMA NextReadIsSound ==
  ASSUME Inv, NEW c \in Calls, NEW m \in Mailboxes, NextRead(c, m)
  PROVE  Sound
<1> DEFINE r == call[c]
<1>1. r.at = "next" /\ UNCHANGED cache
  BY DEF NextRead
<1>2. /\ Fits(r, Of(c)) /\ r \in CallShape /\ DOMAIN call = Calls /\ Of(c) = {}
      /\ Of(c) = {o \in Live : o[1] = c}
  BY <1>1, OfCall, OperationsFit
<1>3. r.op \in {"batch", "thread", "messages"} /\ Different(r.todo) /\ Fits(r, {})
  BY <1>1, <1>2 DEF Fits, Course, Turns
<1>4. CASE NoPermits /\ call' = [call EXCEPT ![c] = Answered(@, "ok")]
  <2>1. Becomes(c, Answered(r, "ok"))
    BY <1>2, <1>4 DEF Becomes
  <2>2. "ok" \in Codes /\ ~Finds(r) /\ Harmless({})
    BY <1>3 DEF Codes, Finds, Harmless
  <2>3. Fits(Answered(r, "ok"), Of(c))
    BY <1>2, <2>2, AnsweredFits
  <2> HIDE DEF r
  <2> QED BY <1>1, <1>4, <2>1, <2>3, QuietStep
<1>5. CASE r.reads > 0 /\ NoPermits /\ call' = [call EXCEPT ![c] = AfterRead(@, FALSE, FALSE)]
  <2>1. Becomes(c, AfterRead(r, FALSE, FALSE))
    BY <1>2, <1>5 DEF Becomes
  <2>2. Fits(AfterRead(r, FALSE, FALSE), {})
    BY <1>2, <1>3, <1>5, AfterReadFits
  <2> HIDE DEF r
  <2> QED BY <1>1, <1>2, <1>5, <2>1, <2>2, QuietStep
<1>6. CASE /\ r.reads > 0 /\ call' = [call EXCEPT ![c].at = "reading"]
           /\ EnterBox(<<c, m, "read">>)
  <2> DEFINE n == [r EXCEPT !.at = "reading", !.reads = r.reads]
             o == <<c, m, "read">>
  <2>1. Becomes(c, n)
    <3>1. n = [r EXCEPT !.at = "reading"]
      BY <1>2 DEF CallShape
    <3> HIDE DEF n
    <3> QED BY <1>2, <1>6, <3>1 DEF Becomes
  <2>2. r.reads \in 1..MaxReads
    BY <1>2, <1>6, BoundIsNatural DEF CallShape
  <2>3. Fits(n, {o})
    BY <1>3, <2>2, ReadingFits
  <2>4. Of(c) \cup {o} = {o} /\ o[1] = c /\ o \notin Live
    BY <1>2
  <2> HIDE DEF r, n
  <2> QED BY <1>1, <1>6, <2>1, <2>3, <2>4, OperationBegins
<1>7. \/ NoPermits /\ call' = [call EXCEPT ![c] = Answered(@, "ok")]
      \/ r.reads > 0 /\ NoPermits /\ call' = [call EXCEPT ![c] = AfterRead(@, FALSE, FALSE)]
      \/ /\ r.reads > 0 /\ call' = [call EXCEPT ![c].at = "reading"]
         /\ EnterBox(<<c, m, "read">>)
  BY DEF NextRead
<1> QED BY <1>4, <1>5, <1>6, <1>7

\* Promise.all of a search or a check
LEMMA AnswerIsSound ==
  ASSUME Inv, NEW c \in Calls, NEW n \in 0..MaxReads, Answer(c, n)
  PROVE  Sound
<1> DEFINE r == call[c]
           new == IF r.op = "thread" THEN [r EXCEPT !.op = "messages", !.at = "next", !.reads = n]
                  ELSE Answered(r, "ok")
<1>1. /\ r.at \in {"resolving", "waiting"} /\ (r.at = "resolving" => r.todo = <<>>)
      /\ NoPermits /\ UNCHANGED cache /\ ~Busy(c)
  BY DEF Answer, Settled
<1>2. Fits(r, {}) /\ Of(c) = {} /\ DOMAIN call = Calls
  <2>1. Fits(r, Of(c)) /\ Of(c) = {} /\ DOMAIN call = Calls
    BY <1>1, OfCall
  <2> QED BY <2>1
<1>3. Becomes(c, new)
  BY <1>2 DEF Answer, Becomes
<1>4. Fits(new, {})
  BY <1>1, <1>2, SettledFits
<1> HIDE DEF r, new
<1> QED BY <1>1, <1>2, <1>3, <1>4, QuietStep

\* An operation that is over: what is known of it, and what its timeout leaves.
LEMMA AtItsEnd ==
  ASSUME Inv, NEW o \in admitted \cup open
  PROVE  o \in Operations /\ o[1] \in Calls /\ o[2] \in Mailboxes /\ o \in Of(o[1])
<1>1. o \in Operations /\ o \in Live
  BY DEF Inv, Standing, Live
<1> QED BY <1>1 DEF Operations, Of

\* An operation on a folder that is over tells its call.
LEMMA TellingIsSound ==
  ASSUME Inv, NEW o \in admitted \cup open, LeaveAll(o), o[3] \in Folders, NEW how,
         call' = [call EXCEPT ![o[1]] = Told(@, o, how)], Around'
  PROVE  Sound
<1> DEFINE c == o[1]
           n == Told(call[c], o, how)
<1>1. c \in Calls /\ o \in Of(c)
  BY AtItsEnd
<1>2. Fits(call[c], Of(c)) /\ Of(c) \subseteq Operations /\ DOMAIN call = Calls
  BY <1>1, OfCall
<1>3. Becomes(c, n)
  BY <1>1, <1>2 DEF Becomes
<1>4. Fits(n, Of(c) \ {o})
  BY <1>1, <1>2, ToldFits
<1> HIDE DEF n
<1> QED BY <1>3, <1>4, OperationEnds

\* adapters.create, which may fail
LEMMA CreateIsSound ==
  ASSUME Inv, NEW o, NEW works \in BOOLEAN, Create(o, works)
  PROVE  Sound
<1>1. o \in admitted /\ UNCHANGED cache /\ o \in Operations /\ Fans(o)
  BY DEF Create, Inv, Standing
<1>2. Around'
  BY <1>1 DEF Inv, Around
<1>3. CASE works
  <2>1. EnterBox(o) /\ UNCHANGED call
    BY <1>3 DEF Create
  <2>2. Standing' /\ Live' = Live \cup {o} /\ Permits!Next
    BY <1>1, <2>1, BoxGrows DEF Inv
  <2>3. Live' = Live
    BY <1>1, <2>2 DEF Live
  <2>4. \A c \in Calls : Of(c)' = Of(c)
    BY <2>3 DEF Of
  <2> QED BY <1>2, <2>1, <2>2, <2>4 DEF Inv, Sound
<1>4. CASE ~works
  <2>1. LeaveAll(o) /\ o[3] # "health" /\ call' = [call EXCEPT ![o[1]] = Told(@, o, "failed")]
    BY <1>4 DEF Create
  <2>2. o[3] \in Folders
    BY <1>1, <2>1 DEF Operations, Whats, Fans
  <2> QED BY <1>1, <1>2, <2>1, <2>2, TellingIsSound
<1> QED BY <1>3, <1>4

\* A search that is over
LEMMA SearchIsSound ==
  ASSUME Inv, NEW o, NEW how, Search(o, how)
  PROVE  Sound
<1>1. /\ o[3] \in Folders /\ Ends(o) /\ UNCHANGED cache
      /\ call' = [call EXCEPT ![o[1]] = Told(@, o, how)]
  BY DEF Search
<1>2. o \in admitted \cup open /\ LeaveAll(o) /\ Around'
  BY <1>1 DEF Ends, Inv, Around
<1> QED BY <1>1, <1>2, TellingIsSound

\* The folders of a mailbox, or that they could not be listed
LEMMA DiscoverIsSound ==
  ASSUME Inv, NEW o, NEW how, NEW list \in Listings, Discover(o, how, list)
  PROVE  Sound
<1> DEFINE c == o[1]
           r == call[c]
           left == Of(c) \ {o}
<1>1. o[3] = "discover" /\ Ends(o)
  BY DEF Discover
<1>2. o \in admitted \cup open /\ LeaveAll(o)
  BY <1>1 DEF Ends
<1>3. c \in Calls /\ o[2] \in Mailboxes /\ o \in Of(c)
  BY <1>2, AtItsEnd
<1>4. Fits(r, Of(c)) /\ r \in CallShape /\ Of(c) \subseteq Operations
  BY <1>3, OfCall
<1>5. r.at = "discovering" /\ Harmless(left)
  BY <1>1, <1>3, <1>4, OperationsFit
<1>6. r.todo # <<>> /\ Head(r.todo) \in Enabled /\ Head(r.todo) \in AllSelectable
  BY <1>4, <1>5 DEF Fits, Turns
<1>7. \A x \in Of(c) : x[3] \in Folders => x \in left
  BY <1>1, WhatsDiffer
<1>8. list \subseteq Folders /\ list # {}
  BY FoldersAreListed
<1>9. CASE cache' = [cache EXCEPT ![o[2]] = [list |-> list, fresh |-> TRUE]] /\ ListsFrom(c, list)
  <2>1. Becomes(c, Listed(r, list))
    BY <1>3, <1>9, ListsBecomes
  <2>2. Fits(Listed(r, list), left)
    BY <1>4, <1>5, <1>6, <1>7, <1>8, ListedFits
  <2>3. Around'
    BY <1>2, <1>3, <1>8, <1>9 DEF Inv, Around
  <2> HIDE DEF r
  <2> QED BY <1>2, <2>1, <2>2, <2>3, OperationEnds
<1>10. CASE ResolveFails(c, "IMAP_ERROR") /\ UNCHANGED cache
  <2>1. Becomes(c, Failing(r, "IMAP_ERROR"))
    BY <1>3, <1>10, FailsBecomes
  <2>2. "IMAP_ERROR" \in Codes \ {"ok"} /\ r.at \in Resolving
    BY <1>5 DEF Codes, Resolving
  <2>3. Fits(Failing(r, "IMAP_ERROR"), left)
    BY <1>4, <1>5, <1>6, <1>7, <2>2, FailingFits
  <2>4. Around'
    BY <1>2, <1>10 DEF Inv, Around
  <2> HIDE DEF r
  <2> QED BY <1>2, <2>1, <2>3, <2>4, OperationEnds
<1> HIDE DEF r, left
<1> QED BY <1>9, <1>10 DEF Discover

\* A check that is over; one that timed out answers the whole call
LEMMA HealthEndsIsSound ==
  ASSUME Inv, NEW o, NEW how, HealthEnds(o, how)
  PROVE  Sound
<1> DEFINE c == o[1]
           r == call[c]
           left == Of(c) \ {o}
<1>1. o[3] = "health" /\ Ends(o) /\ UNCHANGED cache
  BY DEF HealthEnds
<1>2. o \in admitted \cup open /\ LeaveAll(o) /\ Around'
  BY <1>1 DEF Ends, Inv, Around
<1>3. c \in Calls /\ o \in Of(c)
  BY <1>2, AtItsEnd
<1>4. Fits(r, Of(c)) /\ r \in CallShape /\ Of(c) \subseteq Operations /\ DOMAIN call = Calls
  BY <1>3, OfCall
<1>5. r.at \in Gone \cup {"waiting"} /\ Course(r) /\ ~InSearch(r)
  <2>1. r.at \in Gone \cup {"waiting"} /\ Course(r)
    BY <1>1, <1>3, <1>4 DEF Fits, Errands
  <2>2. InSearch(r) => r.at = "answered"
    BY <2>1 DEF InSearch, Gone, Course, Finds
  <2> QED BY <1>3, <1>4, <2>1, <2>2 DEF Fits, Accounts
<1>6. Fits(r, left)
  <2>1. Errands(r, left) /\ Turns(r, left)
    BY <1>4 DEF Fits, Errands, Turns
  <2> QED BY <1>4, <1>5, <2>1 DEF Fits
<1>7. CASE UNCHANGED call
  <2>1. Becomes(c, r)
    BY <1>4, <1>7 DEF Becomes
  <2> HIDE DEF r
  <2> QED BY <1>2, <1>6, <2>1, OperationEnds
<1>8. CASE call' = [call EXCEPT ![c] = IF @.at = "waiting" THEN Answered(@, "TIMEOUT") ELSE @]
  <2>1. CASE r.at = "waiting"
    <3>1. Becomes(c, Answered(r, "TIMEOUT"))
      BY <1>3, <1>4, <1>8, <2>1 DEF Becomes
    <3>2. "TIMEOUT" \in Codes /\ Harmless(left)
      <4>1. Harmless(Of(c))
        BY <1>4, <2>1, OperationsFit
      <4> QED BY <4>1 DEF Codes, Harmless
    <3>3. Fits(Answered(r, "TIMEOUT"), left)
      BY <1>4, <3>2, AnsweredFits
    <3> HIDE DEF r
    <3> QED BY <1>2, <3>1, <3>3, OperationEnds
  <2>2. CASE r.at # "waiting"
    <3>1. Becomes(c, r)
      BY <1>3, <1>4, <1>8, <2>2 DEF Becomes
    <3> HIDE DEF r
    <3> QED BY <1>2, <1>6, <3>1, OperationEnds
  <2> QED BY <2>1, <2>2
<1> HIDE DEF r, left
<1> QED BY <1>7, <1>8 DEF HealthEnds

\* A read that is over
LEMMA ReadEndsIsSound ==
  ASSUME Inv, NEW o, NEW how, NEW identifiers \in BOOLEAN, ReadEnds(o, how, identifiers)
  PROVE  Sound
<1> DEFINE c == o[1]
           r == call[c]
           ok == how = "ok"
           n == AfterRead(r, ok, identifiers)
<1>1. /\ o[3] = "read" /\ Ends(o) /\ UNCHANGED cache
      /\ call' = [call EXCEPT ![c] = AfterRead(@, ok, identifiers)]
  BY DEF ReadEnds
<1>2. o \in admitted \cup open /\ LeaveAll(o) /\ Around'
  BY <1>1 DEF Ends, Inv, Around
<1>3. c \in Calls /\ o \in Of(c)
  BY <1>2, AtItsEnd
<1>4. Fits(r, Of(c)) /\ r \in CallShape /\ Of(c) \subseteq Operations /\ DOMAIN call = Calls
  BY <1>3, OfCall
<1>5. r.at = "reading" /\ Of(c) \ {o} = {}
  BY <1>1, <1>3, <1>4, OperationsFit
<1>6. /\ r.op \in {"page", "batch", "thread", "messages"} /\ Different(r.todo)
      /\ r.op \in {"batch", "messages"} => r.reads > 0
  BY <1>4, <1>5 DEF Fits, Course, Turns
<1>7. Becomes(c, n)
  BY <1>1, <1>3, <1>4 DEF Becomes
<1>8. ok \in BOOLEAN
  OBVIOUS
<1> HIDE DEF ok
<1>9. Fits(n, {})
  BY <1>4, <1>6, <1>8, AfterReadFits
<1> HIDE DEF n, r
<1> QED BY <1>2, <1>5, <1>7, <1>9, OperationEnds

\* A call that is made
LEMMA BeginIsSound ==
  ASSUME Inv, NEW c \in Calls, NEW request \in Requests[c], Begin(c, request)
  PROVE  Sound
<1> DEFINE n == [NoCall EXCEPT !.op = request.op, !.boxes = request.boxes, !.todo = SetToSeq(request.boxes),
                   !.folders = request.folders, !.filter = request.filter, !.reads = request.reads,
                   !.at = FirstStep(request.op)]
<1>1. ~Busy(c) /\ call' = [call EXCEPT ![c] = n] /\ NoPermits /\ UNCHANGED cache
  BY DEF Begin
<1>2. Fits(n, {})
  BY BegunFits
<1> HIDE DEF n
<1>3. Of(c) = {} /\ Becomes(c, n)
  BY <1>1, OfCall DEF Becomes
<1> QED BY <1>1, <1>2, <1>3, QuietStep

\* A knowledge search, or its refusal
LEMMA BeginKnowledgeIsSound ==
  ASSUME Inv, NEW c \in Calls, NEW explicit \in Selections[c], NEW inline \in Selections[c],
         BeginKnowledge(c, explicit, inline)
  PROVE  Sound
<1> DEFINE new == [NoCall EXCEPT !.op = "knowledge", !.at = "resolving", !.boxes = Mailboxes,
                     !.explicit = explicit, !.inline = inline]
           n == [NoCall EXCEPT !.op = "knowledge", !.at = "resolving", !.boxes = Mailboxes,
                   !.explicit = explicit, !.inline = inline, !.todo = SetToSeq(Scoped(explicit, inline))]
           code == "MAILBOX_SCOPE_NOT_FOUND"
<1>1. ~Busy(c) /\ NoPermits /\ UNCHANGED cache /\ Of(c) = {} /\ DOMAIN call = Calls
  BY OfCall DEF BeginKnowledge
<1>2. explicit \in SUBSET Mailboxes /\ inline \in SUBSET Mailboxes
  BY RequestsAreValid
<1>3. CASE call' = [call EXCEPT ![c] = Answered(new, code)]
  <2>1. new \in CallShape
    BY <1>2, NoCallIsCall DEF CallShape, OpNames, Places
  <2>2. code \in Codes /\ code # "ok" /\ Harmless({})
    BY DEF Codes, Harmless
  <2> HIDE DEF new, code
  <2>3. Becomes(c, Answered(new, code)) /\ Fits(Answered(new, code), {})
    BY <1>1, <1>3, <2>1, <2>2, AnsweredFits DEF Becomes
  <2> QED BY <1>1, <2>3, QuietStep
<1>4. CASE call' = [call EXCEPT ![c] = n]
  <2>1. Fits(n, {})
    BY <1>2, KnowledgeFits
  <2> HIDE DEF n
  <2>2. Becomes(c, n)
    BY <1>1, <1>4 DEF Becomes
  <2> QED BY <1>1, <2>1, <2>2, QuietStep
<1>5. [new EXCEPT !.todo = SetToSeq(Scoped(explicit, inline))] = n
  BY DEF NoCall
<1> HIDE DEF n
<1> QED BY <1>3, <1>4, <1>5 DEF BeginKnowledge

\* An answer that is received
LEMMA ReceiveIsSound ==
  ASSUME Inv, NEW c \in Calls, Receive(c)
  PROVE  Sound
<1>1. call[c].at = "answered" /\ NoPermits /\ UNCHANGED cache
  BY DEF Receive
<1>2. Fits(call[c], Of(c)) /\ Of(c) \subseteq Operations /\ DOMAIN call = Calls
  BY OfCall
<1>3. Harmless(Of(c))
  BY <1>1, <1>2, OperationsFit
<1>4. Becomes(c, NoCall) /\ Fits(NoCall, Of(c))
  BY <1>2, <1>3, NoCallFits DEF Receive, Becomes
<1> QED BY <1>1, <1>4, QuietStep

\* The calls stay where they are.
LEMMA NoCallMoves ==
  ASSUME Inv, NoPermits, UNCHANGED call, Around'
  PROVE  Sound
<1>1. Standing' /\ Live' = Live /\ UNCHANGED Permits!vars
  BY NothingMoves DEF Inv, NoPermits
<1>2. \A c \in Calls : Of(c)' = Of(c)
  BY <1>1 DEF Of
<1> QED BY <1>1, <1>2 DEF Inv, Sound

\* A list that grows old
LEMMA SurroundingsAreSound ==
  ASSUME Inv, NEW m \in Mailboxes, CacheExpires(m)
  PROVE  Sound
<1>1. Around' /\ NoPermits /\ UNCHANGED call
  BY DEF CacheExpires, Inv, Around
<1> QED BY <1>1, NoCallMoves

----------------------------------------------------------------------------
\* The invariant

\* At the start every permit is free.
LEMMA FreshPool ==
  ASSUME NEW limit \in Nat
  PROVE  Pooled!Pool(NewSemaphore(limit), {}, limit) /\ Waiting(NewSemaphore(limit)) = {}
<1>1. NewSemaphore(limit) = [free |-> limit, queue |-> <<>>]
  BY DEF NewSemaphore
<1>2. Pooled!IsFiniteSet({}) /\ Pooled!Cardinality({}) = 0
  <2>1. Pooled!IsFiniteSet({}) = IsFiniteSet({}) /\ Pooled!Cardinality({}) = Cardinality({})
    BY DEF Pooled!IsFiniteSet, IsFiniteSet, Pooled!Cardinality, Cardinality
  <2> QED BY <2>1, FS_EmptySet
<1>3. Waiting(NewSemaphore(limit)) = {}
  BY <1>1 DEF Waiting, Range
<1> QED BY <1>1, <1>2, <1>3 DEF Pooled!Pool

\* Nothing is under way at the start.
LEMMA InitIsSound ==
  ASSUME Init
  PROVE  Inv /\ Permits!Init
<1>1. /\ fanout = NewSemaphore(FanoutLimit) /\ Waiting(fanout) = {}
      /\ DOMAIN box = Mailboxes /\ admitted = {} /\ open = {}
      /\ \A m \in Mailboxes : box[m] = NewSemaphore(MailboxLimit) /\ Waiting(box[m]) = {}
  BY LimitsArePositive, FreshPool DEF Init
<1>2. Live = {} /\ InFanout = {} /\ \A m \in Mailboxes : InBox(m) = {}
  BY <1>1 DEF Live, InFanout, InBox
<1>3. Standing
  <2>1. Pooled!Pool(fanout, InFanout, FanoutLimit)
    BY <1>1, <1>2, LimitsArePositive, FreshPool
  <2>2. \A m \in Mailboxes : Pooled!Pool(box[m], InBox(m), MailboxLimit)
    BY <1>1, <1>2, LimitsArePositive, FreshPool
  <2> QED BY <1>1, <2>1, <2>2 DEF Standing
<1>4. \A c \in Calls : call[c] = NoCall /\ Of(c) = {}
  BY <1>2 DEF Init, Of
<1>5. DOMAIN call = Calls /\ \A c \in Calls : Fits(call[c], Of(c))
  BY <1>4, NoCallFits DEF Init, Harmless
<1>6. Around
  BY DEF Init, Around
<1>7. Permits!Init
  <2>1. \A l : Permits!NewSemaphore(l) = NewSemaphore(l)
    BY DEF Permits!NewSemaphore, NewSemaphore
  <2>2. \A p \in PoolNames :
          /\ SemaphoreOf(p) = NewSemaphore(IF p = <<>> THEN FanoutLimit ELSE MailboxLimit)
          /\ HoldersOf(p) = {}
    <3>1. \A m \in Mailboxes : <<m>> # <<>>
      OBVIOUS
    <3> QED BY <1>1, <1>2, <3>1, PoolsAre
  <2> QED BY <2>1, <2>2 DEF Permits!Init
<1> QED BY <1>3, <1>5, <1>6, <1>7 DEF Inv

\* Every step keeps the calls and their operations together, and is one of the pools.
LEMMA StepIsSound ==
  ASSUME Inv, Next
  PROVE  Sound
<1>1. ASSUME NEW c \in Calls, Works(c) PROVE Sound
  BY <1>1, CheckIsSound, ResolveIsSound, LaunchIsSound, NextReadIsSound, AnswerIsSound DEF Works
<1>2. ASSUME NEW o, Operates(o) PROVE Sound
  BY <1>2, CreateIsSound, SearchIsSound, HealthEndsIsSound, DiscoverIsSound, ReadEndsIsSound
     DEF Operates
<1>3. ASSUME Clients PROVE Sound
  BY <1>3, BeginIsSound, BeginKnowledgeIsSound, ReceiveIsSound DEF Clients
<1>4. ASSUME Surroundings PROVE Sound
  BY <1>4, SurroundingsAreSound DEF Surroundings
<1> QED BY <1>1, <1>2, <1>3, <1>4 DEF Next, Proceeds

\* Nothing is lost while nothing happens.
LEMMA StutterIsSound ==
  ASSUME Inv, UNCHANGED vars
  PROVE  Sound
<1>1. NoPermits /\ UNCHANGED call /\ Around'
  BY DEF vars, NoPermits, Inv, Around
<1> QED BY <1>1, NoCallMoves

\* What the reading calls keep to between two awaits, whichever operations are under way, fail,
\* hang or wait: the permits stand in their pools, and each call with the operations it has out
\* there accounts for the mailboxes and folders it was asked for.
THEOREM Invariant == Spec => []Inv
<1>1. Init => Inv
  BY InitIsSound
<1>2. Inv /\ [Next]_vars => Inv'
  BY StepIsSound, StutterIsSound DEF Sound
<1> QED BY <1>1, <1>2, PTL DEF Spec

\* Calls, operations and permits have the shape the code gives them; a call that has been
\* received has left nothing of itself behind.
THEOREM TypeCorrect == Spec => []TypeOK
<1>1. Inv => TypeOK
  <2> SUFFICES ASSUME Inv PROVE TypeOK
    OBVIOUS
  <2>1. Waiting(fanout) \subseteq Operations /\ Live \subseteq Operations /\ admitted \cap open = {}
    BY WhereTheyStand DEF Inv, Standing
  <2>2. fanout.free \in Nat /\ \A m \in Mailboxes : box[m].free \in Nat
    BY DEF Inv, Standing, Pooled!Pool
  <2>3. \A m \in Mailboxes : cache[m].list \subseteq Folders /\ cache[m].fresh \in BOOLEAN
    BY DEF Inv, Around
  <2>4. ASSUME NEW c \in Calls
        PROVE  call[c].at \in Places /\ call[c].reads \in 0..MaxReads /\ (call[c].at = "idle" => call[c] = NoCall)
    BY DEF Inv, Fits, CallShape, Course
  <2> QED BY <2>1, <2>2, <2>3, <2>4 DEF TypeOK, Places
<1> QED BY <1>1, Invariant, PTL

\* The semaphores of the fan-out and of the mailboxes, with operations that hold a permit of the
\* one while they wait for the other, and that fail or time out anywhere, are sound pools: the
\* reading service implements PermitPool.
THEOREM PermitsAreSound == Spec => PermitsArePooled
<1>1. Init => Permits!Init
  BY InitIsSound
<1>2. Inv /\ [Next]_vars => [Permits!Next]_(Permits!vars)
  BY StepIsSound, StutterIsSound DEF Sound
<1> QED BY <1>1, <1>2, Invariant, PTL DEF Spec, PermitsArePooled, Permits!Spec

\* What PermitPool promises then holds of the reading service: no operation goes beyond the
\* permits of the fan-out or of its mailbox, and none waits beside a free one.
COROLLARY PermitsAreKept == Spec => []Pooled!PoolInv
<1>1. Inv => Pooled!PoolInv
  <2> DEFINE sems == [p \in PoolNames |-> SemaphoreOf(p)]
             held == [p \in PoolNames |-> HoldersOf(p)]
             most == [p \in PoolNames |-> IF p = <<>> THEN FanoutLimit ELSE MailboxLimit]
  <2>1. ASSUME Inv, NEW p \in PoolNames PROVE Pooled!Pool(sems[p], held[p], most[p])
    <3>1. CASE p = <<>>
      BY <2>1, <3>1 DEF Inv, Standing, SemaphoreOf, HoldersOf
    <3>2. CASE p # <<>>
      <4>1. PICK m \in Mailboxes : p = <<m>>
        BY <3>2 DEF PoolNames
      <4> QED BY <2>1, <3>2, <4>1 DEF Inv, Standing, SemaphoreOf, HoldersOf
    <3> QED BY <3>1, <3>2
  <2> QED BY <2>1, Pooled!PoolsOfState
<1> QED BY <1>1, Invariant, PTL

----------------------------------------------------------------------------
\* Answers

\* A search that has been answered has nothing ahead and nothing under way.
LEMMA AnsweredIsDone ==
  ASSUME Inv, NEW c \in Calls, Searching(call[c])
  PROVE  /\ call[c] \in CallShape /\ call[c].todo = <<>> /\ Range(call[c].todo) = {}
         /\ Accounts(call[c], {}) /\ Owes(call[c], {}) /\ Asking(call[c], {}) = call[c].results
<1>1. Fits(call[c], Of(c)) /\ InSearch(call[c])
  BY OfCall DEF Searching, InSearch, Finds
<1>2. Of(c) = {} /\ call[c].todo = <<>>
  BY <1>1 DEF Fits, Accounts, Searching
<1>3. Range(call[c].todo) = {}
  BY <1>2 DEF Range
<1>4. {p \in {} : p[3] \in Folders} = {}
  OBVIOUS
<1> QED BY <1>1, <1>2, <1>3, <1>4 DEF Fits, Asking

\* An answer accounts for every mailbox it was asked for and for every folder it owes of each,
\* with messages or a failure, and for no mailbox or folder beside them: none outside the scope,
\* the allowlist or the enabled ones.
THEOREM AnswersAreComplete == Spec => []AnswersAccountForAll
<1>1. Inv => AnswersAccountForAll
  <2> SUFFICES ASSUME Inv, NEW c \in Calls, Searching(call[c])
               PROVE  LET told == call[c].results \cup call[c].failures IN
                      /\ \A m \in call[c].boxes :
                           call[c].op = "search" \/ m \in Scoped(call[c].explicit, call[c].inline)
                             => \E t \in told : t[1] = m
                      /\ \A w \in call[c].owed : \E t \in told : Covers(call[c], t, w)
                      /\ \A t \in told :
                           /\ t[1] \in call[c].boxes \cap Enabled
                           /\ call[c].explicit # {} => t[1] \in call[c].explicit
                           /\ call[c].inline # {} => t[1] \in call[c].inline
                           /\ t[2] # "all" /\ call[c].folders # {} => t[2] \in call[c].folders
                           /\ t[2] # "all" /\ t[1] \notin AllSelectable => t[2] \in Allowed
    BY DEF AnswersAccountForAll
  <2> DEFINE r == call[c]
  <2>1. Range(r.todo) = {} /\ Accounts(r, {}) /\ Owes(r, {}) /\ Asking(r, {}) = r.results
    BY AnsweredIsDone
  <2>2. \A m \in Wanted(r) : \E t \in r.results \cup r.failures : t[1] = m
    BY <2>1 DEF Accounts
  <2>3. \A t \in r.results : MaySearch(r, t[1], t[2])
    BY <2>1 DEF Accounts
  <2>4. \A t \in r.failures :
          /\ MayAsk(r, t[1]) /\ t[1] \in Enabled
          /\ t[2] # "all" => MaySearch(r, t[1], t[2])
    BY <2>1 DEF Accounts
  <2> HIDE DEF r
  <2>5. ASSUME NEW t \in r.results \cup r.failures
        PROVE  /\ t[1] \in r.boxes \cap Enabled
               /\ r.explicit # {} => t[1] \in r.explicit
               /\ r.inline # {} => t[1] \in r.inline
               /\ t[2] # "all" /\ r.folders # {} => t[2] \in r.folders
               /\ t[2] # "all" /\ t[1] \notin AllSelectable => t[2] \in Allowed
    BY <2>3, <2>4 DEF MayAsk, MaySearch
  <2>6. \A m \in r.boxes : r.op = "search" \/ m \in Scoped(r.explicit, r.inline)
                             => \E t \in r.results \cup r.failures : t[1] = m
    BY <2>2 DEF Wanted
  <2>7. \A w \in r.owed : \E t \in r.results \cup r.failures : Covers(r, t, w)
    BY <2>1 DEF Owes
  <2> QED BY <2>5, <2>6, <2>7 DEF r
<1> QED BY <1>1, Invariant, PTL

\* Numbers have a least one.
LEMMA NatHasLeast ==
  ASSUME NEW ns \in SUBSET Nat, ns # {}
  PROVE  \E n \in ns : \A k \in ns : n <= k
<1>1. PICK n \in ns : \A k \in ns : <<k, n>> \notin OpToRel(<, Nat)
  BY WFMin, NatLessThanWellFounded
<1>2. \A k \in ns : ~(k < n)
  BY <1>1 DEF OpToRel
<1> QED BY <1>2

\* The mails above one of them.
Above(S, u) == {v \in S : v > u}

\* The higher a mail, the fewer are above it.
LEMMA AboveAreFewer ==
  ASSUME NEW S \in SUBSET Nat, IsFiniteSet(S), NEW u \in S
  PROVE  /\ IsFiniteSet(Above(S, u)) /\ Cardinality(Above(S, u)) \in Nat
         /\ Cardinality(Above(S, u)) < Cardinality(S) /\ Cardinality(S) \in Nat
         /\ \A v \in Above(S, u) : Cardinality(Above(S, v)) < Cardinality(Above(S, u))
<1>1. \A T \in SUBSET S :
        /\ IsFiniteSet(T) /\ Cardinality(T) \in Nat
        /\ \A R \in SUBSET T : R # T => Cardinality(R) < Cardinality(T) /\ Cardinality(R) \in Nat
  <2> SUFFICES ASSUME NEW T \in SUBSET S
               PROVE  /\ IsFiniteSet(T) /\ Cardinality(T) \in Nat
                      /\ \A R \in SUBSET T : R # T => Cardinality(R) < Cardinality(T) /\ Cardinality(R) \in Nat
    OBVIOUS
  <2>1. IsFiniteSet(T) /\ Cardinality(T) \in Nat
    BY FS_Subset, FS_CardinalityType
  <2>2. ASSUME NEW R \in SUBSET T, R # T PROVE Cardinality(R) < Cardinality(T) /\ Cardinality(R) \in Nat
    <3>1. Cardinality(R) <= Cardinality(T) /\ Cardinality(R) # Cardinality(T) /\ IsFiniteSet(R)
      BY <2>1, <2>2, FS_Subset
    <3>2. Cardinality(R) \in Nat
      BY <3>1, FS_CardinalityType
    <3> QED BY <2>1, <3>1, <3>2
  <2> QED BY <2>1, <2>2
<1>2. Above(S, u) \in SUBSET S /\ Above(S, u) # S
  BY DEF Above
<1>3. ASSUME NEW v \in Above(S, u)
      PROVE  Above(S, v) \in SUBSET Above(S, u) /\ Above(S, v) # Above(S, u)
  <2>1. v \in Nat /\ u \in Nat /\ v > u
    BY DEF Above
  <2>2. \A w \in S : w \in Nat /\ (w > v => w > u)
    BY <2>1
  <2>3. v \notin Above(S, v)
    BY <2>1 DEF Above
  <2> QED BY <2>2, <2>3 DEF Above
<1> QED BY <1>1, <1>2, <1>3

\* No more mails than are looked at, or than are brought: then they are all of them.
LEMMA NewestAreAll ==
  ASSUME NEW S \in SUBSET Nat, IsFiniteSet(S), NEW n \in Nat,
         Cardinality(S) <= n \/ Cardinality(Newest(S, n)) < n
  PROVE  Newest(S, n) = S
<1> DEFINE left == S \ Newest(S, n)
           ns == {Cardinality(Above(S, v)) : v \in left}
<1> SUFFICES ASSUME left # {} PROVE FALSE
  BY DEF Newest
<1>1. \A v \in left : v \in S /\ ~(Cardinality(Above(S, v)) < n)
  BY DEF Newest, Above
<1>2. ns \in SUBSET Nat /\ ns # {}
  BY AboveAreFewer
<1>3. PICK u \in left : \A v \in left : Cardinality(Above(S, u)) <= Cardinality(Above(S, v))
  <2>1. PICK k \in ns : \A l \in ns : k <= l
    BY <1>2, NatHasLeast
  <2> QED BY <2>1
<1> DEFINE top == Newest(S, n)
           above == Above(S, u)
<1>4. u \in S /\ IsFiniteSet(above) /\ Cardinality(above) \in Nat /\ Cardinality(S) \in Nat
      /\ Cardinality(above) < Cardinality(S) /\ ~(Cardinality(above) < n)
  BY <1>1, AboveAreFewer
<1>5. above \subseteq top
  <2>1. ASSUME NEW v \in above, v \notin top PROVE FALSE
    <3>1. v \in left /\ v \in S
      BY <2>1 DEF Above
    <3>2. Cardinality(Above(S, v)) < Cardinality(above) /\ Cardinality(Above(S, v)) \in Nat
      BY <1>4, <3>1, AboveAreFewer
    <3> QED BY <1>3, <1>4, <3>1, <3>2
  <2> QED BY <2>1
<1>6. IsFiniteSet(top) /\ Cardinality(top) \in Nat
  <2>1. top \in SUBSET S
    BY DEF Newest
  <2> QED BY <2>1, FS_Subset, FS_CardinalityType
<1> HIDE DEF top, above
<1>7. Cardinality(above) <= Cardinality(top)
  BY <1>5, <1>6, FS_Subset
<1> QED BY <1>4, <1>6, <1>7 DEF top

\* What a folder of a search brings when it brings fewer than the limit: every candidate.
LEMMA AllAreBrought ==
  ASSUME NEW m \in Mailboxes, NEW f \in Folders, NEW filter \in BOOLEAN,
         ~(Cardinality(Brings(m, f, filter)) >= ResultLimit),
         filter => Cardinality(Contents[m][f]) <= Window,
         NEW u \in Contents[m][f], filter => u \in Attached
  PROVE  u \in Brings(m, f, filter)
<1> DEFINE all == Contents[m][f]
           candidates == Newest(all, Window)
           wanted == IF filter THEN candidates \cap Attached ELSE candidates
           brought == Newest(wanted, ResultLimit)
<1>1. /\ all \in SUBSET Nat /\ IsFiniteSet(all) /\ Window \in Nat /\ ResultLimit \in Nat
      /\ Window >= ResultLimit
  BY AllHoldsThePlain, WindowHoldsTheLimit
<1>2. brought = Brings(m, f, filter)
  BY DEF Brings
<1>3. candidates \in SUBSET all /\ wanted \in SUBSET candidates /\ brought \in SUBSET wanted
  BY DEF Newest
<1>4. wanted \in SUBSET all /\ wanted \in SUBSET Nat
  BY <1>1, <1>3
<1>5. IsFiniteSet(wanted) /\ IsFiniteSet(brought)
  BY <1>1, <1>3, <1>4, FS_Subset
<1>6. Cardinality(brought) \in Nat /\ Cardinality(brought) < ResultLimit
  <2>1. Cardinality(brought) \in Nat
    BY <1>5, FS_CardinalityType
  <2> QED BY <1>1, <1>2, <2>1
<1> HIDE DEF brought, wanted, candidates
<1>7. brought = wanted
  BY <1>1, <1>4, <1>5, <1>6, NewestAreAll DEF brought
<1>8. candidates = all
  <2>1. CASE filter
    BY <1>1, <2>1, NewestAreAll DEF candidates
  <2>2. CASE ~filter
    <3>1. wanted = candidates
      BY <2>2 DEF wanted
    <3>2. Cardinality(candidates) < Window
      BY <1>1, <1>6, <1>7, <3>1
    <3> HIDE DEF all
    <3> QED BY <1>1, <3>2, NewestAreAll DEF candidates
  <2> QED BY <2>1, <2>2
<1>9. u \in wanted
  BY <1>8 DEF wanted
<1> QED BY <1>2, <1>7, <1>9

\* Of the mails that look alike in a mailbox one stays.
LEMMA OneIsKept ==
  ASSUME NEW op, NEW found, NEW y \in found
  PROVE  \E x \in Keeps(op, found) : x[1] = y[1] /\ KeyOf[x[3]] = KeyOf[y[3]]
<1>1. CASE op # "knowledge"
  BY <1>1 DEF Keeps
<1>2. CASE op = "knowledge"
  <2> DEFINE x == Best(found, y[1], KeyOf[y[3]])
  <2>1. x \in found /\ x[1] = y[1] /\ KeyOf[x[3]] = KeyOf[y[3]]
    BY DEF Best
  <2>2. Best(found, x[1], KeyOf[x[3]]) = x
    BY <2>1
  <2> HIDE DEF x
  <2>3. x \in Keeps(op, found)
    BY <1>2, <2>1, <2>2 DEF Keeps
  <2> QED BY <2>1, <2>3
<1> QED BY <1>1, <1>2

\* An answer that is not truncated and names no failure has every matching mail, or one that
\* looks like it, of the folders that were there since they were listed: All Mail stands for the
\* plain folders, fewer messages than the limit are all the candidates, and fewer candidates
\* than are looked at are all the mails.
THEOREM NothingIsLeftOut == Spec => []NothingSilentlyLeftOut
<1>1. Inv => NothingSilentlyLeftOut
  <2> SUFFICES ASSUME Inv, NEW c \in Calls, Searching(call[c]), call[c].failures = {},
                      ~Truncated(call[c]), ~call[c].refused,
                      call[c].filter => \A r \in call[c].owed :
                                          Cardinality(Contents[r[1]][r[2]]) <= Window,
                      NEW owed \in call[c].owed, NEW u \in Contents[owed[1]][owed[2]],
                      ~(call[c].filter /\ u \notin Attached)
               PROVE  \E x \in Keeps(call[c].op, Found(call[c])) :
                        x[1] = owed[1] /\ KeyOf[x[3]] = KeyOf[u]
    BY DEF NothingSilentlyLeftOut
  <2> DEFINE r == call[c]
  <2>1. r \in CallShape /\ Range(r.todo) = {} /\ Owes(r, {}) /\ Asking(r, {}) = r.results
    BY AnsweredIsDone
  <2>2. PICK x \in r.results : Covers(r, x, owed) /\ x \in r.owed
    BY <2>1 DEF Owes
  <2>3. /\ x = <<x[1], x[2]>> /\ x[1] \in Mailboxes /\ x[2] \in Folders
        /\ owed[1] \in Mailboxes /\ owed[2] \in Folders /\ r.filter \in BOOLEAN
    BY <2>1 DEF CallShape
  <2>4. u \in Contents[x[1]][x[2]]
    BY <2>2, <2>3, AllHoldsThePlain DEF Covers
  <2>5. ~(Cardinality(Brings(x[1], x[2], r.filter)) >= ResultLimit)
    BY DEF Truncated, AtLimit
  <2>6. u \in Brings(x[1], x[2], r.filter)
    <3>1. r.filter => Cardinality(Contents[x[1]][x[2]]) <= Window
      BY <2>2
    <3>2. r.filter => u \in Attached
      OBVIOUS
    <3> HIDE DEF r
    <3> QED BY <2>3, <2>4, <2>5, <3>1, <3>2, AllAreBrought
  <2> DEFINE y == <<x[1], x[2], u>>
  <2>7. y \in Found(r) /\ y[1] = owed[1] /\ y[3] = u
    BY <2>2, <2>6 DEF Found, Covers
  <2> HIDE DEF y
  <2>8. PICK z \in Keeps(r.op, Found(r)) : z[1] = y[1] /\ KeyOf[z[3]] = KeyOf[y[3]]
    BY <2>7, OneIsKept
  <2> QED BY <2>7, <2>8
<1> QED BY <1>1, Invariant, PTL
===============================================================================
