--------------------------- MODULE FolderReadingProofs ---------------------------
(***************************************************************************)
(* Theorems about FolderReading for folders, pages, windows and messages   *)
(* of any size.                                                            *)
(*                                                                         *)
(* They rest on one inductive invariant, `Inv`: `Folder`, `Calls` and      *)
(* `Peeks` are the shapes and who may have set a flag.  `Walk` says, at    *)
(* every await of a page, where what stayed and was not shown can be:      *)
(* ahead of the cursor, among what the search found, or below the whole of *)
(* a search that found limit + 1.  `Pieces` says the same of bytes, and    *)
(* `Probe` relates the two observations of a flag to who touched it.       *)
(* That the newest of a set are as few and as many as asked for is proved  *)
(* first, since the cursor is the lowest of a page that is full.           *)
(***************************************************************************)
EXTENDS FolderReading, FiniteSetTheorems, WellFoundedInduction, TLAPS

LEMMA Bounds == MaxUid \in Nat \ {0} /\ MaxValidity \in Nat \ {0} /\ MaxFlips \in Nat
BY ReadingBounds

----------------------------------------------------------------------------
\* The newest of a set of messages

LEMMA FiniteUids ==
  ASSUME NEW us \in SUBSET Uids
  PROVE  IsFiniteSet(us) /\ Cardinality(us) \in Nat /\ us \subseteq Nat
<1>1. IsFiniteSet(Uids)
  BY Bounds, FS_Interval DEF Uids
<1>2. IsFiniteSet(us)
  BY <1>1, FS_Subset
<1>3. Cardinality(us) \in Nat
  BY <1>2, FS_CardinalityType
<1>4. us \subseteq Nat
  BY DEF Uids
<1> QED BY <1>2, <1>3, <1>4

LEMMA FewerUids ==
  ASSUME NEW us \in SUBSET Uids, NEW vs \in SUBSET us
  PROVE  /\ Cardinality(vs) <= Cardinality(us)
         /\ vs # us => Cardinality(vs) < Cardinality(us)
BY FiniteUids, FS_Subset

\* Numbers have a least one.
LEMMA NatHasLeast ==
  ASSUME NEW ns \in SUBSET Nat, ns # {}
  PROVE  \E n \in ns : \A m \in ns : n <= m
<1>1. PICK n \in ns : \A m \in ns : <<m, n>> \notin OpToRel(<, Nat)
  BY WFMin, NatLessThanWellFounded
<1>2. \A m \in ns : ~(m < n)
  BY <1>1 DEF OpToRel
<1> QED BY <1>2

LEMMA LowestIsLeast ==
  ASSUME NEW us \in SUBSET Nat, us # {}
  PROVE  Lowest(us) \in us /\ \A v \in us : Lowest(us) <= v
BY NatHasLeast DEF Lowest

LEMMA HasHighest ==
  ASSUME NEW us \in SUBSET Uids, us # {}
  PROVE  \E u \in us : \A v \in us : v <= u
<1> DEFINE ns == {MaxUid - u : u \in us}
<1>1. ns \in SUBSET Nat /\ ns # {}
  <2>1. \A u \in us : MaxUid - u \in Nat
    BY Bounds DEF Uids
  <2> QED BY <2>1
<1>2. PICK n \in ns : \A m \in ns : n <= m
  BY <1>1, NatHasLeast
<1>3. PICK u \in us : n = MaxUid - u
  BY <1>2
<1>4. \A v \in us : MaxUid - u <= MaxUid - v
  BY <1>2, <1>3
<1>5. \A v \in us : v <= u
  BY <1>4, Bounds DEF Uids
<1> QED BY <1>5

\* Those above a message.
Above(us, u) == {v \in us : v > u}

\* The newest are on top of the others.
LEMMA NewestOnTop ==
  ASSUME NEW us \in SUBSET Uids, NEW n \in Nat, NEW u \in us \ Newest(us, n), NEW v \in Newest(us, n)
  PROVE  u < v
<1>1. u \in Nat /\ v \in Nat /\ v \in us
  BY Bounds DEF Uids, Newest
<1>2. CASE v <= u
  <2>1. Above(us, u) \subseteq Above(us, v) /\ Above(us, v) \in SUBSET us
    <3>1. \A w \in us : w \in Nat
      BY FiniteUids
    <3>2. \A w \in us : w > u => w > v
      BY <1>1, <1>2, <3>1
    <3> QED BY <3>2 DEF Above
  <2>2. Cardinality(Above(us, u)) <= Cardinality(Above(us, v))
    BY <2>1, FewerUids
  <2>3. Cardinality(Above(us, v)) < n /\ ~(Cardinality(Above(us, u)) < n)
    BY DEF Above, Newest
  <2>4. Cardinality(Above(us, v)) \in Nat /\ Cardinality(Above(us, u)) \in Nat
    BY <2>1, FiniteUids
  <2> QED BY <2>2, <2>3, <2>4
<1> QED BY <1>1, <1>2

\* They are no more than asked for.
LEMMA NewestAreFew ==
  ASSUME NEW us \in SUBSET Uids, NEW n \in Nat
  PROVE  /\ Newest(us, n) \in SUBSET us
         /\ Cardinality(Newest(us, n)) \in Nat /\ Cardinality(Newest(us, n)) <= n
<1> DEFINE top == Newest(us, n)
<1>1. top \in SUBSET us /\ top \in SUBSET Uids /\ top \in SUBSET Nat
  BY FiniteUids DEF Newest
<1>2. Cardinality(top) \in Nat
  BY <1>1, FiniteUids
<1>3. CASE top = {}
  BY <1>1, <1>2, <1>3, FS_EmptySet
<1>4. CASE top # {}
  <2> DEFINE u == Lowest(top)
  <2>1. u \in top /\ \A v \in top : u <= v
    BY <1>1, <1>4, LowestIsLeast
  <2>2. Cardinality(Above(us, u)) < n
    BY <2>1 DEF Newest, Above
  <2>3. top \ {u} \in SUBSET Above(us, u) /\ Above(us, u) \in SUBSET Uids
    BY <1>1, <2>1 DEF Above
  <2>4. Cardinality(top \ {u}) = Cardinality(top) - 1
    BY <1>1, <2>1, FiniteUids, FS_RemoveElement
  <2>5. Cardinality(top \ {u}) <= Cardinality(Above(us, u)) /\ Cardinality(Above(us, u)) \in Nat
    BY <2>3, FewerUids, FiniteUids
  <2> HIDE DEF u, top
  <2>6. Cardinality(top) <= n
    BY <1>2, <2>2, <2>4, <2>5
  <2> QED BY <1>1, <1>2, <2>6 DEF top
<1> QED BY <1>3, <1>4

\* They are as many as asked for when one is left out.
LEMMA NewestAreEnough ==
  ASSUME NEW us \in SUBSET Uids, NEW n \in Nat, Newest(us, n) # us
  PROVE  Cardinality(Newest(us, n)) = n /\ n < Cardinality(us)
<1> DEFINE top == Newest(us, n)
<1>1. top \in SUBSET us /\ Cardinality(top) \in Nat /\ Cardinality(top) <= n
  BY NewestAreFew
<1>2. us \ top # {} /\ us \ top \in SUBSET Uids
  BY <1>1
<1>3. PICK u \in us \ top : \A v \in us \ top : v <= u
  BY <1>2, HasHighest
<1>4. Above(us, u) = top
  <2>1. \A v \in top : v > u
    BY NewestOnTop
  <2>2. us \subseteq Nat
    BY FiniteUids
  <2>3. \A v \in us \ top : ~(v > u)
    BY <1>3, <2>2
  <2> HIDE DEF top
  <2> QED BY <1>1, <2>1, <2>3 DEF Above
<1>5. ~(Cardinality(Above(us, u)) < n)
  BY DEF Newest, Above
<1>6. Cardinality(top) < Cardinality(us) /\ Cardinality(us) \in Nat
  BY <1>1, FewerUids, FiniteUids
<1> HIDE DEF top
<1> QED BY <1>1, <1>4, <1>5, <1>6 DEF top

----------------------------------------------------------------------------
\* The invariant

Codes  == {"none", "ok", "IMAP_ERROR", "READ_ONLY_INVARIANT_FAILED", "UIDVALIDITY_CHANGED",
           "MESSAGE_NOT_FOUND", "RAW_SOURCE_UNAVAILABLE", "FLAGS_CHANGED_UNEXPECTEDLY"}
Places == {"none", "connecting", "open", "found", "reconnecting", "reopened", "streaming",
           "picked", "probing", "probed", "answered"}
Piece  == Nat \X Nat \X Nat
OfMessage == {"message", "raw", "attachment"}

ReviewShape == [op : Operations \cup {"none"}, state : {"idle", "ready", "asking", "complete", "ended"},
                before : 0..MaxUid, expected : Nat, uid : 0..MaxUid, offset : Nat,
                limit : Nat \ {0}, size : Sizes, code : Codes, cut : BOOLEAN]
CallShape   == [at : Places, mode : {"ro"}, validity : Nat, uid : 0..MaxUid, found : SUBSET Uids,
                window : Nat \ {0}, position : Nat, returned : Nat, before : BOOLEAN]
AnswerShape == [code : Codes, page : SUBSET Uids, validity : Nat, next : Nat, from : Nat, to : Nat,
                cut : BOOLEAN]

\* The folder and what is remembered of it.
Folder ==
  /\ validity \in 1..MaxValidity /\ nextUid \in 1..(MaxUid + 1) /\ flips \in 0..MaxFlips
  /\ present \subseteq 1..(nextUid - 1) /\ seen \subseteq present
  /\ stayed \subseteq present /\ marked \subseteq Uids
  /\ server \in Servers /\ short \in BOOLEAN /\ touched \in BOOLEAN /\ early \in BOOLEAN
  /\ shown \in [Uids -> {0, 1}]
  /\ pieces \in Seq(Piece)

\* A connection whose mode is "ro" sets a flag only where the server ignores EXAMINE.
Peeks == server = "ignores EXAMINE" \/ marked = {}

\* The review, its call and the answer belong together.
Calls ==
  /\ review \in ReviewShape /\ call \in CallShape /\ answer \in AnswerShape
  /\ call.at = "none" <=> review.state # "asking"
  /\ call.at = "none" => call = NoCall
  /\ call.at # "answered" => answer = NoAnswer
  /\ review.state = "idle" => review = NoReview
  /\ review.op = "none" => review.state = "idle"
  /\ call.at = "found" => review.op = "page"
  /\ call.at \in {"reconnecting", "reopened", "streaming"} => review.op = "attachment"
  /\ call.at \in {"picked", "probing", "probed"} => review.op = "probe"
  /\ review.op \in OfMessage => review.uid \in Uids /\ review.expected # 0
  /\ review.op \notin {"raw", "attachment"} => review.offset = 0
  /\ review.op = "probe" => review.uid = 0 /\ (call.at \in {"connecting", "open"} => call.uid = 0)
  /\ call.validity <= validity /\ review.expected <= validity /\ answer.validity <= validity
  /\ call.at \notin {"none", "connecting", "answered"} => review.expected \in {0, call.validity}
  /\ call.at = "answered" /\ answer.code = "ok" => review.expected \in {0, answer.validity}
  /\ Cardinality(call.found) <= review.limit + 1 /\ Cardinality(answer.page) <= review.limit
  /\ call.returned <= call.window
  /\ call.at \notin {"streaming", "answered"} => call.position = 0 /\ call.returned = 0

\* The cursor of the review has not passed a message.
Ahead(u) == review.before = 0 \/ u < review.before

\* A search has found what is ahead, but for older messages when it has found enough.
FoundAhead ==
  /\ \A u \in call.found : Ahead(u)
  /\ ~short => \A u \in stayed :
       \/ shown[u] = 1
       \/ u \in call.found
       \/ Cardinality(call.found) = review.limit + 1 /\ \A v \in call.found : u < v

\* A page is of messages ahead, and what is ahead of its cursor are the others.
PageAhead ==
  /\ \A u \in answer.page : Ahead(u) /\ (answer.next = 0 \/ answer.next <= u)
  /\ answer.next # 0 => answer.next \in answer.page
  /\ ~short => \A u \in stayed :
       shown[u] = 1 \/ u \in answer.page \/ (answer.next # 0 /\ u < answer.next)

\* What has been shown is behind the cursor, and what has stayed and not been shown ahead of it.
Walk ==
  /\ review.state = "idle" => \A u \in Uids : shown[u] = 0
  /\ review.state # "complete" =>
       \A u \in Uids : shown[u] = 1 => review.before # 0 /\ review.before <= u
  /\ review.op = "page" /\ review.state # "complete" /\ ~short =>
       \A u \in stayed : shown[u] = 1 \/ Ahead(u)
  /\ call.at = "found" => FoundAhead
  /\ call.at = "answered" /\ answer.code = "ok" /\ review.op = "page" => PageAhead
  /\ review.op = "page" /\ review.state = "complete" => short \/ \A u \in stayed : shown[u] = 1

\* An answer of bytes goes on where the client is, and ends where the message does.
BytesFollow ==
  /\ answer.from = review.offset
  /\ answer.next # 0 => /\ review.op \in {"raw", "attachment"}
                        /\ answer.next = answer.to /\ answer.next > review.offset
  /\ review.op \in OfMessage =>
       /\ answer.to <= Length[review.uid]
       /\ answer.next = 0 => answer.to = Length[review.uid] \/ answer.cut \/ Misled
       /\ answer.cut /\ review.size = "exact" => answer.to < Length[review.uid]

\* The pieces a client has make the message up to its offset.
Pieces ==
  /\ review.op \in {"none", "page"} => pieces = <<>>
  /\ \A i \in DOMAIN pieces :
       /\ review.op # "probe" => pieces[i][1] = review.expected
       /\ pieces[i][2] = IF i = 1 THEN 0 ELSE pieces[i - 1][3]
       /\ review.op # "probe" => pieces[i][3] <= Length[review.uid]
  /\ review.state # "complete" => review.offset = IF pieces = <<>> THEN 0 ELSE pieces[Len(pieces)][3]
  /\ review.op \in OfMessage => review.offset <= Length[review.uid]
  /\ call.at = "streaming" =>
       /\ call.position <= Length[review.uid]
       /\ call.returned = IF call.position <= review.offset THEN 0 ELSE call.position - review.offset
  /\ call.at = "answered" /\ answer.code = "ok" /\ review.op # "page" => BytesFollow
  /\ review.op \in OfMessage /\ review.state = "complete" =>
       /\ pieces # <<>>
       /\ pieces[Len(pieces)][3] = Length[review.uid] \/ review.cut \/ Misled
       /\ review.cut /\ review.size = "exact" => pieces[Len(pieces)][3] < Length[review.uid]
  /\ answer.code = "RAW_SOURCE_UNAVAILABLE" => review.size # "exact"

\* The flag of a probed message that nobody else touches is what the read made of it.
Probe ==
  ~touched =>
    /\ call.at = "picked" => call.uid \in present
    /\ call.at = "probing" => call.uid \in present /\ (call.before <=> call.uid \in seen)
    /\ call.at = "probed" =>
         /\ call.uid \in present
         /\ call.before => call.uid \in seen
         /\ ~call.before /\ call.uid \in seen => call.uid \in marked
         /\ ~call.before /\ call.uid \notin seen => marked = {}
    /\ call.at = "answered" /\ review.op = "probe" /\ call.uid # 0 =>
         /\ answer.code = "ok" => call.before \/ call.uid \notin marked
         /\ answer.code = "FLAGS_CHANGED_UNEXPECTEDLY" => call.uid \in marked

Inv == Folder /\ Peeks /\ Calls /\ Walk /\ Pieces /\ Probe

LEMMA NothingTyped ==
  /\ NoReview \in ReviewShape /\ NoReview.op = "none" /\ NoReview.state = "idle" /\ NoReview.before = 0
  /\ NoReview.expected = 0 /\ NoReview.uid = 0 /\ NoReview.offset = 0
  /\ NoCall \in CallShape /\ NoCall.at = "none" /\ NoCall.validity = 0 /\ NoCall.found = {}
  /\ NoCall.returned = 0 /\ NoCall.position = 0
  /\ NoAnswer \in AnswerShape /\ NoAnswer.code = "none" /\ NoAnswer.page = {} /\ NoAnswer.next = 0
  /\ NoAnswer.validity = 0 /\ NoAnswer.from = 0 /\ NoAnswer.to = 0
  /\ NoReview.cut = FALSE /\ NoAnswer.cut = FALSE
<1>1. NoReview \in ReviewShape
  BY Bounds DEF NoReview, ReviewShape, Codes, Sizes
<1>2. NoCall \in CallShape
  BY Bounds DEF NoCall, CallShape, Places
<1>3. NoAnswer \in AnswerShape
  BY DEF NoAnswer, AnswerShape, Codes
<1> QED BY <1>1, <1>2, <1>3 DEF NoReview, NoCall, NoAnswer

LEMMA Fields ==
  ASSUME Calls
  PROVE  /\ review.op \in Operations \cup {"none"} /\ review.before \in 0..MaxUid
         /\ review.state \in {"idle", "ready", "asking", "complete", "ended"}
         /\ review.expected \in Nat /\ review.uid \in 0..MaxUid /\ review.offset \in Nat
         /\ review.limit \in Nat \ {0} /\ review.size \in Sizes
         /\ call.at \in Places /\ call.mode = "ro" /\ call.validity \in Nat /\ call.found \in SUBSET Uids
         /\ call.uid \in 0..MaxUid
         /\ call.window \in Nat \ {0} /\ call.position \in Nat /\ call.returned \in Nat
         /\ call.before \in BOOLEAN
         /\ answer.code \in Codes /\ answer.page \in SUBSET Uids /\ answer.validity \in Nat
         /\ answer.next \in Nat /\ answer.from \in Nat /\ answer.to \in Nat
         /\ answer.cut \in BOOLEAN
<1>1. review \in ReviewShape /\ call \in CallShape /\ answer \in AnswerShape
  BY DEF Calls
<1> QED BY <1>1 DEF ReviewShape, CallShape, AnswerShape

LEMMA FolderTyped ==
  ASSUME Folder
  PROVE  /\ validity \in Nat /\ nextUid \in Nat /\ flips \in Nat
         /\ present \in SUBSET Uids /\ seen \in SUBSET present /\ stayed \in SUBSET present
         /\ marked \in SUBSET Uids
<1>1. \A u \in 1..(nextUid - 1) : u \in Uids
  BY Bounds DEF Folder, Uids
<1>2. present \in SUBSET Uids
  BY <1>1 DEF Folder
<1> QED BY <1>2, Bounds DEF Folder

LEMMA InitInv == Init => Inv
<1> SUFFICES ASSUME Init PROVE Inv
  OBVIOUS
<1>1. /\ review = NoReview /\ call = NoCall /\ answer = NoAnswer
      /\ stayed = {} /\ pieces = <<>> /\ marked = {} /\ shown = [u \in Uids |-> 0]
  BY DEF Init
<1>2. Folder
  <2>1. nextUid \in 1..(MaxUid + 1) /\ present \subseteq 1..(nextUid - 1)
    BY DEF Init
  <2>2. validity \in 1..MaxValidity /\ flips \in 0..MaxFlips
    BY Bounds DEF Init
  <2>3. seen = {} /\ server \in Servers /\ short = FALSE /\ touched = FALSE /\ early = FALSE
    BY DEF Init
  <2>4. shown \in [Uids -> {0, 1}] /\ pieces \in Seq(Piece)
    BY <1>1
  <2>5. stayed \subseteq present /\ marked \subseteq Uids
    BY <1>1
  <2> QED BY <2>1, <2>2, <2>3, <2>4, <2>5 DEF Folder
<1>3. Cardinality({}) = 0
  BY FS_EmptySet
<1>4. Calls
  BY <1>1, <1>2, <1>3, NothingTyped, FolderTyped DEF Calls, OfMessage, NoReview, NoCall, Init
<1>5. Peeks /\ Walk /\ Pieces /\ Probe
  BY <1>1, NothingTyped DEF Peeks, Walk, Pieces, Probe, OfMessage
<1> QED BY <1>2, <1>4, <1>5 DEF Inv

----------------------------------------------------------------------------
\* The folder, in the hands of other clients

\* What the client and the call have is left alone.
LEMMA CallsStay ==
  ASSUME Inv, UNCHANGED <<review, call, answer>>, validity' \in Nat, validity <= validity'
  PROVE  Calls'
<1>1. validity \in Nat
  BY FolderTyped DEF Inv
<1> QED BY <1>1, Fields DEF Inv, Calls

LEMMA WalkStays ==
  ASSUME Inv, UNCHANGED <<review, call, answer, shown, short>>, stayed' \in SUBSET stayed
  PROVE  Walk'
BY DEF Inv, Walk, FoundAhead, PageAhead, Ahead

LEMMA PiecesStay ==
  ASSUME Inv, UNCHANGED <<review, call, answer, pieces, early>>
  PROVE  Pieces'
BY DEF Inv, Pieces, BytesFollow, Misled

LEMMA DeliverInv ==
  ASSUME Inv, Deliver
  PROVE  Inv'
<1>1. UNCHANGED <<review, call, answer, shown, short, pieces, early, stayed, validity, marked, touched,
                    seen, server>>
      /\ present' = present \cup {nextUid}
  BY DEF Deliver, history
<1>2. Folder'
  <2>1. nextUid' = nextUid + 1 /\ nextUid <= MaxUid /\ flips' = flips
    BY DEF Deliver
  <2>2. nextUid' \in 1..(MaxUid + 1) /\ \A u \in 1..(nextUid - 1) : u \in 1..(nextUid' - 1)
    BY <2>1, Bounds DEF Inv, Folder
  <2>3. nextUid \in 1..(nextUid' - 1)
    BY <2>1, Bounds DEF Inv, Folder
  <2>4. present' \subseteq 1..(nextUid' - 1)
    BY <1>1, <2>2, <2>3 DEF Inv, Folder
  <2> QED BY <1>1, <2>1, <2>2, <2>4 DEF Inv, Folder
<1>3. Peeks' /\ Probe'
  BY <1>1 DEF Inv, Peeks, Probe
<1> QED BY <1>1, <1>2, <1>3, CallsStay, WalkStays, PiecesStay, FolderTyped DEF Inv

LEMMA ExpungeInv ==
  ASSUME Inv, NEW u \in Uids, Expunge(u)
  PROVE  Inv'
<1>1. /\ UNCHANGED <<review, call, answer, shown, short, pieces, early, validity, nextUid, flips, server,
                    marked>>
      /\ present' = present \ {u} /\ seen' = seen \ {u} /\ stayed' = stayed \ {u}
      /\ touched' = (touched \/ u = call.uid)
  BY DEF Expunge
<1>2. Folder'
  BY <1>1 DEF Inv, Folder
<1>3. Peeks' /\ Probe'
  BY <1>1 DEF Inv, Peeks, Probe
<1> QED BY <1>1, <1>2, <1>3, CallsStay, WalkStays, PiecesStay, FolderTyped DEF Inv

LEMMA FlipSeenInv ==
  ASSUME Inv, NEW u \in Uids, FlipSeen(u)
  PROVE  Inv'
<1>1. /\ UNCHANGED <<review, call, answer, shown, short, pieces, early, stayed, validity, present, nextUid,
                    server, marked>>
      /\ u \in present /\ seen' = IF u \in seen THEN seen \ {u} ELSE seen \cup {u}
      /\ touched' = (touched \/ u = call.uid)
  BY DEF FlipSeen
<1>2. Folder'
  <2>1. flips' \in 0..MaxFlips
    BY Bounds DEF FlipSeen, Inv, Folder
  <2>2. seen' \subseteq present /\ touched' \in BOOLEAN
    BY <1>1 DEF Inv, Folder
  <2> QED BY <1>1, <2>1, <2>2 DEF Inv, Folder
<1>3. Peeks' /\ Probe'
  BY <1>1 DEF Inv, Peeks, Probe
<1> QED BY <1>1, <1>2, <1>3, CallsStay, WalkStays, PiecesStay, FolderTyped DEF Inv

LEMMA RecreateInv ==
  ASSUME Inv, NEW n \in 0..(MaxUid - 1), Recreate(n)
  PROVE  Inv'
<1>1. /\ UNCHANGED <<review, call, answer, shown, short, pieces, early, flips, server>>
      /\ validity' = validity + 1 /\ stayed' = {} /\ touched' = TRUE
  BY DEF Recreate
<1>2. Folder'
  <2>1. validity' \in 1..MaxValidity
    BY <1>1, Bounds DEF Recreate, Inv, Folder
  <2>2. nextUid' = n + 1 /\ present' = 1..n /\ seen' = {} /\ marked' = {}
    BY DEF Recreate
  <2>3. nextUid' \in 1..(MaxUid + 1) /\ present' \subseteq 1..(nextUid' - 1)
    BY <2>2, Bounds
  <2> QED BY <1>1, <2>1, <2>2, <2>3 DEF Inv, Folder
<1>3. Peeks' /\ Probe'
  BY <1>1 DEF Recreate, Peeks, Probe
<1>4. validity' \in Nat /\ validity <= validity'
  BY <1>1, FolderTyped DEF Inv
<1> QED BY <1>1, <1>2, <1>3, <1>4, CallsStay, WalkStays, PiecesStay DEF Inv

----------------------------------------------------------------------------
\* Steps of a call

Under == call.at \notin {"none", "answered"}

\* A call comes to its answer.
LEMMA CallEnds ==
  ASSUME Inv, Under, NEW a \in AnswerShape, Finish(a), UNCHANGED <<review, validity>>,
         a.validity <= validity, Cardinality(a.page) <= review.limit,
         a.code = "ok" => review.expected \in {0, a.validity}
  PROVE  /\ Calls' /\ call'.at = "answered" /\ answer' = a
         /\ call'.uid = call.uid /\ call'.before = call.before
<1>1. call \in CallShape /\ Calls
  BY DEF Inv, Calls
<1>2. call' = [call EXCEPT !.at = "answered"] /\ answer' = a
  BY DEF Finish
<1>3. /\ call' \in CallShape /\ call'.at = "answered" /\ call'.uid = call.uid
      /\ call'.before = call.before /\ call'.validity = call.validity /\ call'.found = call.found
      /\ call'.window = call.window /\ call'.returned = call.returned
  BY <1>1, <1>2 DEF CallShape, Places
<1>4. review.state = "asking"
  BY <1>1 DEF Calls, Under
<1> QED BY <1>1, <1>2, <1>3, <1>4 DEF Calls

\* A call goes on to the next of its places.
LEMMA CallGoesOn ==
  ASSUME Inv, Under, NEW q \in CallShape, call' = q, UNCHANGED <<review, answer, validity>>,
         q.at \notin {"none", "answered"},
         q.at = "found" => review.op = "page",
         q.at \in {"reconnecting", "reopened", "streaming"} => review.op = "attachment",
         q.at \in {"picked", "probing", "probed"} => review.op = "probe",
         review.op = "probe" /\ q.at \in {"connecting", "open"} => q.uid = 0,
         q.validity <= validity,
         q.at # "connecting" => review.expected \in {0, q.validity},
         Cardinality(q.found) <= review.limit + 1, q.returned <= q.window,
         q.at # "streaming" => q.position = 0 /\ q.returned = 0
  PROVE  Calls'
<1>1. Calls /\ review.state = "asking" /\ answer = NoAnswer
  BY DEF Inv, Calls, Under
<1> QED BY <1>1 DEF Calls

LEMMA WalkGoesOn ==
  ASSUME Inv, UNCHANGED <<review, shown, stayed>>, short' \in BOOLEAN, short => short',
         call'.at = "found" => FoundAhead',
         call'.at = "answered" /\ answer'.code = "ok" /\ review.op = "page" => PageAhead'
  PROVE  Walk'
BY DEF Inv, Walk, Ahead

LEMMA PiecesGoOn ==
  ASSUME Inv, UNCHANGED <<review, pieces>>, early' \in BOOLEAN, early => early',
         call'.at = "streaming" =>
           /\ call'.position <= Length[review.uid]
           /\ call'.returned =
                IF call'.position <= review.offset THEN 0 ELSE call'.position - review.offset,
         call'.at = "answered" /\ answer'.code = "ok" /\ review.op # "page" => BytesFollow',
         answer'.code = "RAW_SOURCE_UNAVAILABLE" => review.size # "exact"
  PROVE  Pieces'
<1>1. Misled => Misled'
  BY DEF Misled
<1> QED BY <1>1 DEF Inv, Pieces

\* What a call does to the folder: reading bodies may set the flags of messages that are there.
LEMMA ReadKeepsFolder ==
  ASSUME Inv, NEW us, ReadBodies(us), short' \in BOOLEAN,
         UNCHANGED <<validity, nextUid, flips, present, stayed, server, touched, shown, pieces, early>>
  PROVE  /\ Folder' /\ Peeks'
         /\ seen \subseteq seen' /\ marked \subseteq marked'
<1>1. call.mode = "ro" /\ present \in SUBSET Uids
  BY Fields, FolderTyped DEF Inv
<1>2. Marks <=> server = "ignores EXAMINE"
  BY <1>1 DEF Marks
<1>3. seen' \subseteq present /\ marked' \subseteq Uids
  BY <1>1 DEF ReadBodies, Inv, Folder
<1>4. Peeks'
  BY <1>2 DEF ReadBodies, Inv, Peeks
<1> QED BY <1>3, <1>4 DEF ReadBodies, Inv, Folder

LEMMA FolderKept ==
  ASSUME Inv, UNCHANGED <<folder, server, stayed, shown, pieces, marked>>,
         short' \in BOOLEAN, touched' \in BOOLEAN, early' \in BOOLEAN
  PROVE  Folder' /\ Peeks'
BY DEF Inv, Folder, Peeks, folder

\* A call fails.
LEMMA FailInv ==
  ASSUME Inv, Under, Folder', Peeks', NEW code \in Codes \ {"none", "ok"}, FailWith(code),
         code = "RAW_SOURCE_UNAVAILABLE" => review.size # "exact",
         review.op = "probe" => code # "FLAGS_CHANGED_UNEXPECTEDLY",
         UNCHANGED <<review, validity, shown, stayed, short, pieces, early, touched>>
  PROVE  Inv'
<1> DEFINE a == [NoAnswer EXCEPT !.code = code]
<1>1. Finish(a)
  BY DEF FailWith
<1>2. a \in AnswerShape /\ a.code = code /\ a.page = {} /\ a.validity = 0
  BY NothingTyped DEF AnswerShape
<1> HIDE DEF a
<1>3. a.validity <= validity /\ Cardinality(a.page) <= review.limit
  BY <1>2, Fields, FolderTyped, FS_EmptySet DEF Inv
<1>4. Calls' /\ call'.at = "answered" /\ answer' = a
  BY <1>1, <1>2, <1>3, CallEnds
<1>5. short \in BOOLEAN /\ early \in BOOLEAN
  BY DEF Inv, Folder
<1>6. Walk'
  BY <1>2, <1>4, <1>5, WalkGoesOn
<1>7. Pieces'
  BY <1>2, <1>4, <1>5, PiecesGoOn
<1>8. Probe'
  BY <1>2, <1>4 DEF Probe
<1> QED BY <1>4, <1>6, <1>7, <1>8 DEF Inv

LEMMA FailsInv ==
  ASSUME Inv, Fails
  PROVE  Inv'
<1>1. UNCHANGED <<folder, server, review, history>> /\ Under /\ FailWith("IMAP_ERROR")
  BY DEF Fails, Under
<1>2. Folder' /\ Peeks'
  BY <1>1, FolderKept DEF history, Inv, Folder
<1> QED BY <1>1, <1>2, FailInv DEF folder, history, Codes

\* A call is done with what it has read.
LEMMA DoneCalls ==
  ASSUME Inv, Under, call.at # "connecting", NEW a \in AnswerShape, Done(a),
         UNCHANGED <<review, validity>>, Cardinality(a.page) <= review.limit
  PROVE  /\ Calls' /\ call'.at = "answered" /\ call'.uid = call.uid /\ call'.before = call.before
         /\ answer'.code = "ok" /\ answer'.validity = call.validity /\ answer'.page = a.page
         /\ answer'.next = a.next /\ answer'.from = a.from /\ answer'.to = a.to
         /\ answer'.cut = a.cut
<1> DEFINE b == [a EXCEPT !.code = "ok", !.validity = call.validity]
<1>1. Finish(b)
  BY DEF Done
<1>2. call.validity \in Nat /\ call.validity <= validity /\ review.expected \in {0, call.validity}
  BY Fields DEF Inv, Calls, Under
<1>3. /\ b \in AnswerShape /\ b.code = "ok" /\ b.validity = call.validity /\ b.page = a.page
      /\ b.next = a.next /\ b.from = a.from /\ b.to = a.to /\ b.cut = a.cut
  BY <1>2 DEF AnswerShape, Codes
<1> HIDE DEF b
<1>4. /\ Calls' /\ call'.at = "answered" /\ answer' = b
      /\ call'.uid = call.uid /\ call'.before = call.before
  BY <1>1, <1>2, <1>3, CallEnds
<1> QED BY <1>3, <1>4

LEMMA DoneInv ==
  ASSUME Inv, Folder', Peeks', Calls', call'.at = "answered", answer'.code = "ok",
         UNCHANGED <<review, shown, stayed, pieces>>, short => short', early => early',
         review.op = "page" => PageAhead',
         review.op # "page" => BytesFollow',
         review.op = "probe" /\ ~touched' /\ call'.uid # 0 => call'.before \/ call'.uid \notin marked'
  PROVE  Inv'
<1>1. short' \in BOOLEAN /\ early' \in BOOLEAN
  BY DEF Folder
<1>2. Walk'
  BY <1>1, WalkGoesOn
<1>3. Pieces'
  BY <1>1, PiecesGoOn
<1>4. Probe'
  BY DEF Probe
<1> QED BY <1>2, <1>3, <1>4 DEF Inv

\* A call that opens no search, stream or probe goes on.
LEMMA QuietInv ==
  ASSUME Inv, Calls', call'.at \notin {"found", "streaming", "picked", "probing", "probed", "answered"},
         UNCHANGED <<folder, server, review, answer, history>>
  PROVE  Inv'
<1>1. Folder' /\ Peeks'
  BY FolderKept DEF history, Inv, Folder
<1>2. Walk'
  BY WalkGoesOn DEF history, Inv, Folder
<1>3. answer'.code = "RAW_SOURCE_UNAVAILABLE" => review.size # "exact"
  BY DEF Inv, Pieces
<1>4. Pieces'
  BY <1>3, PiecesGoOn DEF history, Inv, Folder
<1>5. Probe'
  BY DEF Probe
<1> QED BY <1>1, <1>2, <1>4, <1>5 DEF Inv

LEMMA OpenInv ==
  ASSUME Inv, NEW mode \in {"ro", "rw"}, Open(mode)
  PROVE  Inv'
<1>1. /\ UNCHANGED <<folder, server, review, history>> /\ Under
      /\ call.at \in {"connecting", "reconnecting"}
  BY DEF Open, Under
<1>2. Folder' /\ Peeks'
  BY <1>1, FolderKept DEF history, Inv, Folder
<1>3. CASE FailWith("READ_ONLY_INVARIANT_FAILED") \/ FailWith("UIDVALIDITY_CHANGED")
  BY <1>1, <1>2, <1>3, FailInv DEF folder, history, Codes
<1>4. CASE /\ ReadOnly(mode) /\ Current(review.expected)
           /\ call' = [call EXCEPT !.at = IF @ = "connecting" THEN "open" ELSE "reopened",
                                   !.mode = mode, !.validity = validity]
           /\ UNCHANGED answer
  <2> DEFINE q == [call EXCEPT !.at = IF @ = "connecting" THEN "open" ELSE "reopened",
                               !.mode = mode, !.validity = validity]
  <2>1. call \in CallShape /\ mode = "ro" /\ validity \in Nat /\ review.expected \in {0, validity}
    BY <1>4, FolderTyped DEF Inv, Calls, ReadOnly, Current
  <2>2. /\ q \in CallShape /\ q.at = IF call.at = "connecting" THEN "open" ELSE "reopened"
        /\ q.validity = validity /\ q.uid = call.uid /\ q.found = call.found
        /\ q.returned = call.returned /\ q.window = call.window /\ q.position = call.position
    BY <2>1 DEF CallShape, Places
  <2> HIDE DEF q
  <2>3. /\ review.op = "probe" => call.at = "connecting" /\ call.uid = 0
        /\ call.at = "reconnecting" => review.op = "attachment"
        /\ Cardinality(call.found) <= review.limit + 1 /\ call.returned <= call.window
        /\ call.position = 0 /\ call.returned = 0
    BY <1>1 DEF Inv, Calls
  <2>4. call' = q /\ UNCHANGED <<review, answer, validity>>
    BY <1>1, <1>4 DEF q, folder
  <2>5. Calls'
    BY <1>1, <2>1, <2>2, <2>3, <2>4, CallGoesOn
  <2> QED BY <1>1, <1>4, <2>2, <2>4, <2>5, QuietInv
<1> QED BY <1>3, <1>4 DEF Open

LEMMA ListPartsInv ==
  ASSUME Inv, ListParts
  PROVE  Inv'
<1>1. /\ UNCHANGED <<folder, server, review, history>> /\ Under /\ call.at = "open"
      /\ review.op = "attachment"
  BY DEF ListParts, Under, Working
<1>2. Folder' /\ Peeks'
  BY <1>1, FolderKept DEF history, Inv, Folder
<1>3. CASE FailWith("MESSAGE_NOT_FOUND")
  BY <1>1, <1>2, <1>3, FailInv DEF folder, history, Codes
<1>4. CASE call' = [call EXCEPT !.at = "reconnecting"] /\ UNCHANGED answer
  <2> DEFINE q == [call EXCEPT !.at = "reconnecting"]
  <2>1. call \in CallShape
    BY DEF Inv, Calls
  <2>2. /\ q \in CallShape /\ q.at = "reconnecting" /\ q.validity = call.validity
        /\ q.found = call.found /\ q.returned = call.returned /\ q.window = call.window
        /\ q.position = call.position
    BY <2>1 DEF CallShape, Places
  <2> HIDE DEF q
  <2>3. /\ Cardinality(call.found) <= review.limit + 1 /\ call.returned <= call.window
        /\ call.position = 0 /\ call.returned = 0
        /\ review.expected \in {0, call.validity} /\ call.validity <= validity
    BY <1>1 DEF Inv, Calls
  <2>4. call' = q /\ UNCHANGED <<review, answer, validity>>
    BY <1>1, <1>4 DEF q, folder
  <2>5. Calls'
    BY <1>1, <2>2, <2>3, <2>4, CallGoesOn
  <2> QED BY <1>1, <1>4, <2>2, <2>4, <2>5, QuietInv
<1> QED BY <1>3, <1>4 DEF ListParts

\* A search finds the newest messages ahead of the cursor, or none when there are none.
LEMMA SearchInv ==
  ASSUME Inv, NEW result \in SearchAnswers, Search(result)
  PROVE  Inv'
<1> DEFINE us         == Eligible(review.before)
           candidates == IF result = "refused" THEN {} ELSE Newest(us, review.limit + 1)
<1>1. /\ UNCHANGED <<folder, server, review, stayed, shown, pieces, early, marked, touched>>
      /\ Under /\ call.at = "open" /\ review.op = "page" /\ short' = (short \/ result = "refused")
      /\ IF candidates = {} THEN Done(NoAnswer)
         ELSE call' = [call EXCEPT !.at = "found", !.found = candidates] /\ UNCHANGED answer
  BY DEF Search, Under, Working
<1>2. Folder' /\ Peeks'
  BY <1>1, FolderKept DEF Inv, Folder
<1>3. /\ us \in SUBSET Uids /\ review.limit \in Nat \ {0} /\ review.limit + 1 \in Nat
      /\ \A u \in us : Ahead(u)
  BY Fields, FolderTyped DEF Inv, Eligible, Ahead
<1>4. /\ Newest(us, review.limit + 1) \in SUBSET us
      /\ Cardinality(Newest(us, review.limit + 1)) <= review.limit + 1
  BY <1>3, NewestAreFew
<1>5. \A u \in stayed : shown[u] = 1 \/ u \in us \/ short
  BY <1>1, FolderTyped DEF Inv, Walk, Eligible, Ahead
<1>6. review.state = "asking"
  BY <1>1 DEF Inv, Calls
<1>7. CASE candidates = {}
  <2>1. Done(NoAnswer) /\ UNCHANGED <<review, validity>>
    BY <1>1, <1>7 DEF folder
  <2>2. /\ Calls' /\ call'.at = "answered" /\ answer'.code = "ok"
        /\ answer'.page = {} /\ answer'.next = 0
    <3>1. NoAnswer \in AnswerShape /\ Cardinality(NoAnswer.page) <= review.limit
      BY <1>3, NothingTyped, FS_EmptySet
    <3> QED BY <1>1, <2>1, <3>1, NothingTyped, DoneCalls
  <2>3. short' \/ us = {}
    <3>1. CASE result = "refused"
      BY <1>1, <3>1
    <3>2. CASE result # "refused"
      <4>1. Newest(us, review.limit + 1) = {}
        BY <1>7, <3>2
      <4>2. us # {} => Cardinality({}) = review.limit + 1
        BY <1>3, <4>1, NewestAreEnough
      <4>3. Cardinality({}) = 0 /\ review.limit + 1 # 0
        BY <1>3, FS_EmptySet
      <4> QED BY <4>2, <4>3
    <3> QED BY <3>1, <3>2
  <2>4. PageAhead'
    BY <1>1, <1>5, <2>2, <2>3 DEF PageAhead
  <2>5. short => short'
    BY <1>1
  <2> QED BY <1>1, <1>2, <2>2, <2>4, <2>5, DoneInv
<1>8. CASE candidates # {}
  <2> DEFINE q == [call EXCEPT !.at = "found", !.found = candidates]
  <2>1. candidates = Newest(us, review.limit + 1) /\ candidates \in SUBSET Uids /\ result # "refused"
    BY <1>3, <1>4, <1>8
  <2>2. call \in CallShape /\ call.returned <= call.window /\ call.validity <= validity
        /\ review.expected \in {0, call.validity} /\ call.position = 0 /\ call.returned = 0
    BY <1>1 DEF Inv, Calls
  <2> HIDE DEF candidates, us
  <2>3. /\ q \in CallShape /\ q.at = "found" /\ q.found = candidates /\ q.validity = call.validity
        /\ q.returned = call.returned /\ q.window = call.window /\ q.position = call.position
    BY <2>1, <2>2 DEF CallShape, Places
  <2>4. call' = q /\ UNCHANGED <<answer, validity, review>>
    BY <1>1, <1>8 DEF folder
  <2> HIDE DEF q
  <2>5. Calls'
    BY <1>1, <1>4, <2>1, <2>2, <2>3, <2>4, CallGoesOn
  <2>6. FoundAhead'
    <3>1. \A u \in call'.found : Ahead(u)'
      BY <1>1, <1>3, <1>4, <2>1, <2>3, <2>4 DEF Ahead
    <3>2. ASSUME ~short, NEW u \in stayed
          PROVE  \/ shown[u] = 1
                 \/ u \in candidates
                 \/ Cardinality(candidates) = review.limit + 1 /\ \A v \in candidates : u < v
      <4>1. CASE u \in us \ candidates
        <5>1. Newest(us, review.limit + 1) # us
          BY <2>1, <4>1
        <5>2. Cardinality(candidates) = review.limit + 1
          BY <1>3, <2>1, <5>1, NewestAreEnough
        <5>3. \A v \in candidates : u < v
          BY <1>3, <2>1, <4>1, NewestOnTop
        <5> QED BY <5>2, <5>3
      <4> QED BY <1>5, <3>2, <4>1
    <3> QED BY <1>1, <2>3, <2>4, <3>1, <3>2 DEF FoundAhead
  <2>7. short' \in BOOLEAN /\ (short => short')
    BY <1>1, <1>2 DEF Folder
  <2>8. Walk'
    BY <1>1, <2>3, <2>4, <2>6, <2>7, WalkGoesOn
  <2>9. Pieces'
    <3>1. answer'.code = "RAW_SOURCE_UNAVAILABLE" => review.size # "exact"
      BY <2>4 DEF Inv, Pieces
    <3>2. early \in BOOLEAN
      BY DEF Inv, Folder
    <3> QED BY <1>1, <2>3, <2>4, <3>1, <3>2, PiecesGoOn
  <2>10. Probe'
    BY <2>3, <2>4 DEF Probe
  <2> QED BY <1>2, <2>5, <2>8, <2>9, <2>10 DEF Inv
<1> QED BY <1>7, <1>8

\* A page is the newest of what was found and is still there; its cursor is its oldest.
LEMMA FetchInv ==
  ASSUME Inv, Fetch
  PROVE  Inv'
<1> DEFINE fetched == call.found \cap present
           page    == Newest(fetched, review.limit)
           next    == NextBefore(fetched, page)
           a       == [NoAnswer EXCEPT !.page = page, !.next = next]
<1>1. /\ UNCHANGED <<validity, present, nextUid, flips, server, review, stayed, shown, pieces, early,
                     touched>>
      /\ Under /\ call.at = "found" /\ review.op = "page" /\ Done(a) /\ ReadBodies(fetched)
      /\ short' = (short \/ fetched # call.found)
  BY DEF Fetch, Under, Working, Inv, Calls
<1>2. Folder' /\ Peeks'
  <2>1. short' \in BOOLEAN
    BY <1>1 DEF Inv, Folder
  <2> QED BY <1>1, <2>1, ReadKeepsFolder
<1>3. /\ fetched \in SUBSET Uids /\ review.limit \in Nat \ {0} /\ fetched \subseteq call.found
      /\ Cardinality(fetched) \in Nat
  BY Fields, FiniteUids DEF Inv
<1>4. page \in SUBSET fetched /\ Cardinality(page) <= review.limit
  BY <1>3, NewestAreFew
<1>5. FoundAhead
  BY <1>1 DEF Inv, Walk
<1> HIDE DEF page
<1>6. Cardinality(fetched) > review.limit =>
        /\ page # {} /\ next = Lowest(page) /\ next \in page /\ \A u \in page : next <= u
  <2>1. SUFFICES ASSUME Cardinality(fetched) > review.limit
                 PROVE  /\ page # {} /\ next = Lowest(page) /\ next \in page
                        /\ \A u \in page : next <= u
    OBVIOUS
  <2>2. page # fetched
    BY <1>3, <1>4, <2>1
  <2>3. Cardinality(page) = review.limit
    BY <1>3, <2>2, NewestAreEnough DEF page
  <2>4. page # {}
    BY <1>3, <2>3, FS_EmptySet
  <2>5. page \in SUBSET Nat
    BY <1>3, <1>4, FiniteUids
  <2> QED BY <2>1, <2>4, <2>5, LowestIsLeast DEF NextBefore
<1>7. ~(Cardinality(fetched) > review.limit) => next = 0 /\ page = fetched
  <2>1. ~(Cardinality(fetched) > review.limit) => page = fetched
    BY <1>3, NewestAreEnough DEF page
  <2> QED BY <2>1 DEF NextBefore
<1>8. next \in Nat /\ (next # 0 => next \in page) /\ \A u \in page : next = 0 \/ next <= u
  <2>1. page \in SUBSET Nat
    BY <1>3, <1>4, FiniteUids
  <2>2. CASE Cardinality(fetched) > review.limit
    <3>1. next \in page /\ \A u \in page : next <= u
      BY <1>6, <2>2
    <3> HIDE DEF next
    <3> QED BY <2>1, <3>1
  <2>3. CASE ~(Cardinality(fetched) > review.limit)
    <3>1. next = 0
      BY <1>7, <2>3
    <3> HIDE DEF next
    <3> QED BY <3>1
  <2> QED BY <2>2, <2>3
<1>9. ASSUME ~short, fetched = call.found, NEW u \in stayed
      PROVE  shown[u] = 1 \/ u \in page \/ (next # 0 /\ u < next)
  <2>1. 0 \notin page /\ \A v \in page : v \in call.found
    BY <1>3, <1>4, Bounds DEF Uids
  <2>2. CASE u \in fetched \ page
    <3>1. page # fetched
      BY <2>2
    <3>2. Cardinality(fetched) > review.limit
      BY <1>3, <1>7, <3>1
    <3>3. \A v \in page : u < v
      BY <1>3, <2>2, NewestOnTop DEF page
    <3> QED BY <1>6, <2>1, <3>2, <3>3
  <2>3. CASE Cardinality(call.found) = review.limit + 1 /\ \A v \in call.found : u < v
    <3>1. Cardinality(fetched) > review.limit
      BY <1>3, <1>9, <2>3
    <3> QED BY <1>6, <2>1, <2>3, <3>1
  <2> QED BY <1>5, <1>9, <2>2, <2>3 DEF FoundAhead
<1>10. a \in AnswerShape /\ a.page = page /\ a.next = next
  <2>1. page \in SUBSET Uids
    BY <1>3, <1>4
  <2> HIDE DEF next
  <2> QED BY <1>8, <2>1, NothingTyped DEF AnswerShape
<1> HIDE DEF a, next, fetched
<1>11. /\ Calls' /\ call'.at = "answered" /\ answer'.code = "ok"
       /\ answer'.page = page /\ answer'.next = next
  <2>1. UNCHANGED <<review, validity>>
    BY <1>1
  <2> QED BY <1>1, <1>4, <1>10, <2>1, DoneCalls
<1>12. PageAhead'
  <2>1. \A u \in page : Ahead(u)' /\ (next = 0 \/ next <= u)
    BY <1>1, <1>3, <1>4, <1>5, <1>8 DEF FoundAhead, Ahead
  <2>2. ~short' => \A u \in stayed' : shown'[u] = 1 \/ u \in page \/ (next # 0 /\ u < next)
    BY <1>1, <1>9
  <2> QED BY <1>8, <1>11, <2>1, <2>2 DEF PageAhead
<1>13. short => short'
  BY <1>1
<1> QED BY <1>1, <1>2, <1>11, <1>12, <1>13, DoneInv

\* The message is answered up to the bound of a source, or is gone.
LEMMA FetchMessageInv ==
  ASSUME Inv, FetchMessage
  PROVE  Inv'
<1> DEFINE total == Length[review.uid]
           bytes == Earlier(SourceMax, total)
           cut   == review.size # "unknown" /\ bytes < Reported(review.uid)
           a     == [NoAnswer EXCEPT !.to = bytes, !.cut = cut]
<1>1. /\ UNCHANGED <<validity, present, nextUid, flips, server, review, stayed, shown, short, pieces,
                     early, touched>>
      /\ Under /\ call.at = "open" /\ review.op = "message" /\ ReadBodies({review.uid})
      /\ IF review.uid \in present THEN Done(a) ELSE FailWith("MESSAGE_NOT_FOUND")
  BY DEF FetchMessage, Under, Working
<1>2. Folder' /\ Peeks'
  <2>1. short \in BOOLEAN
    BY DEF Inv, Folder
  <2> QED BY <1>1, <2>1, ReadKeepsFolder
<1>3. CASE FailWith("MESSAGE_NOT_FOUND")
  BY <1>1, <1>2, <1>3, FailInv DEF Codes
<1>4. CASE Done(a)
  <2>1. review.uid \in Uids /\ review.offset = 0 /\ review.limit \in Nat /\ review.size \in Sizes
    BY <1>1, Fields DEF Inv, Calls, OfMessage
  <2>2. total \in Nat /\ SourceMax \in Nat
    BY <2>1, LengthsAreNatural, InputsArePositive
  <2>3. bytes \in Nat /\ bytes <= total
    BY <2>2 DEF Earlier
  <2>4. bytes = total \/ cut \/ Misled
    <3>1. CASE review.size \in {"unknown", "understated"}
      BY <1>1, <3>1 DEF Misled
    <3>2. CASE review.size = "exact"
      BY <2>2, <2>3, <3>2 DEF Reported
    <3>3. CASE review.size = "overstated"
      BY <2>2, <2>3, <3>3 DEF Reported
    <3> QED BY <2>1, <3>1, <3>2, <3>3 DEF Sizes
  <2>5. cut /\ review.size = "exact" => bytes < total
    BY DEF Reported
  <2>6. cut \in BOOLEAN
    OBVIOUS
  <2> HIDE DEF cut, bytes, total
  <2>7. /\ a \in AnswerShape /\ a.page = {} /\ a.next = 0 /\ a.from = 0 /\ a.to = bytes
        /\ a.cut = cut
    BY <2>3, <2>6, NothingTyped DEF AnswerShape
  <2> HIDE DEF a
  <2>8. Cardinality(a.page) <= review.limit
    BY <2>1, <2>7, FS_EmptySet
  <2>9. /\ Calls' /\ call'.at = "answered" /\ answer'.code = "ok"
        /\ answer'.next = 0 /\ answer'.from = 0 /\ answer'.to = bytes /\ answer'.cut = cut
    BY <1>1, <1>4, <2>7, <2>8, DoneCalls
  <2>10. Misled' <=> Misled
    BY <1>1 DEF Misled
  <2>11. BytesFollow'
    BY <1>1, <2>1, <2>3, <2>4, <2>5, <2>9, <2>10 DEF BytesFollow, total
  <2> QED BY <1>1, <1>2, <2>9, <2>11, DoneInv
<1> QED BY <1>1, <1>3, <1>4

----------------------------------------------------------------------------
\* Bytes

\* A range of the raw source goes on where the client is, and comes to the end of the message
\* unless the server reports too small a size.
LEMMA FetchRangeInv ==
  ASSUME Inv, FetchRange
  PROVE  Inv'
<1> DEFINE total     == Length[review.uid]
           bytes     == Earlier(call.window, Later(total, review.offset) - review.offset)
           delivered == NextOffset(review.offset, bytes)
           more      == More(delivered, bytes, Reported(review.uid))
           next      == IF more THEN delivered ELSE 0
           a         == [NoAnswer EXCEPT !.from = review.offset, !.to = review.offset + bytes,
                                         !.next = next]
<1>1. /\ UNCHANGED <<validity, present, nextUid, flips, server, review, stayed, shown, short, pieces,
                     early, touched>>
      /\ Under /\ call.at = "open" /\ review.op = "raw" /\ ReadBodies({review.uid})
      /\ IF review.uid \notin present THEN FailWith("MESSAGE_NOT_FOUND")
         ELSE IF bytes = 0 /\ (review.size = "unknown" \/ more) THEN FailWith("RAW_SOURCE_UNAVAILABLE")
         ELSE Done(a)
  BY DEF FetchRange, Under, Working
<1>2. Folder' /\ Peeks'
  <2>1. short \in BOOLEAN
    BY DEF Inv, Folder
  <2> QED BY <1>1, <2>1, ReadKeepsFolder
<1>3. /\ review.uid \in Uids /\ review.offset \in Nat /\ call.window \in Nat \ {0}
      /\ review.offset <= total /\ review.size \in Sizes /\ review.limit \in Nat
  BY <1>1, Fields DEF Inv, Calls, Pieces, OfMessage
<1>4. total \in Nat
  BY <1>3, LengthsAreNatural
<1> HIDE DEF total
<1>5. Later(total, review.offset) = total
  BY <1>3, <1>4 DEF Later
<1>6. /\ bytes \in Nat /\ bytes <= call.window /\ review.offset + bytes <= total
      /\ bytes = call.window \/ review.offset + bytes = total
      /\ bytes = 0 => review.offset = total
  BY <1>3, <1>4, <1>5 DEF Earlier
<1> HIDE DEF bytes
<1>7. delivered = review.offset + bytes /\ delivered \in Nat
  BY <1>3, <1>6 DEF NextOffset
<1> HIDE DEF delivered
<1>8. review.size = "exact" => (more <=> delivered < total)
  BY DEF More, Reported, total
<1>9. ~more => delivered = total \/ review.size = "understated"
  <2>1. CASE review.size = "unknown"
    BY <1>3, <1>4, <1>6, <1>7, <2>1 DEF More
  <2>2. CASE review.size = "overstated"
    BY <1>3, <1>4, <1>6, <1>7, <2>2 DEF More, Reported, total
  <2>3. CASE review.size = "exact"
    BY <1>3, <1>4, <1>6, <1>7, <1>8, <2>3
  <2>4. CASE review.size = "understated"
    BY <2>4
  <2> QED BY <1>3, <2>1, <2>2, <2>3, <2>4 DEF Sizes
<1>10. more /\ review.size = "exact" => bytes # 0
  BY <1>3, <1>4, <1>6, <1>7, <1>8
<1>11. bytes = 0 /\ review.size = "unknown" => review.size # "exact"
  OBVIOUS
<1> HIDE DEF more
<1>12. CASE FailWith("MESSAGE_NOT_FOUND")
  BY <1>1, <1>2, <1>12, FailInv DEF Codes
<1>13. CASE bytes = 0 /\ (review.size = "unknown" \/ more) /\ FailWith("RAW_SOURCE_UNAVAILABLE")
  <2>1. review.size # "exact"
    BY <1>10, <1>13
  <2> QED BY <1>1, <1>2, <1>13, <2>1, FailInv DEF Codes
<1>14. CASE ~(bytes = 0 /\ (review.size = "unknown" \/ more)) /\ Done(a)
  <2>1. next \in Nat /\ review.offset + bytes \in Nat
    BY <1>3, <1>6, <1>7
  <2>2. next # 0 => next = review.offset + bytes /\ next > review.offset
    BY <1>3, <1>6, <1>7, <1>14
  <2>3. next = 0 => review.offset + bytes = total \/ review.size = "understated"
    <3>1. CASE more
      BY <1>3, <1>6, <1>7, <1>14, <3>1
    <3>2. CASE ~more
      BY <1>7, <1>9, <3>2
    <3> QED BY <3>1, <3>2
  <2> HIDE DEF next
  <2>4. /\ a \in AnswerShape /\ a.page = {} /\ a.next = next /\ a.from = review.offset
        /\ a.to = review.offset + bytes /\ a.cut = FALSE
    BY <1>3, <2>1, NothingTyped DEF AnswerShape
  <2> HIDE DEF a
  <2>5. Cardinality(a.page) <= review.limit
    BY <1>3, <2>4, FS_EmptySet
  <2>6. /\ Calls' /\ call'.at = "answered" /\ answer'.code = "ok"
        /\ answer'.next = next /\ answer'.from = review.offset /\ answer'.to = review.offset + bytes
        /\ answer'.cut = FALSE
    BY <1>1, <1>14, <2>4, <2>5, DoneCalls
  <2>7. BytesFollow'
    BY <1>1, <1>6, <2>2, <2>3, <2>6 DEF BytesFollow, Misled, total
  <2> QED BY <1>1, <1>2, <2>6, <2>7, DoneInv
<1> QED BY <1>1, <1>12, <1>13, <1>14

LEMMA DownloadInv ==
  ASSUME Inv, Download
  PROVE  Inv'
<1>1. /\ UNCHANGED <<validity, present, nextUid, flips, server, review, stayed, shown, short, pieces,
                     early, touched>>
      /\ Under /\ call.at = "reopened" /\ ReadBodies({review.uid})
  BY DEF Download, Under, Working
<1>2. Folder' /\ Peeks'
  <2>1. short \in BOOLEAN
    BY DEF Inv, Folder
  <2> QED BY <1>1, <2>1, ReadKeepsFolder
<1>3. review.op = "attachment"
  BY <1>1 DEF Inv, Calls
<1>4. CASE FailWith("MESSAGE_NOT_FOUND")
  BY <1>1, <1>2, <1>3, <1>4, FailInv DEF Codes
<1>5. CASE call' = [call EXCEPT !.at = "streaming"] /\ UNCHANGED answer
  <2> DEFINE q == [call EXCEPT !.at = "streaming"]
  <2>1. /\ call \in CallShape /\ call.position = 0 /\ call.returned = 0 /\ call.validity <= validity
        /\ review.expected \in {0, call.validity} /\ review.uid \in Uids
        /\ Cardinality(call.found) <= review.limit + 1 /\ review.offset \in Nat
    BY <1>1, <1>3, Fields DEF Inv, Calls, OfMessage
  <2>2. /\ q \in CallShape /\ q.at = "streaming" /\ q.validity = call.validity
        /\ q.found = call.found /\ q.position = 0 /\ q.returned = 0 /\ q.window \in Nat
    BY <2>1 DEF CallShape, Places
  <2>3. call' = q
    BY <1>5
  <2> HIDE DEF q
  <2>4. Calls'
    BY <1>1, <1>3, <1>5, <2>1, <2>2, <2>3, CallGoesOn
  <2>5. Length[review.uid] \in Nat
    BY <2>1, LengthsAreNatural
  <2>6. Pieces'
    <3>1. answer'.code = "RAW_SOURCE_UNAVAILABLE" => review.size # "exact"
      BY <1>5 DEF Inv, Pieces
    <3>2. early \in BOOLEAN
      BY DEF Inv, Folder
    <3> QED BY <1>1, <2>1, <2>2, <2>3, <2>5, <3>1, <3>2, PiecesGoOn
  <2>7. Walk'
    BY <1>1, <1>2, <2>2, <2>3, WalkGoesOn DEF Folder
  <2>8. Probe'
    BY <2>2, <2>3 DEF Probe
  <2> QED BY <1>2, <2>4, <2>6, <2>7, <2>8 DEF Inv
<1> QED BY <1>4, <1>5 DEF Download

\* A stream is done at the end of the window or of the message, or where the server ends it.
LEMMA DeliveredInv ==
  ASSUME Inv, call.at = "streaming", early' \in BOOLEAN, early => early',
         UNCHANGED <<folder, server, review, stayed, shown, short, pieces, marked, touched>>,
         NEW n \in Nat, NEW more \in BOOLEAN, Delivered(n, more),
         review.offset + n <= Length[review.uid], more => n # 0,
         ~more => review.offset + n = Length[review.uid] \/ early'
  PROVE  Inv'
<1> DEFINE next == IF more THEN NextOffset(review.offset, n) ELSE 0
           a    == [NoAnswer EXCEPT !.from = review.offset, !.to = review.offset + n, !.next = next]
<1>1. Done(a)
  BY DEF Delivered
<1>2. /\ review.op = "attachment" /\ review.uid \in Uids /\ review.offset \in Nat
      /\ review.limit \in Nat
  BY Fields DEF Inv, Calls, OfMessage
<1>3. Length[review.uid] \in Nat
  BY <1>2, LengthsAreNatural
<1>4. /\ next \in Nat /\ review.offset + n \in Nat
      /\ next # 0 => more /\ next = review.offset + n /\ next > review.offset
      /\ next = 0 => ~more
  BY <1>2 DEF NextOffset
<1> HIDE DEF next
<1>5. /\ a \in AnswerShape /\ a.page = {} /\ a.next = next /\ a.from = review.offset
      /\ a.to = review.offset + n /\ a.cut = FALSE
  BY <1>2, <1>4, NothingTyped DEF AnswerShape
<1> HIDE DEF a
<1>6. Cardinality(a.page) <= review.limit
  BY <1>2, <1>5, FS_EmptySet
<1>7. /\ Calls' /\ call'.at = "answered" /\ answer'.code = "ok"
      /\ answer'.next = next /\ answer'.from = review.offset /\ answer'.to = review.offset + n
      /\ answer'.cut = FALSE
  BY <1>1, <1>5, <1>6, DoneCalls DEF Under, folder
<1>8. BytesFollow'
  BY <1>2, <1>3, <1>4, <1>7 DEF BytesFollow, Misled
<1>9. Folder' /\ Peeks'
  BY FolderKept DEF Inv, Folder
<1> QED BY <1>2, <1>7, <1>8, <1>9, DoneInv

\* A buffer is left out up to the offset, kept up to the window, or shows that there is more.
LEMMA StreamBytesInv ==
  ASSUME Inv, NEW n \in Nat \ {0}, StreamBytes(n)
  PROVE  Inv'
<1> DEFINE skipped   == Earlier(n, Later(review.offset, call.position) - call.position)
           available == n - skipped
           remaining == call.window - call.returned
<1>1. /\ UNCHANGED <<folder, server, review, history>> /\ call.at = "streaming"
      /\ n \in 1..(Length[review.uid] - call.position)
      /\ IF available > 0 /\ Overflows(available, remaining) THEN Delivered(call.window, TRUE)
         ELSE /\ call' = [call EXCEPT !.position = @ + n, !.returned = @ + available]
              /\ UNCHANGED answer
  BY DEF StreamBytes
<1>2. /\ review.op = "attachment" /\ review.uid \in Uids /\ review.offset \in Nat
      /\ call.window \in Nat \ {0} /\ call.position \in Nat /\ call.returned \in Nat
      /\ call.returned <= call.window
      /\ review.offset <= Length[review.uid]
      /\ call.returned = IF call.position <= review.offset THEN 0 ELSE call.position - review.offset
  BY <1>1, Fields DEF Inv, Calls, Pieces, OfMessage
<1>3. Length[review.uid] \in Nat
  BY <1>2, LengthsAreNatural
<1> DEFINE total == Length[review.uid]
<1>4. call.position + n <= total
  BY <1>1, <1>2, <1>3
<1>5. /\ available \in Nat
      /\ call.returned + available =
           IF call.position + n <= review.offset THEN 0 ELSE (call.position + n) - review.offset
  BY <1>2 DEF Earlier, Later
<1> HIDE DEF available
<1>6. CASE available > 0 /\ Overflows(available, remaining)
  <2>1. review.offset + call.window <= total
    BY <1>2, <1>3, <1>4, <1>5, <1>6 DEF Overflows
  <2>2. early \in BOOLEAN
    BY DEF Inv, Folder
  <2> QED BY <1>1, <1>2, <1>6, <2>1, <2>2, DeliveredInv DEF history
<1>7. CASE ~(available > 0 /\ Overflows(available, remaining))
  <2> DEFINE position == call.position + n
             returned == call.returned + available
             q == [call EXCEPT !.position = position, !.returned = returned]
  <2>1. position \in Nat /\ returned \in Nat /\ returned <= call.window
    BY <1>2, <1>5, <1>7 DEF Overflows
  <2>2. call' = q /\ UNCHANGED answer
    BY <1>1, <1>7
  <2> HIDE DEF position, returned
  <2>3. /\ call \in CallShape /\ call.validity <= validity /\ review.expected \in {0, call.validity}
        /\ Cardinality(call.found) <= review.limit + 1
    BY <1>1 DEF Inv, Calls
  <2>4. /\ q \in CallShape /\ q.at = "streaming" /\ q.validity = call.validity
        /\ q.found = call.found /\ q.position = position /\ q.returned = returned
        /\ q.window = call.window
    BY <1>1, <2>1, <2>3 DEF CallShape
  <2> HIDE DEF q
  <2>5. Calls'
    BY <1>1, <1>2, <2>1, <2>2, <2>3, <2>4, CallGoesOn DEF Under, folder
  <2>6. Folder' /\ Peeks'
    BY <1>1, FolderKept DEF history, Inv, Folder
  <2>7. Pieces'
    <3>1. answer'.code = "RAW_SOURCE_UNAVAILABLE" => review.size # "exact"
      BY <2>2 DEF Inv, Pieces
    <3>2. call'.position = call.position + n /\ call'.returned = call.returned + available
      BY <2>2, <2>4 DEF position, returned
    <3>3. /\ call'.position <= Length[review.uid]
          /\ call'.returned =
               IF call'.position <= review.offset THEN 0 ELSE call'.position - review.offset
      <4>1. call'.position <= Length[review.uid]
        BY <1>4, <3>2
      <4>2. call'.returned =
              IF call'.position <= review.offset THEN 0 ELSE call'.position - review.offset
        <5>1. call'.returned = IF position <= review.offset THEN 0 ELSE position - review.offset
          <6>1. returned = IF position <= review.offset THEN 0 ELSE position - review.offset
            BY <1>5 DEF position, returned
          <6> QED BY <6>1, <2>2, <2>4
        <5>2. call'.position = position
          BY <2>2, <2>4
        <5> QED BY <5>1, <5>2
      <4> QED BY <4>1, <4>2
    <3> QED BY <1>1, <2>2, <2>4, <3>1, <3>3, PiecesGoOn DEF history, Inv, Folder
  <2>8. Walk'
    BY <1>1, <2>2, <2>4, <2>6, WalkGoesOn DEF history, Folder
  <2>9. Probe'
    BY <2>2, <2>4 DEF Probe
  <2> QED BY <2>5, <2>6, <2>7, <2>8, <2>9 DEF Inv
<1> QED BY <1>6, <1>7

LEMMA StreamEndsInv ==
  ASSUME Inv, StreamEnds
  PROVE  Inv'
<1>1. /\ UNCHANGED <<folder, server, review, stayed, shown, short, pieces, marked, touched>>
      /\ call.at = "streaming" /\ Delivered(call.returned, FALSE)
      /\ early' = (early \/ call.position < Length[review.uid])
  BY DEF StreamEnds
<1>2. /\ review.op = "attachment" /\ review.offset \in Nat /\ review.uid \in Uids
      /\ call.position \in Nat /\ call.returned \in Nat /\ review.offset <= Length[review.uid]
      /\ call.position <= Length[review.uid] /\ early \in BOOLEAN
      /\ call.returned = IF call.position <= review.offset THEN 0 ELSE call.position - review.offset
  BY <1>1, Fields DEF Inv, Folder, Calls, Pieces, OfMessage
<1>3. Length[review.uid] \in Nat
  BY <1>2, LengthsAreNatural
<1>4. review.offset + call.returned <= Length[review.uid]
  BY <1>2, <1>3
<1>5. review.offset + call.returned = Length[review.uid] \/ call.position < Length[review.uid]
  BY <1>2, <1>3
<1>6. early' \in BOOLEAN /\ (early => early')
      /\ (review.offset + call.returned = Length[review.uid] \/ early')
  BY <1>1, <1>2, <1>5
<1> QED BY <1>1, <1>2, <1>4, <1>6, DeliveredInv

----------------------------------------------------------------------------
\* The probe of the peek

LEMMA ProbeSearchInv ==
  ASSUME Inv, NEW result \in SearchAnswers, ProbeSearch(result)
  PROVE  Inv'
<1>1. /\ UNCHANGED <<folder, server, review, stayed, shown, short, pieces, early, marked>>
      /\ Under /\ call.at = "open" /\ review.op = "probe" /\ touched' = FALSE
      /\ \/ Done(NoAnswer)
         \/ /\ \E u \in Newest(present, 1) : call' = [call EXCEPT !.at = "picked", !.uid = u]
            /\ UNCHANGED answer
  BY DEF ProbeSearch, Under, Working
<1>2. Folder' /\ Peeks' /\ early \in BOOLEAN
  BY <1>1, FolderKept DEF Inv, Folder
<1>3. /\ call \in CallShape /\ call.uid = 0 /\ review.limit \in Nat /\ review.offset = 0
      /\ call.validity <= validity /\ review.expected \in {0, call.validity}
      /\ Cardinality(call.found) <= review.limit + 1 /\ call.returned <= call.window
      /\ call.position = 0 /\ call.returned = 0
  BY <1>1, Fields DEF Inv, Calls
<1>4. CASE Done(NoAnswer)
  <2>1. UNCHANGED <<review, validity>>
    BY <1>1 DEF folder
  <2>2. NoAnswer \in AnswerShape /\ Cardinality(NoAnswer.page) <= review.limit
    BY <1>3, NothingTyped, FS_EmptySet
  <2>3. /\ Calls' /\ call'.at = "answered" /\ answer'.code = "ok" /\ call'.uid = 0
        /\ answer'.next = 0 /\ answer'.from = 0
    BY <1>1, <1>3, <1>4, <2>1, <2>2, NothingTyped, DoneCalls
  <2>4. BytesFollow'
    BY <1>1, <1>3, <2>3 DEF BytesFollow, OfMessage
  <2> QED BY <1>1, <1>2, <2>3, <2>4, DoneInv
<1>5. ASSUME NEW u \in Newest(present, 1), call' = [call EXCEPT !.at = "picked", !.uid = u],
             UNCHANGED answer
      PROVE  Inv'
  <2> DEFINE q == [call EXCEPT !.at = "picked", !.uid = u]
  <2>1. u \in present
    BY FolderTyped, NewestAreFew DEF Inv
  <2>2. u \in 0..MaxUid
    BY <2>1, FolderTyped, Bounds DEF Inv, Uids
  <2>3. call' = q
    BY <1>5
  <2>4. /\ q \in CallShape /\ q.at = "picked" /\ q.uid = u
        /\ q.validity = call.validity /\ q.found = call.found /\ q.returned = 0 /\ q.position = 0
        /\ q.window = call.window
    BY <1>3, <2>2 DEF CallShape, Places
  <2> HIDE DEF q
  <2>5. Calls'
    BY <1>1, <1>3, <1>5, <2>3, <2>4, CallGoesOn DEF folder
  <2>6. Walk'
    BY <1>1, <1>2, <1>5, <2>3, <2>4, WalkGoesOn DEF Folder
  <2>7. Pieces'
    <3>1. answer'.code = "RAW_SOURCE_UNAVAILABLE" => review.size # "exact"
      BY <1>5 DEF Inv, Pieces
    <3> QED BY <1>1, <1>2, <1>5, <2>3, <2>4, <3>1, PiecesGoOn
  <2>8. Probe'
    BY <1>1, <2>1, <2>3, <2>4 DEF Probe, folder
  <2> QED BY <1>2, <2>5, <2>6, <2>7, <2>8 DEF Inv
<1> QED BY <1>1, <1>4, <1>5

LEMMA ProbeBeforeInv ==
  ASSUME Inv, ProbeBefore
  PROVE  Inv'
<1> DEFINE before == FlagOf(call.uid)
           q      == [call EXCEPT !.at = "probing", !.before = before]
<1>1. /\ UNCHANGED <<folder, server, review, answer, history>>
      /\ Under /\ call.at = "picked" /\ call' = q
  BY DEF ProbeBefore, Under, Working
<1>2. Folder' /\ Peeks' /\ early \in BOOLEAN
  BY <1>1, FolderKept DEF history, Inv, Folder
<1>3. /\ call \in CallShape /\ call.validity <= validity /\ review.expected \in {0, call.validity}
      /\ Cardinality(call.found) <= review.limit + 1 /\ call.returned <= call.window
      /\ call.position = 0 /\ call.returned = 0 /\ review.op = "probe"
  BY <1>1, Fields DEF Inv, Calls
<1>4. before \in BOOLEAN /\ (before <=> call.uid \in seen)
  BY DEF FlagOf
<1> HIDE DEF before
<1>5. /\ q \in CallShape /\ q.at = "probing" /\ q.uid = call.uid /\ q.before = before
      /\ q.validity = call.validity /\ q.found = call.found /\ q.returned = 0 /\ q.position = 0
      /\ q.window = call.window
  BY <1>3, <1>4 DEF CallShape, Places
<1> HIDE DEF q
<1>6. Calls'
  BY <1>1, <1>3, <1>5, CallGoesOn DEF folder
<1>7. Walk'
  BY <1>1, <1>2, <1>5, WalkGoesOn DEF history, Folder
<1>8. Pieces'
  <2>1. answer'.code = "RAW_SOURCE_UNAVAILABLE" => review.size # "exact"
    BY <1>1 DEF Inv, Pieces
  <2> QED BY <1>1, <1>2, <1>5, <2>1, PiecesGoOn DEF history
<1>9. Probe'
  <2>1. ~touched => call.uid \in present
    BY <1>1 DEF Inv, Probe
  <2> QED BY <1>1, <1>4, <1>5, <2>1 DEF Probe, folder, history
<1> QED BY <1>2, <1>6, <1>7, <1>8, <1>9 DEF Inv

LEMMA ProbeReadInv ==
  ASSUME Inv, ProbeRead
  PROVE  Inv'
<1> DEFINE q == [call EXCEPT !.at = "probed"]
<1>1. /\ UNCHANGED <<validity, present, nextUid, flips, server, review, answer, stayed, shown,
                     short, pieces, early, touched>>
      /\ Under /\ call.at = "probing" /\ ReadBodies({call.uid}) /\ call' = q
  BY DEF ProbeRead, Under, Working
<1>2. /\ Folder' /\ Peeks' /\ seen \subseteq seen' /\ marked \subseteq marked'
      /\ early \in BOOLEAN
  <2>1. short \in BOOLEAN /\ early \in BOOLEAN
    BY DEF Inv, Folder
  <2> QED BY <1>1, <2>1, ReadKeepsFolder
<1>3. /\ call \in CallShape /\ call.validity <= validity /\ review.expected \in {0, call.validity}
      /\ Cardinality(call.found) <= review.limit + 1 /\ call.returned <= call.window
      /\ call.position = 0 /\ call.returned = 0 /\ review.op = "probe" /\ call.mode = "ro"
  BY <1>1, Fields DEF Inv, Calls
<1>4. /\ q \in CallShape /\ q.at = "probed" /\ q.uid = call.uid /\ q.before = call.before
      /\ q.validity = call.validity /\ q.found = call.found /\ q.returned = 0 /\ q.position = 0
      /\ q.window = call.window
  BY <1>3 DEF CallShape, Places
<1> HIDE DEF q
<1>5. Calls'
  BY <1>1, <1>3, <1>4, CallGoesOn
<1>6. Walk'
  BY <1>1, <1>2, <1>4, WalkGoesOn DEF Folder
<1>7. Pieces'
  <2>1. answer'.code = "RAW_SOURCE_UNAVAILABLE" => review.size # "exact"
    BY <1>1 DEF Inv, Pieces
  <2> QED BY <1>1, <1>2, <1>4, <2>1, PiecesGoOn
<1>8. Probe'
  <2>1. Marks <=> server = "ignores EXAMINE"
    BY <1>3 DEF Marks
  <2>2. SUFFICES ASSUME ~touched
                 PROVE  /\ call.uid \in present
                        /\ call.before => call.uid \in seen'
                        /\ ~call.before /\ call.uid \in seen' => call.uid \in marked'
                        /\ ~call.before /\ call.uid \notin seen' => marked' = {}
    BY <1>1, <1>4 DEF Probe
  <2>3. call.uid \in present /\ (call.before <=> call.uid \in seen)
    BY <1>1, <2>2 DEF Inv, Probe
  <2>4. CASE server = "ignores EXAMINE"
    BY <1>1, <2>1, <2>3, <2>4 DEF ReadBodies
  <2>5. CASE server # "ignores EXAMINE"
    BY <1>1, <1>2, <2>1, <2>3, <2>5 DEF ReadBodies, Peeks
  <2> QED BY <2>4, <2>5
<1> QED BY <1>2, <1>5, <1>6, <1>7, <1>8 DEF Inv

LEMMA ProbeAfterInv ==
  ASSUME Inv, ProbeAfter
  PROVE  Inv'
<1>1. /\ UNCHANGED <<folder, server, review, history>> /\ Under /\ call.at = "probed"
  BY DEF ProbeAfter, Under, Working
<1>2. Folder' /\ Peeks'
  BY <1>1, FolderKept DEF history, Inv, Folder
<1>3. /\ call.before \in BOOLEAN /\ review.op = "probe" /\ review.limit \in Nat /\ review.offset = 0
  BY <1>1, Fields DEF Inv, Calls
<1>4. (call.before = FlagOf(call.uid)) <=> (call.before <=> call.uid \in seen)
  BY <1>3 DEF FlagOf
<1>5. CASE (call.before = FlagOf(call.uid)) /\ Done(NoAnswer)
  <2>1. NoAnswer \in AnswerShape /\ Cardinality(NoAnswer.page) <= review.limit
    BY <1>3, NothingTyped, FS_EmptySet
  <2>2. /\ Calls' /\ call'.at = "answered" /\ answer'.code = "ok" /\ call'.uid = call.uid
        /\ call'.before = call.before /\ answer'.next = 0 /\ answer'.from = 0
    BY <1>1, <1>5, <2>1, NothingTyped, DoneCalls DEF folder
  <2>3. BytesFollow'
    BY <1>1, <1>3, <2>2 DEF BytesFollow, OfMessage
  <2>4. ~touched => call.before \/ call.uid \notin marked
    BY <1>1, <1>4, <1>5 DEF Inv, Probe
  <2> QED BY <1>1, <1>2, <1>3, <2>2, <2>3, <2>4, DoneInv DEF history
<1>6. CASE call.before # FlagOf(call.uid) /\ FailWith("FLAGS_CHANGED_UNEXPECTEDLY")
  <2> DEFINE a == [NoAnswer EXCEPT !.code = "FLAGS_CHANGED_UNEXPECTEDLY"]
  <2>1. Finish(a)
    BY <1>6 DEF FailWith
  <2>2. a \in AnswerShape /\ a.code = "FLAGS_CHANGED_UNEXPECTEDLY" /\ a.page = {} /\ a.validity = 0
    BY NothingTyped DEF AnswerShape, Codes
  <2> HIDE DEF a
  <2>3. a.validity <= validity /\ Cardinality(a.page) <= review.limit
    BY <1>3, <2>2, FolderTyped, FS_EmptySet DEF Inv
  <2>4. /\ Calls' /\ call'.at = "answered" /\ answer' = a
        /\ call'.uid = call.uid /\ call'.before = call.before
    BY <1>1, <2>1, <2>2, <2>3, CallEnds DEF folder
  <2>5. Walk'
    BY <1>1, <1>2, <2>2, <2>4, WalkGoesOn DEF history, Folder
  <2>6. Pieces'
    BY <1>1, <2>2, <2>4, PiecesGoOn DEF history, Inv, Folder
  <2>7. ~touched => call.uid \in marked
    BY <1>1, <1>3, <1>4, <1>6 DEF Inv, Probe
  <2>8. Probe'
    BY <1>1, <2>2, <2>4, <2>7 DEF Probe, history
  <2> QED BY <1>2, <2>4, <2>5, <2>6, <2>8 DEF Inv
<1> QED BY <1>5, <1>6 DEF ProbeAfter

----------------------------------------------------------------------------
\* The client

LEMMA BeginInv ==
  ASSUME Inv, NEW op \in Operations, NEW u \in 0..MaxUid, NEW limit \in PageLimits,
         NEW size \in Sizes, Begin(op, u, limit, size)
  PROVE  Inv'
<1> DEFINE expected == IF op \in {"page", "probe"} THEN 0 ELSE validity
           r == [NoReview EXCEPT !.op = op, !.state = "ready", !.uid = u, !.limit = limit,
                   !.size = size, !.expected = expected]
<1>1. /\ UNCHANGED <<folder, server, call, answer, shown, short, pieces, early, marked, touched>>
      /\ review.state = "idle" /\ review' = r
      /\ stayed' = IF op = "page" THEN present ELSE {}
      /\ op \in {"page", "probe"} => u = 0
      /\ op \notin {"page", "probe"} => u \in present
  BY DEF Begin
<1>2. limit \in Nat \ {0} /\ validity \in Nat \ {0} /\ op \in AllOperations
  BY InputsArePositive, OperationsAreKnown, Bounds DEF Inv, Folder
<1>3. /\ expected \in Nat /\ expected <= validity
      /\ expected # 0 \/ op \in {"page", "probe"}
      /\ op \in {"page", "probe"} => expected = 0
  BY <1>2
<1> HIDE DEF expected
<1>4. /\ r \in ReviewShape /\ r.op = op /\ r.state = "ready" /\ r.uid = u /\ r.limit = limit
      /\ r.size = size /\ r.expected = expected /\ r.offset = 0 /\ r.before = 0 /\ r.cut = FALSE
  BY <1>2, <1>3, NothingTyped DEF ReviewShape
<1> HIDE DEF r
<1>5. call = NoCall /\ answer = NoAnswer /\ review = NoReview
  BY <1>1, NothingTyped DEF Inv, Calls
<1>6. Folder' /\ Peeks'
  <2>1. stayed' \subseteq present /\ touched \in BOOLEAN /\ short \in BOOLEAN
    BY <1>1 DEF Inv, Folder
  <2> QED BY <1>1, <2>1 DEF Inv, Folder, Peeks, folder
<1>7. Calls'
  <2>1. op \in OfMessage => u \in Uids
    BY <1>1, FolderTyped DEF Inv, OfMessage
  <2>2. Cardinality({}) <= limit + 1 /\ Cardinality({}) <= limit
    BY <1>2, FS_EmptySet
  <2>3. Calls
    BY DEF Inv
  <2>4. validity' = validity /\ validity \in Nat
    BY <1>1, <1>2 DEF folder
  <2>5. /\ review' = r /\ call' = NoCall /\ answer' = NoAnswer
        /\ NoCall.validity <= validity /\ NoAnswer.validity <= validity
        /\ NoCall.returned <= NoCall.window
    BY <1>1, <1>5, <2>3, <2>4, NothingTyped DEF Calls
  <2>6. op # "none"
    BY <1>2 DEF AllOperations
  <2> QED BY <1>1, <1>3, <1>4, <2>1, <2>2, <2>4, <2>5, <2>6, NothingTyped DEF Calls, OfMessage
<1>8. pieces = <<>>
  BY <1>5, NothingTyped DEF Inv, Pieces
<1>9. Pieces'
  <2>1. op \in OfMessage => u \in Uids
    BY <1>1, FolderTyped DEF Inv, OfMessage
  <2>2. op \in OfMessage => 0 <= Length[u]
    BY <2>1, LengthsAreNatural
  <2> QED BY <1>1, <1>4, <1>5, <1>8, <2>2, NothingTyped DEF Pieces
<1>10. Walk'
  <2>1. \A x \in Uids : shown[x] = 0
    BY <1>1 DEF Inv, Walk
  <2> QED BY <1>1, <1>4, <1>5, <2>1, NothingTyped DEF Walk, Ahead
<1>11. Probe'
  BY <1>1, <1>5, NothingTyped DEF Probe
<1> QED BY <1>6, <1>7, <1>9, <1>10, <1>11 DEF Inv

LEMMA AskInv ==
  ASSUME Inv, NEW window \in Windows, Ask(window)
  PROVE  Inv'
<1> DEFINE r == [review EXCEPT !.state = "asking"]
           q == [NoCall EXCEPT !.at = "connecting", !.uid = review.uid, !.window = window]
<1>1. /\ UNCHANGED <<folder, server, stayed, shown, short, pieces, early, marked>>
      /\ review.state = "ready" /\ review' = r /\ call' = q /\ answer' = NoAnswer /\ touched' = FALSE
  BY DEF Ask
<1>2. /\ review \in ReviewShape /\ Calls /\ review.uid \in 0..MaxUid /\ window \in Nat \ {0}
      /\ review.limit \in Nat /\ validity \in Nat
  BY Fields, FolderTyped, InputsArePositive DEF Inv, Calls
<1>3. /\ r \in ReviewShape /\ r.state = "asking" /\ r.op = review.op /\ r.uid = review.uid
      /\ r.before = review.before /\ r.expected = review.expected /\ r.offset = review.offset
      /\ r.limit = review.limit /\ r.size = review.size
  BY <1>2 DEF ReviewShape
<1>4. /\ q \in CallShape /\ q.at = "connecting" /\ q.uid = review.uid /\ q.window = window
      /\ q.validity = 0 /\ q.found = {} /\ q.position = 0 /\ q.returned = 0
  BY <1>2, NothingTyped DEF CallShape, Places
<1> HIDE DEF r, q
<1>5. Folder' /\ Peeks'
  BY <1>1, FolderKept DEF Inv, Folder
<1>6. Calls'
  <2>1. /\ Cardinality({}) <= review.limit + 1 /\ Cardinality({}) <= review.limit
        /\ 0 <= window /\ 0 <= validity /\ validity' = validity
    BY <1>1, <1>2, FS_EmptySet DEF folder
  <2> QED BY <1>1, <1>2, <1>3, <1>4, <2>1, NothingTyped DEF Calls
<1>7. Walk'
  BY <1>1, <1>3, <1>4 DEF Inv, Walk, Ahead
<1>8. Pieces'
  BY <1>1, <1>3, <1>4, NothingTyped DEF Inv, Pieces
<1>9. Probe'
  BY <1>1, <1>4 DEF Probe
<1> QED BY <1>5, <1>6, <1>7, <1>8, <1>9 DEF Inv

\* The client takes a page, whose messages were ahead of its cursor, and goes on behind them.
LEMMA TakePageInv ==
  ASSUME Inv, Receive, TakePage
  PROVE  Inv'
<1> DEFINE r == [review EXCEPT !.state = IF answer.next = 0 THEN "complete" ELSE "ready",
                   !.before = answer.next, !.expected = answer.validity]
<1>1. /\ UNCHANGED <<folder, server, stayed, short, early, marked, touched, pieces>>
      /\ call.at = "answered" /\ call' = NoCall /\ answer' = NoAnswer
      /\ review.op = "page" /\ answer.code = "ok" /\ review' = r
      /\ shown' = [u \in Uids |-> shown[u] + IF u \in answer.page THEN 1 ELSE 0]
  BY DEF Receive, TakePage
<1>2. PageAhead /\ Calls /\ review.state = "asking"
  BY <1>1 DEF Inv, Walk, Calls
<1>3. answer.next \in 0..MaxUid /\ (answer.next # 0 => answer.next \in answer.page)
      /\ answer.page \in SUBSET Uids
  BY <1>2, Fields, Bounds DEF Inv, PageAhead, Uids
<1>4. /\ review \in ReviewShape /\ answer.validity \in Nat /\ answer.validity <= validity
  BY <1>2, Fields DEF Calls
<1>5. /\ r \in ReviewShape /\ r.state = IF answer.next = 0 THEN "complete" ELSE "ready"
      /\ r.before = answer.next /\ r.expected = answer.validity /\ r.op = "page"
      /\ r.uid = review.uid /\ r.offset = review.offset /\ r.limit = review.limit
      /\ r.size = review.size
  BY <1>1, <1>3, <1>4 DEF ReviewShape
<1> HIDE DEF r
<1>6. shown \in [Uids -> {0, 1}]
  BY DEF Inv, Folder
<1>7. \A u \in answer.page : shown[u] = 0 /\ (answer.next = 0 \/ answer.next <= u)
  <2>1. ASSUME NEW u \in answer.page PROVE shown[u] = 0 /\ (answer.next = 0 \/ answer.next <= u)
    <3>1. Ahead(u) /\ (answer.next = 0 \/ answer.next <= u) /\ u \in Uids
      BY <1>2, <1>3 DEF PageAhead
    <3>2. shown[u] = 1 => review.before # 0 /\ review.before <= u
      BY <1>2, <3>1 DEF Inv, Walk
    <3>3. u \in Nat /\ review.before \in Nat
      BY <1>2, <3>1, Fields, Bounds DEF Uids
    <3>4. shown[u] # 1
      BY <3>1, <3>2, <3>3 DEF Ahead
    <3> QED BY <1>6, <3>1, <3>4
  <2> QED BY <2>1
<1>8. /\ shown' \in [Uids -> {0, 1}]
      /\ \A u \in Uids : shown'[u] = IF u \in answer.page THEN 1 ELSE shown[u]
  BY <1>1, <1>6, <1>7
<1>9. Folder' /\ Peeks'
  <2>1. short' = short /\ touched' = touched
    BY <1>1
  <2> QED BY <1>1, <1>8 DEF Inv, Folder, Peeks, folder
<1>10. Calls'
  <2>1. /\ Cardinality({}) <= review.limit + 1 /\ Cardinality({}) <= review.limit
        /\ 0 <= validity /\ validity' = validity /\ NoCall.returned <= NoCall.window
    BY <1>1, <1>2, Fields, FolderTyped, FS_EmptySet, NothingTyped DEF Inv, folder, NoCall
  <2> QED BY <1>1, <1>2, <1>4, <1>5, <2>1, NothingTyped DEF Calls, OfMessage
<1>11. Walk'
  <2>1. ASSUME answer.next # 0, NEW u \in Uids, shown'[u] = 1
        PROVE  answer.next <= u
    <3>1. CASE u \in answer.page
      BY <1>7, <2>1, <3>1
    <3>2. CASE u \notin answer.page
      <4>1. shown[u] = 1
        BY <1>8, <2>1, <3>2
      <4>2. review.before # 0 /\ review.before <= u
        BY <1>2, <4>1 DEF Inv, Walk
      <4>3. answer.next < review.before
        BY <1>2, <1>3, <2>1, <4>2 DEF PageAhead, Ahead
      <4>4. u \in Nat /\ review.before \in Nat /\ answer.next \in Nat
        BY <1>2, <1>3, Fields DEF Uids
      <4> QED BY <4>2, <4>3, <4>4
    <3> QED BY <3>1, <3>2
  <2>2. ASSUME ~short, NEW u \in stayed
        PROVE  shown'[u] = 1 \/ (answer.next # 0 /\ u < answer.next)
    <3>1. u \in Uids
      BY FolderTyped DEF Inv
    <3> QED BY <1>2, <1>8, <2>2, <3>1 DEF PageAhead
  <2>3. review'.state # "idle" /\ (review'.state # "complete" => answer.next # 0)
        /\ (review'.state = "complete" => answer.next = 0) /\ review'.before = answer.next
        /\ call'.at = "none" /\ stayed' = stayed /\ short' = short
    BY <1>1, <1>5, NothingTyped
  <2> QED BY <2>1, <2>2, <2>3 DEF Walk, Ahead
<1>12. pieces = <<>> /\ pieces' = <<>>
  BY <1>1 DEF Inv, Pieces
<1>13. Pieces'
  <2>1. review.offset = 0
    BY <1>1, <1>2 DEF Calls
  <2> QED BY <1>1, <1>5, <1>12, <2>1, NothingTyped DEF Pieces, OfMessage
<1>14. Probe'
  BY <1>1, NothingTyped DEF Probe
<1> QED BY <1>9, <1>10, <1>11, <1>13, <1>14 DEF Inv

\* The client takes bytes, and goes on where they end.
LEMMA TakeBytesInv ==
  ASSUME Inv, Receive, TakeBytes
  PROVE  Inv'
<1> DEFINE r == [review EXCEPT !.state = IF answer.next = 0 THEN "complete" ELSE "ready",
                   !.offset = answer.next, !.cut = answer.cut]
           piece == <<answer.validity, answer.from, answer.to>>
<1>1. /\ UNCHANGED <<folder, server, stayed, short, early, marked, touched, shown>>
      /\ call.at = "answered" /\ call' = NoCall /\ answer' = NoAnswer
      /\ review.op # "page" /\ answer.code = "ok" /\ review' = r
      /\ pieces' = Append(pieces, piece)
  BY DEF Receive, TakeBytes
<1>2. BytesFollow /\ Calls /\ review.state = "asking" /\ Pieces
  BY <1>1 DEF Inv, Pieces, Calls
<1>3. /\ review \in ReviewShape /\ answer.next \in Nat /\ answer.from \in Nat /\ answer.to \in Nat
      /\ answer.validity \in Nat /\ review.op \in Operations \cup {"none"} /\ answer.cut \in BOOLEAN
  BY <1>2, Fields DEF Calls
<1>4. /\ r \in ReviewShape /\ r.state = IF answer.next = 0 THEN "complete" ELSE "ready"
      /\ r.offset = answer.next /\ r.before = review.before /\ r.expected = review.expected
      /\ r.cut = answer.cut /\ r.op = review.op /\ r.uid = review.uid /\ r.limit = review.limit /\ r.size = review.size
  BY <1>3 DEF ReviewShape
<1> HIDE DEF r
<1>5. piece \in Piece /\ piece[1] = answer.validity /\ piece[2] = answer.from /\ piece[3] = answer.to
  BY <1>3 DEF Piece
<1> HIDE DEF piece
<1>6. pieces \in Seq(Piece)
  BY DEF Inv, Folder
<1>7. /\ pieces' \in Seq(Piece) /\ Len(pieces') = Len(pieces) + 1 /\ Len(pieces) \in Nat
      /\ DOMAIN pieces = 1..Len(pieces) /\ DOMAIN pieces' = 1..(Len(pieces) + 1)
      /\ \A i \in 1..Len(pieces) : pieces'[i] = pieces[i]
      /\ pieces'[Len(pieces) + 1] = piece
      /\ pieces = <<>> <=> Len(pieces) = 0
  BY <1>1, <1>5, <1>6
<1>8. Folder' /\ Peeks'
  BY <1>1, <1>7 DEF Inv, Folder, Peeks, folder
<1>9. Calls'
  <2>1. /\ Cardinality({}) <= review.limit + 1 /\ Cardinality({}) <= review.limit
        /\ 0 <= validity /\ validity' = validity /\ NoCall.returned <= NoCall.window
    BY <1>1, <1>2, Fields, FolderTyped, FS_EmptySet, NothingTyped DEF Inv, folder, NoCall
  <2>2. review.op \notin {"raw", "attachment"} => answer.next = 0
    BY <1>2 DEF BytesFollow
  <2> QED BY <1>1, <1>2, <1>4, <2>1, <2>2, NothingTyped DEF Calls
<1>10. Walk'
  BY <1>1, <1>2, <1>4, NothingTyped DEF Inv, Walk, Ahead
<1>11. review.op \in {"probe"} \cup OfMessage
  BY <1>1, <1>2, <1>3, OperationsAreKnown, NothingTyped DEF AllOperations, OfMessage, Calls
<1>12. Pieces'
  <2>1. ASSUME NEW i \in DOMAIN pieces'
        PROVE  /\ review.op # "probe" => pieces'[i][1] = review.expected
               /\ pieces'[i][2] = IF i = 1 THEN 0 ELSE pieces'[i - 1][3]
               /\ review.op # "probe" => pieces'[i][3] <= Length[review.uid]
    <3>1. CASE i \in 1..Len(pieces)
      <4>1. pieces'[i] = pieces[i] /\ i \in DOMAIN pieces
        BY <1>7, <3>1
      <4>2. i # 1 => pieces'[i - 1] = pieces[i - 1]
        BY <1>7, <3>1
      <4> QED BY <1>2, <4>1, <4>2 DEF Pieces
    <3>2. CASE i = Len(pieces) + 1
      <4>1. pieces'[i] = piece
        BY <1>7, <3>2
      <4>2. review.op # "probe" => answer.validity = review.expected
        BY <1>1, <1>2, <1>11 DEF Calls, OfMessage
      <4>3. answer.from = IF pieces = <<>> THEN 0 ELSE pieces[Len(pieces)][3]
        BY <1>2 DEF BytesFollow, Pieces
      <4>4. i # 1 => i - 1 = Len(pieces) /\ pieces # <<>> /\ pieces'[i - 1] = pieces[i - 1]
        BY <1>7, <3>2
      <4>5. i = 1 => pieces = <<>>
        BY <1>7, <3>2
      <4>6. review.op # "probe" => answer.to <= Length[review.uid]
        BY <1>2, <1>11 DEF BytesFollow
      <4> QED BY <1>5, <4>1, <4>2, <4>3, <4>4, <4>5, <4>6
    <3> QED BY <1>7, <2>1, <3>1, <3>2
  <2>2. pieces' # <<>> /\ pieces'[Len(pieces')][3] = answer.to
    BY <1>5, <1>7
  <2>3. answer.next # 0 => answer.next = answer.to
    BY <1>2 DEF BytesFollow
  <2>4. review.op \in OfMessage =>
          /\ answer.to <= Length[review.uid]
          /\ answer.next = 0 => answer.to = Length[review.uid] \/ answer.cut \/ Misled
          /\ answer.cut /\ review.size = "exact" => answer.to < Length[review.uid]
    BY <1>2 DEF BytesFollow
  <2>5. review.op \in OfMessage => Length[review.uid] \in Nat
    BY <1>2, LengthsAreNatural DEF Calls
  <2>6. /\ review'.state = IF answer.next = 0 THEN "complete" ELSE "ready"
        /\ review'.op = review.op /\ review'.uid = review.uid /\ review'.offset = answer.next
        /\ review'.expected = review.expected /\ call'.at = "none" /\ answer'.code = "none"
        /\ review'.cut = answer.cut /\ review'.size = review.size /\ (Misled' <=> Misled)
    BY <1>1, <1>4, NothingTyped DEF Misled
  <2>7. review.op \in OfMessage => answer.next <= Length[review.uid]
    BY <1>3, <2>3, <2>4, <2>5
  <2>8. review.op \notin {"none", "page"}
    BY <1>11 DEF OfMessage
  <2> QED BY <2>1, <2>2, <2>3, <2>4, <2>6, <2>7, <2>8 DEF Pieces
<1>13. Probe'
  BY <1>1, NothingTyped DEF Probe
<1> QED BY <1>8, <1>9, <1>10, <1>12, <1>13 DEF Inv

\* An error ends the review, or the client asks again from where it is.
LEMMA TakeErrorInv ==
  ASSUME Inv, Receive, NEW again \in BOOLEAN, TakeError(again)
  PROVE  Inv'
<1> DEFINE r == [review EXCEPT !.state = IF again THEN "ready" ELSE "ended", !.code = answer.code]
<1>1. /\ UNCHANGED <<folder, server, stayed, short, early, marked, touched, shown, pieces>>
      /\ call.at = "answered" /\ call' = NoCall /\ answer' = NoAnswer /\ review' = r
  BY DEF Receive, TakeError
<1>2. Calls /\ review.state = "asking"
  BY <1>1 DEF Inv, Calls
<1>3. review \in ReviewShape /\ answer.code \in Codes
  BY <1>2, Fields DEF Calls
<1>4. /\ r \in ReviewShape /\ r.state \in {"ready", "ended"}
      /\ r.offset = review.offset /\ r.before = review.before /\ r.expected = review.expected
      /\ r.op = review.op /\ r.uid = review.uid /\ r.limit = review.limit /\ r.size = review.size
  BY <1>3 DEF ReviewShape
<1> HIDE DEF r
<1>5. Folder' /\ Peeks'
  BY <1>1, FolderKept DEF Inv, Folder
<1>6. Calls'
  <2>1. /\ Cardinality({}) <= review.limit + 1 /\ Cardinality({}) <= review.limit
        /\ 0 <= validity /\ validity' = validity /\ NoCall.returned <= NoCall.window
    BY <1>1, <1>2, Fields, FolderTyped, FS_EmptySet, NothingTyped DEF Inv, folder, NoCall
  <2> QED BY <1>1, <1>2, <1>4, <2>1, NothingTyped DEF Calls
<1>7. Walk'
  BY <1>1, <1>2, <1>4, NothingTyped DEF Inv, Walk, Ahead
<1>8. Pieces'
  BY <1>1, <1>2, <1>4, NothingTyped DEF Inv, Pieces, Misled
<1>9. Probe'
  BY <1>1, NothingTyped DEF Probe
<1> QED BY <1>5, <1>6, <1>7, <1>8, <1>9 DEF Inv

LEMMA ReceiveInv ==
  ASSUME Inv, Receive
  PROVE  Inv'
BY TakePageInv, TakeBytesInv, TakeErrorInv DEF Receive

----------------------------------------------------------------------------
\* The theorems

LEMMA OthersInv ==
  ASSUME Inv, Others
  PROVE  Inv'
BY DeliverInv, ExpungeInv, FlipSeenInv, RecreateInv DEF Others

LEMMA ClientInv ==
  ASSUME Inv, Client
  PROVE  Inv'
BY BeginInv, AskInv, ReceiveInv DEF Client

LEMMA ReadingInv ==
  ASSUME Inv, Reading
  PROVE  Inv'
<1>1. ASSUME NEW mode \in {"ro", "rw"}, Open(mode) PROVE Inv'
  BY <1>1, OpenInv
<1>2. ASSUME NEW result \in SearchAnswers, Search(result) PROVE Inv'
  BY <1>2, SearchInv
<1>3. CASE Fetch \/ FetchMessage \/ FetchRange
  BY <1>3, FetchInv, FetchMessageInv, FetchRangeInv
<1>4. CASE ListParts \/ Download \/ StreamEnds
  BY <1>4, ListPartsInv, DownloadInv, StreamEndsInv
<1>5. ASSUME NEW n \in 1..MaxUid, StreamBytes(n) PROVE Inv'
  BY <1>5, StreamBytesInv
<1>6. CASE ProbeBefore \/ ProbeRead \/ ProbeAfter
  BY <1>6, ProbeBeforeInv, ProbeReadInv, ProbeAfterInv
<1>7. CASE Fails
  BY <1>7, FailsInv
<1>8. ASSUME NEW result \in SearchAnswers, ProbeSearch(result) PROVE Inv'
  BY <1>8, ProbeSearchInv
<1> QED BY <1>1, <1>2, <1>3, <1>4, <1>5, <1>6, <1>7, <1>8 DEF Reading

LEMMA StillInv ==
  ASSUME Inv, UNCHANGED vars
  PROVE  Inv'
<1>1. /\ UNCHANGED <<review, call, answer, shown, short, stayed, pieces, early, server, marked, seen,
                    touched>>
      /\ UNCHANGED <<validity, present, nextUid, flips>>
  BY DEF vars
<1>2. Folder' /\ Peeks'
  BY <1>1 DEF Inv, Folder, Peeks
<1>3. Calls'
  BY <1>1 DEF Inv, Calls
<1>4. Walk' /\ Pieces'
  BY <1>1, WalkStays, PiecesStay
<1>5. Probe'
  BY <1>1 DEF Inv, Probe
<1> QED BY <1>2, <1>3, <1>4, <1>5 DEF Inv

LEMMA StepInv == Inv /\ [Next]_vars => Inv'
BY OthersInv, ClientInv, ReadingInv, StillInv DEF Next

\* What the reading service keeps to at every await of a call: the folder, the review with its
\* cursor, the connection and the answer belong together, whatever other clients do between two
\* awaits.
THEOREM Invariant == Spec => []Inv
<1>1. Init => Inv
  BY InitInv
<1>2. Inv /\ [Next]_vars => Inv'
  BY StepInv
<1> QED BY <1>1, <1>2, PTL DEF Spec

\* Folder, review, call and answer have the shape the code gives them: a connection never
\* returns more bytes than its window, a page no more messages than its limit.
THEOREM TypeCorrect == Spec => []TypeOK
<1>1. ASSUME Inv PROVE TypeOK
  <2>1. /\ validity \in 1..MaxValidity /\ nextUid \in 1..(MaxUid + 1) /\ flips \in 0..MaxFlips
        /\ present \subseteq 1..(nextUid - 1) /\ seen \subseteq present
        /\ stayed \subseteq present /\ marked \subseteq Uids
        /\ server \in Servers /\ short \in BOOLEAN /\ touched \in BOOLEAN /\ early \in BOOLEAN
    BY <1>1 DEF Inv, Folder
  <2>2. /\ review.op \in Operations \cup {"none"} /\ review.before \in 0..MaxUid
        /\ review.state \in {"idle", "ready", "asking", "complete", "ended"}
        /\ call.found \subseteq Uids /\ answer.page \subseteq Uids /\ review.expected \in Nat
    BY <1>1, Fields DEF Inv
  <2>3. /\ call.at = "none" <=> review.state # "asking"
        /\ Cardinality(call.found) <= review.limit + 1 /\ Cardinality(answer.page) <= review.limit
        /\ call.returned <= call.window /\ review.expected <= validity
    BY <1>1 DEF Inv, Calls
  <2>4. review.expected \in 0..validity
    BY <2>1, <2>2, <2>3
  <2>5. shown \in [Uids -> Nat]
    BY <1>1 DEF Inv, Folder
  <2>6. (call.at = "none") = (review.state # "asking")
    BY <2>3
  <2> QED BY <2>1, <2>2, <2>3, <2>4, <2>5, <2>6 DEF TypeOK
<1> QED BY <1>1, Invariant, PTL

\* A client that follows next_before_uid meets no message twice, and at null has met every
\* message that was there all the time, unless a candidate vanished between UID SEARCH and UID
\* FETCH or a search was refused: searchNewestUids takes the newest below the cursor, and the
\* cursor is the lowest message of the page, however many messages the folder and the pages have.
THEOREM PagesCoverTheFolder == Spec => []ReviewWalksEveryUid
<1>1. ASSUME Inv PROVE ReviewWalksEveryUid
  <2>1. shown \in [Uids -> {0, 1}]
    BY <1>1 DEF Inv, Folder
  <2>2. \A u \in Uids : shown[u] <= 1
    BY <2>1
  <2>3. review.op = "page" /\ review.state = "complete" => short \/ \A u \in stayed : shown[u] = 1
    BY <1>1 DEF Inv, Walk
  <2> QED BY <2>2, <2>3 DEF ReviewWalksEveryUid
<1> QED BY <1>1, Invariant, PTL

\* The ranges of fetchRange and the windows of the attachment stream follow one another without
\* a gap or an overlap, all of the message the identifier was made for, and never beyond its end.
\* At null they are all of it, for messages, windows and stream buffers of any length, unless the
\* client was told of a cut or misled by the server: the code takes its size and the end of its
\* stream as they come.
THEOREM PiecesAreTheSource == Spec => []PiecesMakeTheSource
<1>1. ASSUME Inv PROVE PiecesMakeTheSource
  BY <1>1 DEF Inv, Pieces, PiecesMakeTheSource, OfMessage
<1> QED BY <1>1, Invariant, PTL

\* assertReadOnlyMailbox keeps the flags as they are on a server that honours EXAMINE, whatever
\* pages, messages, sources and attachments are read, and verifyPeekInvariant tells when one does
\* not.
THEOREM ReadsOnlyPeek == Spec => []ReadsArePeeks
<1>1. ASSUME Inv PROVE ReadsArePeeks
  <2>1. server # "ignores EXAMINE" => marked = {}
    BY <1>1 DEF Inv, Peeks
  <2>2. call.at = "answered" /\ review.op = "probe" /\ call.uid # 0 /\ ~touched =>
          /\ answer.code = "ok" => call.before \/ call.uid \notin marked
          /\ answer.code = "FLAGS_CHANGED_UNEXPECTEDLY" => call.uid \in marked
    BY <1>1 DEF Inv, Probe
  <2> QED BY <2>1, <2>2 DEF ReadsArePeeks
<1> QED BY <1>1, Invariant, PTL

\* An answer with a next_before_uid or a next_offset brings the client strictly on: pages go
\* down, ranges and windows up.
THEOREM EveryAnswerMovesOn == Spec => CursorsAdvance
<1> DEFINE Moves ==
      review.state = "asking" /\ review'.state = "ready" /\ answer.code = "ok" =>
        \/ review.op = "page" /\ review'.before > 0
             /\ (review.before = 0 \/ review'.before < review.before)
        \/ review.op # "page" /\ review'.offset > review.offset
<1>1. ASSUME Inv, Receive, TakePage PROVE Moves
  <2>1. /\ call.at = "answered" /\ answer.code = "ok" /\ review.op = "page"
        /\ review' = [review EXCEPT !.state = IF answer.next = 0 THEN "complete" ELSE "ready",
                        !.before = answer.next, !.expected = answer.validity]
    BY <1>1 DEF Receive, TakePage
  <2>2. review \in ReviewShape /\ answer.next \in Nat
    BY <1>1, Fields DEF Inv, Calls
  <2>3. /\ review'.state = IF answer.next = 0 THEN "complete" ELSE "ready"
        /\ review'.before = answer.next
    BY <2>1, <2>2 DEF ReviewShape
  <2>4. answer.next # 0 => review.before = 0 \/ answer.next < review.before
    BY <1>1, <2>1 DEF Inv, Walk, PageAhead, Ahead
  <2> QED BY <2>1, <2>2, <2>3, <2>4
<1>2. ASSUME Inv, Receive, TakeBytes PROVE Moves
  <2>1. /\ call.at = "answered" /\ answer.code = "ok" /\ review.op # "page"
        /\ review' = [review EXCEPT !.state = IF answer.next = 0 THEN "complete" ELSE "ready",
                        !.offset = answer.next, !.cut = answer.cut]
    BY <1>2 DEF Receive, TakeBytes
  <2>2. review \in ReviewShape
    BY <1>2 DEF Inv, Calls
  <2>3. /\ review'.state = IF answer.next = 0 THEN "complete" ELSE "ready"
        /\ review'.offset = answer.next
    BY <2>1, <2>2 DEF ReviewShape
  <2>4. answer.next # 0 => answer.next > review.offset
    BY <1>2, <2>1 DEF Inv, Pieces, BytesFollow
  <2> QED BY <2>1, <2>3, <2>4
<1>3. ASSUME Receive, NEW again \in BOOLEAN, TakeError(again) PROVE Moves
  BY <1>3 DEF TakeError
<1>4. ASSUME Inv, Client PROVE Moves
  <2>1. ASSUME NEW op, NEW u, NEW limit, NEW size, Begin(op, u, limit, size) PROVE Moves
    BY <2>1 DEF Begin
  <2>2. ASSUME NEW window, Ask(window) PROVE Moves
    BY <2>2 DEF Ask
  <2>3. CASE Receive
    BY <1>1, <1>2, <1>3, <1>4, <2>3 DEF Receive
  <2> HIDE DEF Moves
  <2> QED BY <1>4, <2>1, <2>2, <2>3 DEF Client
<1>5. ASSUME Others PROVE UNCHANGED review
  BY <1>5 DEF Others, Deliver, Expunge, FlipSeen, Recreate
<1>6. ASSUME Reading PROVE UNCHANGED review
  BY <1>6 DEF Reading, Open, Search, Fetch, FetchMessage, FetchRange, ListParts, Download,
     StreamEnds, StreamBytes, ProbeSearch, ProbeBefore, ProbeRead, ProbeAfter, Fails
<1>7. UNCHANGED review => Moves
  OBVIOUS
<1>8. Inv /\ [Next]_vars => [Moves]_vars
  <2> HIDE DEF Moves
  <2> QED BY <1>4, <1>5, <1>6, <1>7 DEF Next
<1> QED BY <1>8, Invariant, PTL DEF Spec, CursorsAdvance
================================================================================
