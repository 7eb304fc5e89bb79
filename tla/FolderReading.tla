----------------------------- MODULE FolderReading -----------------------------
(***************************************************************************)
(* Reading one IMAP folder piece by piece while other clients change it:   *)
(* the pages, raw sources, attachments and probes of                       *)
(* src/services/mailService.ts over the connections of                     *)
(* src/imap/imapFlowAdapter.ts.                                            *)
(*                                                                         *)
(* A review is a client that follows next_before_uid or next_offset to its *)
(* end.  Each call of it opens a connection, and every await of that       *)
(* connection is a point where messages arrive, vanish or the folder is    *)
(* created anew.  A message is its UID under a UIDVALIDITY; its source is  *)
(* a number of bytes.  The permits a call needs are module ReadFanout.     *)
(***************************************************************************)
EXTENDS Naturals, FiniteSets, Sequences

CONSTANTS
  MaxUid,        \* bound: messages a folder gets under one UIDVALIDITY
  MaxValidity,   \* bound: times the folder is created
  MaxFlips,      \* bound: flags changed by other clients
  FirstUids,     \* messages the folder begins with
  PageLimits,    \* `limit` of list_messages_page
  Windows,       \* `max_bytes` of a chunk
  SourceMax,     \* sourceMaxBytes
  Length,        \* the bytes of the message, and of its attachment, with a given UID
  Operations,    \* the operations clients ask for
  SearchAnswers  \* what the server answers to UID SEARCH: "found" or "refused"

AllOperations == {"page", "message", "raw", "attachment", "probe"}
Uids          == 1..MaxUid
Servers       == {"sound", "ignores PEEK", "ignores EXAMINE"}
Sizes         == {"exact", "unknown", "overstated", "understated"}

ASSUME ReadingBounds == MaxUid \in Nat \ {0} /\ MaxValidity \in Nat \ {0} /\ MaxFlips \in Nat
ASSUME InputsArePositive ==
  /\ PageLimits \subseteq Nat \ {0} /\ FirstUids \subseteq Uids
  /\ SourceMax \in Nat \ {0} /\ Windows \subseteq 1..SourceMax
ASSUME LengthsAreNatural == Length \in [Uids -> Nat]
ASSUME OperationsAreKnown ==
  Operations \subseteq AllOperations /\ SearchAnswers \subseteq {"found", "refused"}

VARIABLES
  validity,   \* UIDVALIDITY of the folder
  present,    \* the messages in it
  nextUid,    \* the UID the next message gets
  seen,       \* the messages with the \Seen flag
  server,     \* what the server does about EXAMINE and BODY.PEEK
  review,     \* what the client asks for and where it is
  call,       \* the connection of the call under way
  answer,     \* its answer
  stayed,     \* history: messages there since the review began
  shown,      \* history: how often each message was on a page
  short,      \* history: a page lost a candidate, or its search was refused
  pieces,     \* history: the bytes a client has, as <<validity, from, to>>
  marked,     \* history: messages our reads set \Seen on
  early,      \* history: an attachment stream ended before the attachment did
  touched,    \* history: the probed message was changed by another client
  flips

folder  == <<validity, present, nextUid, seen, flips>>
history == <<stayed, shown, short, pieces, early, marked, touched>>
vars    == <<validity, present, nextUid, seen, server, review, call, answer, stayed, shown,
             short, pieces, early, marked, touched, flips>>

NoReview == [op |-> "none", state |-> "idle", before |-> 0, expected |-> 0, uid |-> 0,
             offset |-> 0, limit |-> 1, size |-> "exact", code |-> "none",
             cut |-> FALSE]
NoCall   == [at |-> "none", mode |-> "ro", validity |-> 0, uid |-> 0, found |-> {},
             window |-> 1, position |-> 0, returned |-> 0, before |-> FALSE]
NoAnswer == [code |-> "none", page |-> {}, validity |-> 0, next |-> 0, from |-> 0, to |-> 0,
             cut |-> FALSE]

Init ==
  /\ validity = 1
  /\ present = FirstUids
  /\ nextUid \in {u \in 1..(MaxUid + 1) : FirstUids \subseteq 1..(u - 1)}
  /\ seen = {}
  /\ server \in Servers
  /\ review = NoReview
  /\ call = NoCall
  /\ answer = NoAnswer
  /\ stayed = {} /\ short = FALSE /\ pieces = <<>> /\ early = FALSE
  /\ marked = {} /\ touched = FALSE
  /\ shown = [u \in Uids |-> 0]
  /\ flips = 0

Earlier(a, b)   == IF a < b THEN a ELSE b
Later(a, b)     == IF a > b THEN a ELSE b
Lowest(us)      == CHOOSE u \in us : \A v \in us : u <= v

\* Mutant of Newest: the comparison takes one more.
NewestAndOne(us, n) == {u \in us : Cardinality({v \in us : v > u}) <= n}

Newest(us, n) == {u \in us : Cardinality({v \in us : v > u}) < n}

----------------------------------------------------------------------------
\* The folder, in the hands of other clients

Deliver ==
  /\ nextUid <= MaxUid
  /\ present' = present \cup {nextUid}
  /\ nextUid' = nextUid + 1
  /\ UNCHANGED <<validity, seen, flips, server, review, call, answer, history>>

Expunge(u) ==
  /\ u \in present
  /\ present' = present \ {u}
  /\ seen' = seen \ {u}
  /\ stayed' = stayed \ {u}
  /\ touched' = (touched \/ u = call.uid)
  /\ UNCHANGED <<validity, nextUid, flips, server, review, call, answer, shown, short,
                 pieces, early, marked>>

\* The folder is deleted and created again with n messages.
Recreate(n) ==
  /\ validity < MaxValidity
  /\ validity' = validity + 1
  /\ present' = 1..n
  /\ nextUid' = n + 1
  /\ seen' = {}
  /\ stayed' = {}
  /\ marked' = {}
  /\ touched' = TRUE
  /\ UNCHANGED <<flips, server, review, call, answer, shown, short, pieces, early>>

FlipSeen(u) ==
  /\ flips < MaxFlips
  /\ flips' = flips + 1
  /\ u \in present
  /\ seen' = IF u \in seen THEN seen \ {u} ELSE seen \cup {u}
  /\ touched' = (touched \/ u = call.uid)
  /\ UNCHANGED <<validity, present, nextUid, server, review, call, answer, stayed, shown, short,
                 pieces, early, marked>>

\* Bodies are read, whole or their first bytes: BODY.PEEK in a folder opened with EXAMINE.
Marks == server = "ignores EXAMINE" \/ (server = "ignores PEEK" /\ call.mode = "rw")
ReadBodies(us) ==
  /\ seen' = IF Marks THEN seen \cup (us \cap present) ELSE seen
  /\ marked' = IF Marks THEN marked \cup ((us \cap present) \ seen) ELSE marked

----------------------------------------------------------------------------
\* The client

\* A client begins: with the newest page, or with a message it has found in the folder.
Begin(op, u, limit, size) ==
  /\ review.state = "idle"
  /\ op \in Operations
  /\ op \in {"page", "probe"} => u = 0
  /\ op \notin {"page", "probe"} => u \in present
  /\ op # "page" => limit = Lowest(PageLimits)
  /\ op \notin {"raw", "message"} => size = "exact"
  /\ review' = [NoReview EXCEPT !.op = op, !.state = "ready", !.uid = u, !.limit = limit,
                  !.size = size, !.expected = IF op \in {"page", "probe"} THEN 0 ELSE validity]
  /\ stayed' = IF op = "page" THEN present ELSE {}
  /\ UNCHANGED <<folder, server, call, answer, shown, short, pieces, early, marked, touched>>

\* It asks for the next piece; the window is `max_bytes` brought down to the configured one.
Ask(window) ==
  /\ review.state = "ready"
  /\ review.op \notin {"raw", "attachment"} => window = Lowest(Windows)
  /\ review' = [review EXCEPT !.state = "asking"]
  /\ call' = [NoCall EXCEPT !.at = "connecting", !.uid = review.uid, !.window = window]
  /\ answer' = NoAnswer
  /\ touched' = FALSE
  /\ UNCHANGED <<folder, server, stayed, shown, short,
                 pieces, early, marked>>

\* A page is kept, and the review goes on from its cursor; 0 stands for null.
TakePage ==
  /\ review.op = "page" /\ answer.code = "ok"
  /\ shown' = [u \in Uids |-> shown[u] + IF u \in answer.page THEN 1 ELSE 0]
  /\ review' = [review EXCEPT !.state = IF answer.next = 0 THEN "complete" ELSE "ready",
                  !.before = answer.next, !.expected = answer.validity]
  /\ pieces' = pieces

TakeBytes ==
  /\ review.op # "page" /\ answer.code = "ok"
  /\ pieces' = Append(pieces, <<answer.validity, answer.from, answer.to>>)
  /\ review' = [review EXCEPT !.state = IF answer.next = 0 THEN "complete" ELSE "ready",
                  !.offset = answer.next, !.cut = answer.cut]
  /\ shown' = shown

\* An error ends the review, or the client asks for the same piece again.
TakeError(again) ==
  /\ answer.code # "ok"
  /\ review' = [review EXCEPT !.state = IF again THEN "ready" ELSE "ended", !.code = answer.code]
  /\ UNCHANGED <<shown, pieces>>

Receive ==
  /\ call.at = "answered"
  /\ \/ TakePage
     \/ TakeBytes
     \/ \E again \in BOOLEAN : TakeError(again)
  /\ call' = NoCall
  /\ answer' = NoAnswer
  /\ UNCHANGED <<folder, server, stayed, short, early, marked, touched>>

----------------------------------------------------------------------------
\* A call: connect, getMailboxLock, work, release, close

Finish(a) == call' = [call EXCEPT !.at = "answered"] /\ answer' = a
FailWith(code) == Finish([NoAnswer EXCEPT !.code = code])
Done(a) == Finish([a EXCEPT !.code = "ok", !.validity = call.validity])
Working(at) == call.at = at /\ validity = call.validity

\* Any await fails, the 25 to 60 seconds are over, or the folder the connection was in is gone.
Fails ==
  /\ call.at \notin {"none", "answered"}
  /\ FailWith("IMAP_ERROR")
  /\ UNCHANGED <<folder, server, review, history>>

\* Mutant of ReadOnly: assertReadOnlyMailbox is left out.
AnyMode(mode) == TRUE

\* assertReadOnlyMailbox
ReadOnly(mode) == mode = "ro"

\* The UIDVALIDITY of the cursor or identifier is the one the folder has.
Current(expected) == expected = 0 \/ expected = validity

\* The folder is open; an attachment is listed by one connection and read by another.
Open(mode) ==
  /\ call.at \in {"connecting", "reconnecting"}
  /\ mode = "rw" => server # "sound"
  /\ IF ~ReadOnly(mode) THEN FailWith("READ_ONLY_INVARIANT_FAILED")
     ELSE IF ~Current(review.expected) THEN FailWith("UIDVALIDITY_CHANGED")
     ELSE /\ call' = [call EXCEPT !.at = IF @ = "connecting" THEN "open" ELSE "reopened",
                                  !.mode = mode, !.validity = validity]
          /\ UNCHANGED answer
  /\ UNCHANGED <<folder, server, review, history>>

Eligible(before) == {u \in present : before = 0 \/ u < before}

\* UID SEARCH: the newest limit + 1 candidates.  A refused search is `false`, and counts as
\* no message found.
Search(result) ==
  LET candidates == IF result = "refused" THEN {}
                    ELSE Newest(Eligible(review.before), review.limit + 1)
  IN
  /\ Working("open") /\ review.op = "page"
  /\ IF candidates = {} THEN Done(NoAnswer)
     ELSE call' = [call EXCEPT !.at = "found", !.found = candidates] /\ UNCHANGED answer
  /\ short' = (short \/ result = "refused")
  /\ UNCHANGED <<folder, server, review, stayed, shown, pieces, early, marked, touched>>

\* Mutant of NextBefore: the cursor is the one left out, which the next page excludes.
NextBeforeLeftOut(fetched, page) ==
  IF Cardinality(fetched) > review.limit THEN Lowest(fetched) ELSE 0

NextBefore(fetched, page) == IF Cardinality(fetched) > review.limit THEN Lowest(page) ELSE 0

\* UID FETCH of the candidates that are still there, with the beginning of their source; the
\* page without the extra one.
Fetch ==
  LET fetched == call.found \cap present
      page    == Newest(fetched, review.limit)
  IN
  /\ Working("found")
  /\ Done([NoAnswer EXCEPT !.page = page, !.next = NextBefore(fetched, page)])
  /\ ReadBodies(fetched)
  /\ short' = (short \/ fetched # call.found)
  /\ UNCHANGED <<validity, present, nextUid, flips, server, review, stayed, shown, pieces, early,
                 touched>>

\* message.size, when the server reports one
Reported(u) ==
  IF review.size = "overstated" THEN Length[u] + 1
  ELSE IF review.size = "understated" THEN Later(Length[u], 1) - 1
  ELSE Length[u]

\* fetchOne of a message that may be gone, up to the bound of a source; source_truncated.
FetchMessage ==
  LET bytes == Earlier(SourceMax, Length[review.uid]) IN
  /\ Working("open") /\ review.op = "message"
  /\ IF review.uid \in present
     THEN Done([NoAnswer EXCEPT !.to = bytes,
                  !.cut = (review.size # "unknown" /\ bytes < Reported(review.uid))])
     ELSE FailWith("MESSAGE_NOT_FOUND")
  /\ ReadBodies({review.uid})
  /\ UNCHANGED <<validity, present, nextUid, flips, server, review, stayed, shown, short, pieces,
                 early, touched>>

\* Mutant of More: the last byte is taken for granted.
MoreButOne(delivered, bytes, total) ==
  IF review.size = "unknown" THEN bytes = call.window ELSE delivered + 1 < total

\* Without a size of the whole, a full window means that there is more.
More(delivered, bytes, total) ==
  IF review.size = "unknown" THEN bytes = call.window ELSE delivered < total

\* Mutant of NextOffset: the bytes returned, not the place where they end.
NextOffsetReturned(from, n) == n

NextOffset(from, n) == from + n

\* One range of the raw source.
FetchRange ==
  LET total     == Length[review.uid]
      bytes     == Earlier(call.window, Later(total, review.offset) - review.offset)
      delivered == NextOffset(review.offset, bytes)
      more      == More(delivered, bytes, Reported(review.uid))
  IN
  /\ Working("open") /\ review.op = "raw"
  /\ IF review.uid \notin present THEN FailWith("MESSAGE_NOT_FOUND")
     ELSE IF bytes = 0 /\ (review.size = "unknown" \/ more) THEN FailWith("RAW_SOURCE_UNAVAILABLE")
     ELSE Done([NoAnswer EXCEPT !.from = review.offset, !.to = review.offset + bytes,
                                !.next = IF more THEN delivered ELSE 0])
  /\ ReadBodies({review.uid})
  /\ UNCHANGED <<validity, present, nextUid, flips, server, review, stayed, shown, short, pieces,
                 early, touched>>

\* listAttachmentParts finds the part, and its connection is closed.
ListParts ==
  /\ Working("open") /\ review.op = "attachment"
  /\ IF review.uid \in present THEN call' = [call EXCEPT !.at = "reconnecting"] /\ UNCHANGED answer
     ELSE FailWith("MESSAGE_NOT_FOUND")
  /\ UNCHANGED <<folder, server, review, history>>

Download ==
  /\ Working("reopened")
  /\ IF review.uid \in present THEN call' = [call EXCEPT !.at = "streaming"] /\ UNCHANGED answer
     ELSE FailWith("MESSAGE_NOT_FOUND")
  /\ ReadBodies({review.uid})
  /\ UNCHANGED <<validity, present, nextUid, flips, server, review, stayed, shown, short, pieces,
                 early, touched>>

\* There is more than the window holds, so at least one byte is left over.
Overflows(available, remaining) == available > remaining

Delivered(n, more) ==
  Done([NoAnswer EXCEPT !.from = review.offset, !.to = review.offset + n,
                        !.next = IF more THEN NextOffset(review.offset, n) ELSE 0])

\* The decoded stream brings n bytes: the part before the offset is discarded.
StreamBytes(n) ==
  LET skipped   == Earlier(n, Later(review.offset, call.position) - call.position)
      available == n - skipped
      remaining == call.window - call.returned
  IN
  /\ call.at = "streaming"
  /\ n \in 1..(Length[review.uid] - call.position)
  /\ IF available > 0 /\ Overflows(available, remaining) THEN Delivered(call.window, TRUE)
     ELSE /\ call' = [call EXCEPT !.position = @ + n, !.returned = @ + available]
          /\ UNCHANGED answer
  /\ UNCHANGED <<folder, server, review, history>>

\* Whatever ends the stream without an error counts as the end of the attachment.
StreamEnds ==
  /\ call.at = "streaming"
  /\ Delivered(call.returned, FALSE)
  /\ early' = (early \/ call.position < Length[review.uid])
  /\ UNCHANGED <<folder, server, review, stayed, shown, short, pieces, marked, touched>>

\* verifyPeekInvariant: the newest message, and its flags before and after its body is read.
\* A refused search counts as an empty folder, and a message that is gone has no flags.
ProbeSearch(result) ==
  LET newest == Newest(present, 1) IN
  /\ Working("open") /\ review.op = "probe"
  /\ \/ /\ result = "refused" \/ present = {}
        /\ Done(NoAnswer)
     \/ /\ result # "refused"
        /\ \E u \in newest : call' = [call EXCEPT !.at = "picked", !.uid = u]
        /\ UNCHANGED answer
  /\ touched' = FALSE
  /\ UNCHANGED <<folder, server, review, stayed, shown, short,
                 pieces, early, marked>>

FlagOf(u) == u \in seen

ProbeBefore ==
  /\ Working("picked")
  /\ call' = [call EXCEPT !.at = "probing", !.before = FlagOf(call.uid)]
  /\ UNCHANGED <<folder, server, review, answer, history>>

ProbeRead ==
  /\ Working("probing")
  /\ call' = [call EXCEPT !.at = "probed"]
  /\ ReadBodies({call.uid})
  /\ UNCHANGED <<validity, present, nextUid, flips, server, review, answer, stayed, shown, short,
                 pieces, early, touched>>

ProbeAfter ==
  /\ Working("probed")
  /\ IF call.before = FlagOf(call.uid) THEN Done(NoAnswer)
     ELSE FailWith("FLAGS_CHANGED_UNEXPECTEDLY")
  /\ UNCHANGED <<folder, server, review, history>>

----------------------------------------------------------------------------
Others ==
  \/ Deliver
  \/ \E u \in Uids : Expunge(u) \/ FlipSeen(u)
  \/ \E n \in 0..(MaxUid - 1) : Recreate(n)

Client ==
  \/ \E op \in Operations, u \in 0..MaxUid, limit \in PageLimits, size \in Sizes :
       Begin(op, u, limit, size)
  \/ \E window \in Windows : Ask(window)
  \/ Receive

Reading ==
  \/ \E mode \in {"ro", "rw"} : Open(mode)
  \/ \E result \in SearchAnswers : Search(result)
  \/ Fetch \/ FetchMessage \/ FetchRange
  \/ ListParts \/ Download \/ StreamEnds
  \/ \E n \in 1..MaxUid : StreamBytes(n)
  \/ \E result \in SearchAnswers : ProbeSearch(result)
  \/ ProbeBefore \/ ProbeRead \/ ProbeAfter
  \/ Fails

Next == Others \/ Client \/ Reading

Spec == Init /\ [][Next]_vars
----------------------------------------------------------------------------
\* Properties

\* Folder, review, call and answer have the shape the code gives them.
TypeOK ==
  /\ validity \in 1..MaxValidity /\ nextUid \in 1..(MaxUid + 1) /\ flips \in 0..MaxFlips
  /\ present \subseteq 1..(nextUid - 1) /\ seen \subseteq present
  /\ stayed \subseteq present /\ marked \subseteq Uids
  /\ server \in Servers /\ short \in BOOLEAN /\ touched \in BOOLEAN
  /\ early \in BOOLEAN
  /\ review.op \in Operations \cup {"none"}
  /\ review.state \in {"idle", "ready", "asking", "complete", "ended"}
  /\ review.before \in 0..MaxUid /\ review.expected \in 0..validity
  /\ call.found \subseteq Uids /\ Cardinality(call.found) <= review.limit + 1
  /\ call.returned <= call.window
  /\ (call.at = "none") = (review.state # "asking")
  /\ answer.page \subseteq Uids /\ Cardinality(answer.page) <= review.limit
  /\ shown \in [Uids -> Nat]

\* "walks every UID across bounded pages without repeating or skipping": no message is on two
\* pages of a review, whatever arrives, vanishes or is asked for again between them, and a
\* review that came to next_before_uid = null has shown every message that was there all the
\* time, unless a candidate vanished between the search and the fetch of a page, or a search
\* was refused.
ReviewWalksEveryUid ==
  /\ \A u \in Uids : shown[u] <= 1
  /\ review.op = "page" /\ review.state = "complete" => short \/ \A u \in stayed : shown[u] = 1

\* "For a complete mailbox review, call list_messages_page for each selectable folder until
\* next_before_uid is null": a message that stays in the folder is shown.
CompleteReviewIsComplete ==
  review.op = "page" /\ review.state = "complete" => \A u \in stayed : shown[u] = 1

\* What a server says that makes a client take a part for the whole.
Misled ==
  \/ review.size = "understated"
  \/ review.size = "unknown" /\ review.op = "message"
  \/ early

\* Bytes read in pieces are those of one message, the one the identifier was made for, each
\* once, in order and never beyond its end, also when the folder was created anew between two
\* calls.  When next_offset came to null, and no truncation was told, they are the whole of it,
\* whatever the windows asked for and the buffers the stream came in, unless the server had
\* reported too small a size, or none for a message that is cut at sourceMaxBytes, or had ended
\* the stream of an attachment too soon.  Where the size is reported as it is,
\* RAW_SOURCE_UNAVAILABLE is never met, and source_truncated is told of no whole message.
PiecesMakeTheSource ==
  /\ \A i \in DOMAIN pieces :
       /\ review.op # "probe" => pieces[i][1] = review.expected
       /\ pieces[i][2] = IF i = 1 THEN 0 ELSE pieces[i - 1][3]
       /\ review.op # "probe" => pieces[i][3] <= Length[review.uid]
  /\ review.op \in {"raw", "attachment", "message"} /\ review.state = "complete" =>
       /\ pieces[Len(pieces)][3] = Length[review.uid] \/ review.cut \/ Misled
       /\ review.cut /\ review.size = "exact" => pieces[Len(pieces)][3] < Length[review.uid]
  /\ answer.code = "RAW_SOURCE_UNAVAILABLE" => review.size # "exact"

\* Each answer that continues moves the cursor, so that a client that follows it comes to an
\* end; an attachment stream that makes no progress is an error of its own in the code.
CursorsAdvance ==
  [][review.state = "asking" /\ review'.state = "ready" /\ answer.code = "ok" =>
       \/ review.op = "page" /\ review'.before > 0
            /\ (review.before = 0 \/ review'.before < review.before)
       \/ review.op # "page" /\ review'.offset > review.offset]_vars

\* Reading a page, a message, a source or an attachment sets no flag as long as the server keeps
\* one of the two promises it is asked for, and when it does set one the probe tells: if nobody
\* else touches the probed message, it fails exactly when the read before it set a flag.
ReadsArePeeks ==
  /\ server # "ignores EXAMINE" => marked = {}
  /\ call.at = "answered" /\ review.op = "probe" /\ call.uid # 0 /\ ~touched =>
       /\ answer.code = "ok" => call.before \/ call.uid \notin marked
       /\ answer.code = "FLAGS_CHANGED_UNEXPECTEDLY" => call.uid \in marked
===============================================================================
