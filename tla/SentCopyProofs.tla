----------------------------- MODULE SentCopyProofs -----------------------------
(***************************************************************************)
(* Proofs about SentCopy for any number of attempts and observations: the  *)
(* types, the connections, the truth of a receipt that claims a copy, that *)
(* each copy too many takes a refused search or an append stored late,     *)
(* and, as long as searches are answered, that none is appended beside a   *)
(* copy of the provider that was to be seen.                               *)
(***************************************************************************)
EXTENDS SentCopy, TLAPS

\* A receipt is written when the attempt that earned it is over.
Finishing == result # "none" => pc \in {"leaving", "returned"}

\* Each attempt has one connection and appends at most once, as its last act.
Before == {"start", "connecting", "listing", "opening", "searching", "closing", "appending"}

Counted == /\ own + pending <= attempt
           /\ pc \in Before => own + pending < attempt
           /\ pc = "sleeping" => attempt < MaxAttempts

Shape == TypeOK /\ Finishing /\ NoClientLeftOpen /\ Counted

\* What the writer knows of the folder when it reaches the append: a search of this attempt
\* was answered, and what is there now came from the provider since, or it was refused.
Looked ==
  \/ pc = "searching" /\ observed > 0
  \/ pc = "closing" /\ outcome = "absent"
  \/ pc = "appending"

\* Appends that are stored, or on their way unnoticed by any search.
Unmissed == own + pending - missed

NothingSeen == /\ Unmissed <= 1 + refused + late
               /\ Looked => /\ Unmissed <= refused + late
                            /\ refused = 0 /\ provided = 1 => unseen

\* A copy that was claimed, or is about to be, is there.
Truthful == /\ ClaimedCopyExists
            /\ pc = "closing" /\ outcome = "found" => Copies > 0

----------------------------------------------------------------------------
\* The types are preserved together with the order of receipts, connections and appends.
LEMMA ShapeInductive == Shape /\ [Next]_vars => Shape'
<1> SUFFICES ASSUME Shape, [Next]_vars PROVE Shape'
  OBVIOUS
<1> USE AttemptsInRange, ObservesOnce
    DEF Shape, TypeOK, Finishing, NoClientLeftOpen, Counted, Before, Points, Results, folder,
        Leaves
<1>1. CASE Connect
  <2>1. CASE pc = "start"      BY <1>1, <2>1 DEF Connect
  <2>2. CASE pc = "connecting" BY <1>1, <2>2 DEF Connect
  <2> QED BY <1>1, <2>1, <2>2 DEF Connect
<1>2. CASE ListFolders     BY <1>2 DEF ListFolders
<1>3. CASE OpenFolder      BY <1>3 DEF OpenFolder
<1>4. CASE Search
  <2>1. Delays \in 1..Observations
    BY DEF Delays
  <2>2. CASE observed < Delays /\ observed' = observed + 1
    <3>1. /\ pc = "searching" /\ pc' \in {"searching", "closing"}
          /\ outcome' \in {"found", "absent", "threw"}
          /\ missed' \in 0..pending
          /\ UNCHANGED <<attempt, result, clients, own, pending, provided, late>>
      BY <1>4, <2>2 DEF Search
    <3>2. unseen' \in BOOLEAN
      BY <1>4, <2>2 DEF Search
    <3>3. refused' \in 0..MaxRefused
      BY <1>4, <2>2, RefusalsAreCounted DEF Search
    <3> QED BY <2>1, <2>2, <3>1, <3>2, <3>3
  <2>3. CASE observed = Delays /\ pc' = "closing" /\ outcome' = "absent"
             /\ UNCHANGED <<observed, unseen, refused, missed>>
    BY <1>4, <2>3 DEF Search
  <2> QED BY <1>4, <2>2, <2>3 DEF Search
<1>5. CASE CloseFolder     BY <1>5 DEF CloseFolder
<1>6. CASE Append
  <2> PICK fate \in {"stored", "lost", "pending"}, answer \in {"ok", "rejected", "threw"} :
        /\ own' = IF fate = "stored" THEN own + 1 ELSE own
        /\ pending' = IF fate = "pending" THEN pending + 1 ELSE pending
        /\ Leaves(IF Appended(answer) THEN "imap_appended" ELSE "none")
    BY <1>6 DEF Append
  <2> QED BY <1>6 DEF Append
<1>7. CASE Leave           BY <1>7 DEF Leave, Closed, MoreAttempts
<1>8. CASE Sleep           BY <1>8 DEF Sleep
<1>9. CASE ProviderSaves   BY <1>9 DEF ProviderSaves
<1>10. CASE UNCHANGED vars BY <1>10 DEF vars
<1>11. CASE AppendLands    BY <1>11 DEF AppendLands
<1> QED BY <1>1, <1>2, <1>3, <1>4, <1>5, <1>6, <1>7, <1>8, <1>9, <1>10, <1>11 DEF Next, Writer

\* A new save has the shape.
LEMMA ShapeInitial == Init => Shape
<1> SUFFICES ASSUME Init PROVE Shape
  OBVIOUS
<1>1. \/ pc = "start" /\ result = "none" /\ attempt = 1
      \/ pc = "returned" /\ result = "failed" /\ attempt = 0
  <2> PICK small \in BOOLEAN : /\ pc = IF small THEN "start" ELSE "returned"
                               /\ result = IF small THEN "none" ELSE "failed"
                               /\ attempt = IF small THEN 1 ELSE 0
    BY DEF Init
  <2>1. CASE small   BY <2>1, Zenon
  <2>2. CASE ~small  BY <2>2, Zenon
  <2> QED BY <2>1, <2>2
<1>2. /\ observed = 0 /\ outcome = "absent" /\ clients = 0 /\ own = 0
      /\ provided \in {0, 1} /\ unseen = FALSE /\ refused = 0
      /\ pending = 0 /\ missed = 0 /\ late = 0
  BY DEF Init
<1>3. TypeOK
  <2>1. unseen \in BOOLEAN
    BY <1>2
  <2>2. attempt \in 0..MaxAttempts /\ pc \in Points /\ result \in Results \cup {"none"}
    BY <1>1, AttemptsInRange DEF Points, Results
  <2>3. /\ observed \in 0..Observations /\ own \in 0..MaxAttempts /\ clients \in {0, 1}
        /\ outcome \in {"found", "absent", "threw"} /\ provided \in {0, 1}
        /\ pending \in 0..MaxAttempts /\ missed \in 0..pending /\ late \in 0..own
    BY <1>2, AttemptsInRange, ObservesOnce
  <2>4. refused \in 0..MaxRefused
    BY <1>2, RefusalsAreCounted
  <2> QED BY <2>1, <2>2, <2>3, <2>4 DEF TypeOK
<1>4. Finishing /\ NoClientLeftOpen /\ Counted
  BY <1>1, <1>2, AttemptsInRange DEF Finishing, NoClientLeftOpen, Counted, Before
<1> QED BY <1>3, <1>4 DEF Shape

\* The shape of every reachable state.
LEMMA ShapeHolds == Spec => []Shape
  BY ShapeInitial, ShapeInductive, PTL DEF Spec

\* The writer, its counters and the folder keep their types.
THEOREM TypeCorrect == Spec => []TypeOK
<1>1. Shape => TypeOK
  BY DEF Shape
<1> QED BY <1>1, ShapeHolds, PTL

\* Whatever an attempt ends with, its connection is closed before the next one or the
\* return: closeClient is in the finally block.
THEOREM ClientsClosed == Spec => []NoClientLeftOpen
<1>1. Shape => NoClientLeftOpen
  BY DEF Shape
<1> QED BY <1>1, ShapeHolds, PTL

----------------------------------------------------------------------------
\* A receipt of save that claims a copy is right, also when searches are refused.
THEOREM ClaimIsTrue == Spec => []ClaimedCopyExists
<1>1. Init => Truthful
  BY DEF Init, Truthful, ClaimedCopyExists
<1>2. Shape /\ Truthful /\ [Next]_vars => Truthful'
  <2> SUFFICES ASSUME Shape, Truthful, [Next]_vars PROVE Truthful'
    OBVIOUS
  <2> USE DEF Shape, TypeOK, Finishing, Truthful, ClaimedCopyExists, Copies, folder, Leaves,
              Points, Results
  <2>1. CASE Connect          BY <2>1 DEF Connect
  <2>2. CASE ListFolders      BY <2>2 DEF ListFolders
  <2>3. CASE OpenFolder       BY <2>3 DEF OpenFolder
  <2>4. CASE Search           BY <2>4 DEF Search
  <2>5. CASE CloseFolder      BY <2>5 DEF CloseFolder
  <2>6. CASE Append           BY <2>6 DEF Append, Appended
  <2>7. CASE Leave            BY <2>7 DEF Leave
  <2>8. CASE Sleep            BY <2>8 DEF Sleep
  <2>9. CASE ProviderSaves    BY <2>9 DEF ProviderSaves
  <2>10. CASE UNCHANGED vars  BY <2>10 DEF vars
  <2>11. CASE AppendLands     BY <2>11 DEF AppendLands
  <2> QED
    BY <2>1, <2>2, <2>3, <2>4, <2>5, <2>6, <2>7, <2>8, <2>9, <2>10, <2>11 DEF Next, Writer
<1>3. Truthful => ClaimedCopyExists
  BY DEF Truthful
<1> QED BY <1>1, <1>2, <1>3, ShapeHolds, PTL DEF Spec

----------------------------------------------------------------------------
\* What the append relies on is still so when it happens.
LEMMA NothingSeenInductive == Shape /\ NothingSeen /\ [Next]_vars => NothingSeen'
<1> SUFFICES ASSUME Shape, NothingSeen, [Next]_vars
             PROVE  NothingSeen'
  OBVIOUS
<1> USE DEF Shape, TypeOK, NothingSeen, Unmissed, Looked, Copies, folder, Leaves, Points, Results
<1>1. CASE Connect          BY <1>1 DEF Connect
<1>2. CASE ListFolders      BY <1>2 DEF ListFolders
<1>3. CASE OpenFolder       BY <1>3 DEF OpenFolder
<1>4. CASE Search
  <2>1. Delays \in Nat \ {0}
    BY ObservesOnce DEF Delays
  <2>2. CASE observed = Delays /\ pc' = "closing" /\ outcome' = "absent"
             /\ UNCHANGED <<observed, unseen, refused, missed>>
    BY <1>4, <2>1, <2>2 DEF Search
  <2>3. CASE Copies = 0 /\ unseen' = FALSE /\ missed' = pending
             /\ UNCHANGED <<pc, outcome, refused>>
    BY <1>4, <2>3 DEF Search
  <2>4. CASE pc' = "closing" /\ outcome' \in {"found", "threw"}
    BY <1>4, <2>4 DEF Search
  <2>5. CASE refused' = refused + 1 /\ UNCHANGED <<pc, outcome, unseen, missed>>
    BY <1>4, <2>5 DEF Search
  <2> QED BY <1>4, <2>2, <2>3, <2>4, <2>5 DEF Search
<1>5. CASE CloseFolder      BY <1>5 DEF CloseFolder
<1>6. CASE Append           BY <1>6 DEF Append
<1>7. CASE Leave            BY <1>7 DEF Leave
<1>8. CASE Sleep            BY <1>8 DEF Sleep
<1>9. CASE ProviderSaves    BY <1>9 DEF ProviderSaves
<1>10. CASE UNCHANGED vars  BY <1>10 DEF vars
<1>11. CASE AppendLands     BY <1>11 DEF AppendLands
<1> QED BY <1>1, <1>2, <1>3, <1>4, <1>5, <1>6, <1>7, <1>8, <1>9, <1>10, <1>11 DEF Next, Writer

\* Before the first search nothing is stored or on its way.
LEMMA NothingSeenInitial == Init => NothingSeen
  BY DEF Init, NothingSeen, Unmissed, Looked

\* Whichever answers are lost, and whenever the server stores what the client gave up: a copy
\* too many takes a refused search of its own, or is stored after a later search has been
\* answered without it.  For any number of attempts and observations.
THEOREM CopiesAreAccountedFor == Spec => []AppendedOnce
<1>1. Shape /\ NothingSeen => AppendedOnce
  BY DEF Shape, TypeOK, NothingSeen, Unmissed, AppendedOnce
<1> QED BY <1>1, NothingSeenInitial, NothingSeenInductive, ShapeInitial, ShapeInductive, PTL
        DEF Spec

\* As long as searches are answered, a copy of the provider that was there to be seen is never
\* doubled by an append.
THEOREM NeverBesideASeenCopy == Spec => NoAppendBesideASeenCopy
<1>1. Shape /\ NothingSeen /\ [Next]_vars =>
        [own' + pending' > own + pending /\ provided = 1 /\ refused = 0 => unseen]_vars
  <2> SUFFICES ASSUME Shape, NothingSeen, Next, own' + pending' > own + pending,
                      provided = 1, refused = 0
               PROVE  unseen
    OBVIOUS
  <2>1. Append
    BY DEF Next, Writer, Connect, ListFolders, OpenFolder, Search, CloseFolder, Leave, Sleep,
           ProviderSaves, AppendLands, folder, Shape, TypeOK
  <2> QED BY <2>1 DEF Append, NothingSeen, Looked
<1> QED BY <1>1, NothingSeenInitial, NothingSeenInductive, ShapeInitial, ShapeInductive, PTL
        DEF Spec, NoAppendBesideASeenCopy
===============================================================================
