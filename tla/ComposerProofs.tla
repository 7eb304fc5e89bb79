---------------------------- MODULE ComposerProofs ----------------------------
(***************************************************************************)
(* Theorems about Composer for any number of windows, texts, files and     *)
(* slots.                                                                  *)
(*                                                                         *)
(* `Inv` holds whoever edits the draft: what a call that is awaited, or    *)
(* that the host gave up, was told is something its window has shown, so   *)
(* that an edit carries a version the window knows, and a window awaits at *)
(* most one send, exactly while its button is disabled.                    *)
(*                                                                         *)
(* `AloneInv` adds what the only window of a patient user keeps to.  Its   *)
(* difficulty is the calls that were given up and come late.  A window     *)
(* that passed the validation shows the draft, and the only edit that can  *)
(* still come writes the same text over it (`Clean`): the saving whose     *)
(* answer the validation followed named the current version, so the server *)
(* can accept no edit of an earlier one (`NoEdits`).  A click, late or     *)
(* not, showed the draft as long as its confirmation is the one the server *)
(* holds (`ClickFits`), because every edit takes the confirmation away.    *)
(***************************************************************************)
EXTENDS Composer, FiniteSetTheorems, TLAPS

\* The tools that change the content of a draft.
Editing == {"update_draft", "add_draft_attachment", "remove_draft_attachment"}

\* The records of confirmations, rows, submissions and windows.
Approval == [id : Nat, version : Nat]

Row == [status : {"draft", "sent"}, version : Nat, text : Texts, files : SUBSET Files]

Submission == [state : {"none", "submitting", "accepted", "rejected", "unknown"},
               content : Content \cup {None}, shown : Content \cup {None}]

Pane == [draft : View, known : SUBSET Nat, screen : Texts, review : {"hidden", "passed", "blocked"},
         confirmation : Approval, confirming : BOOLEAN, sendDisabled : BOOLEAN]

\* The rows of the server, for users with `most` versions, `approvals` and `losses`.
RowsOK(row, held, sub, ids, gone, most, approvals, losses) ==
  /\ row \in Row /\ row.version \in 1..(most + 1)
  /\ row.status = "draft" => row.version <= most
  /\ held \in Approval /\ held.id <= ids /\ held.version <= most
  /\ held.id = 0 => held = NoApproval
  /\ sub \in Submission
  /\ ids \in 0..approvals /\ gone \in 0..losses

\* A view of the draft, from a time when its version was at most `top`.
Seen(d, top) == d \in View /\ d.version \in 1..top

\* A window v.
PaneOK(v, top, ids) ==
  /\ v \in Pane
  /\ v.known \subseteq 1..top
  /\ v.draft.version # 0 => v.draft.version \in v.known
  /\ v.confirmation.id <= ids
  /\ v.confirming => v.confirmation.id # 0

\* A call r on its way from the window w, which knows the versions `known`.
Asked(r, w, known) ==
  /\ r.from = w /\ ~r.ok
  /\ r.tool \in Editing => r.version \in known
  /\ r.tool = "update_draft" => r.text \in Texts
  /\ r.tool = "add_draft_attachment" => r.file \in Files

\* What an answer of the server holds.
Answer(r, top) ==
  /\ Seen(r.draft, top)
  /\ r.tool = "prepare_draft_send" => r.held.id # 0
  /\ r.tool = "validate_draft" => r.verdict \in {"passed", "blocked"}

\* A call r of the window w, which is v.
CallOK(r, w, v, top, ids) ==
  /\ r \in Call /\ r.id <= ids /\ r.held.id <= ids
  /\ r.state = "idle" => r = Idle
  /\ r # Idle => v.draft.version # 0
  /\ r.state = "reading" => r.tool = None /\ r.file \in Files
  /\ r.state = "requested" => Asked(r, w, v.known)
  /\ r.state = "delivering" => r.tool = "send_draft" /\ Seen(r.draft, top)
  /\ r.state = "answered" /\ r.ok => Answer(r, top)
  /\ r.tool = "update_draft" =>
       r.then \in {"none", "validate", "remove"} \/ (r.then = "add" /\ r.file \in Files)

\* At most one send of a window v with the calls f is awaited, exactly while its button is
\* disabled.
SendsOK(v, f) ==
  /\ v.sendDisabled <=> \E s \in Slots : f[s].tool = "send_draft"
  /\ \A s, t \in Slots : f[s].tool = "send_draft" /\ f[t].tool = "send_draft" => s = t

\* A call that the host gave up, of a window that knows the versions `known`.
LateOK(r, known, ids) ==
  r \in Call /\ r.state = "requested" /\ r.id <= ids /\ Asked(r, r.from, known)

\* The rows, within the bounds of the instance.
Server ==
  /\ patient \in Patience
  /\ RowsOK(server, confirmation, delivery, issued, lost,
            MaxVersion[patient], MaxConfirmations[patient], MaxLost[patient])

\* Every window, its calls and the notice posted to it.
Widgets ==
  /\ window \in [Windows -> Pane] /\ call \in [Windows -> [Slots -> Call]] /\ DOMAIN notice = Windows
  /\ \A w \in Windows :
       /\ PaneOK(window[w], server.version, issued)
       /\ notice[w] # None => Seen(notice[w], server.version)
       /\ SendsOK(window[w], call[w])
       /\ \A s \in Slots : CallOK(call[w][s], w, window[w], server.version, issued)

\* A call that was given up still carries what its window has shown.
GivenUp == \A r \in late : r.from \in Windows /\ LateOK(r, window[r.from].known, issued)

Inv == Server /\ Widgets /\ GivenUp

----------------------------------------------------------------------------
\* One window whose user is patient.

\* No late call edits the draft any more.
NoEdits(row, calls) == \A r \in calls : r.tool \in Editing => r.version < row.version

\* The window v shows the draft, and a late call can only write the same text over it.
Clean(v, row, calls) ==
  /\ v.screen = row.text /\ v.draft.files = row.files
  /\ \A r \in calls : r.tool \in Editing /\ r.version = row.version =>
       r.tool = "update_draft" /\ r.text = row.text

\* What a call r of v means for what v shows.
CallFits(r, v, row, calls) ==
  /\ r.tool \in {"add_draft_attachment", "remove_draft_attachment"} => v.review # "passed"
  /\ r.state = "reading" => v.review # "passed"
  /\ r.tool \in {"prepare_draft_send", "send_draft"} => v.review = "passed"
  /\ r.tool = "validate_draft" => ~v.confirming /\ Clean(v, row, calls)
  /\ r.tool = "update_draft" /\ r.state = "requested" => r.text = v.screen
  /\ r.state = "delivering" \/ (r.state = "answered" /\ r.ok /\ r.tool \in {"update_draft", "send_draft"}) =>
       r.draft.text = row.text /\ r.draft.files = row.files
  /\ r.state = "answered" /\ r.ok /\ r.tool = "update_draft" => NoEdits(row, calls)

\* A click whose confirmation the server would accept showed the draft.
ClickFits(r, row, held) ==
  r.tool = "send_draft" /\ r.state = "requested" /\ r.id = held.id /\ r.id # 0 =>
    r.shown = ContentOf(row)

\* A window v with the calls f, and a notice or none.
Careful(v, f, posted, row, held, calls) ==
  /\ \A s, t \in Slots : f[s] # Idle /\ f[t] # Idle => s = t
  /\ posted \/ v.draft.version = 0 => /\ \A s \in Slots : f[s] = Idle
                                      /\ v.review # "passed" /\ ~v.confirming
  /\ v.review = "passed" => Clean(v, row, calls)
  /\ v.confirming => v.review = "passed"
  /\ \A s \in Slots : CallFits(f[s], v, row, calls) /\ ClickFits(f[s], row, held)

Patiently ==
  patient =>
    /\ \A w \in Windows : Careful(window[w], call[w], notice[w] # None, server, confirmation, late)
    /\ \A r \in late : ClickFits(r, server, confirmation)
    /\ ScreenIsWhatIsSent

\* Nobody else edits the draft.
Alone == \A v, w \in Windows : v = w
AloneInv == Alone => Patiently
----------------------------------------------------------------------------
\* Lasting facts

USE DEF Editing, Approval, Row, Submission, Tools, NoApproval

\* What a call was told stays true while versions and confirmations grow, and the window learns.
LEMMA CallsLast ==
  ASSUME NEW r, NEW w, NEW v, NEW u, NEW top \in Nat, NEW ids \in Nat, NEW top2 \in Nat, NEW ids2 \in Nat,
         CallOK(r, w, v, top, ids), top <= top2, ids <= ids2,
         v.known \subseteq u.known, v.draft.version # 0 => u.draft.version # 0
  PROVE  CallOK(r, w, u, top2, ids2)
BY DEF CallOK, Answer, Seen, Asked, Call, View

\* So does what a window was told.
LEMMA PanesLast ==
  ASSUME NEW v, NEW top \in Nat, NEW ids \in Nat, NEW top2 \in Nat, NEW ids2 \in Nat,
         PaneOK(v, top, ids), top <= top2, ids <= ids2
  PROVE  PaneOK(v, top2, ids2)
BY DEF PaneOK, Pane

LEMMA LateLast ==
  ASSUME NEW r, NEW known, NEW more, NEW ids \in Nat, NEW ids2 \in Nat,
         LateOK(r, known, ids), known \subseteq more, ids <= ids2
  PROVE  LateOK(r, more, ids2)
BY DEF LateOK, Asked, Call

\* Nothing waits for the server.
LEMMA IdleIsOK ==
  ASSUME NEW w, NEW v, NEW top \in Nat, NEW ids \in Nat
  PROVE  CallOK(Idle, w, v, top, ids)
BY NoneIsNothing DEF CallOK, Idle, Call

LEMMA Numbers ==
  ASSUME Server
  PROVE  server.version \in Nat \ {0} /\ issued \in Nat /\ server \in Row
BY DEF Server, RowsOK

----------------------------------------------------------------------------
\* What a window does by itself

\* The window learns versions and forgets none.
Grows(old, new) ==
  old.known \subseteq new.known /\ (old.draft.version # 0 => new.draft.version # 0)

\* A call r gives way to n while the button of the old window is that of the new one, or a send
\* begins, or ends.
ButtonFollows(old, new, r, n) ==
  \/ /\ r.tool = "send_draft" <=> n.tool = "send_draft"
     /\ new.sendDisabled = old.sendDisabled
  \/ /\ r.tool # "send_draft" /\ n.tool = "send_draft"
     /\ ~old.sendDisabled /\ new.sendDisabled
  \/ r.tool = "send_draft" /\ n.tool # "send_draft" /\ ~new.sendDisabled

\* The button keeps following the one send.
LEMMA SendsFollow ==
  ASSUME NEW old, NEW new, NEW f, NEW s \in Slots, NEW n, DOMAIN f = Slots, SendsOK(old, f),
         new.sendDisabled \in BOOLEAN, old.sendDisabled \in BOOLEAN, ButtonFollows(old, new, f[s], n)
  PROVE  SendsOK(new, [f EXCEPT ![s] = n])
<1> DEFINE g == [f EXCEPT ![s] = n]
<1>1. g[s] = n /\ \A t \in Slots \ {s} : g[t] = f[t]
  OBVIOUS
<1> HIDE DEF g
<1>2. CASE (f[s].tool = "send_draft" <=> n.tool = "send_draft") /\ new.sendDisabled = old.sendDisabled
  BY <1>1, <1>2 DEF SendsOK
<1>3. CASE f[s].tool # "send_draft" /\ n.tool = "send_draft" /\ ~old.sendDisabled /\ new.sendDisabled
  BY <1>1, <1>3 DEF SendsOK
<1>4. CASE f[s].tool = "send_draft" /\ n.tool # "send_draft" /\ ~new.sendDisabled
  BY <1>1, <1>4 DEF SendsOK
<1> QED BY <1>2, <1>3, <1>4 DEF ButtonFollows, g

\* A window goes on from v while one of its calls gives way to n.
LEMMA SlotMoves ==
  ASSUME Inv, NEW w \in Windows, NEW s \in Slots, NEW v, NEW n,
         window' = [window EXCEPT ![w] = v], call' = [call EXCEPT ![w][s] = n],
         UNCHANGED <<rows, host>>,
         PaneOK(v, server.version, issued), Grows(window[w], v),
         CallOK(n, w, v, server.version, issued), ButtonFollows(window[w], v, call[w][s], n)
  PROVE  Inv'
<1>0. /\ server' = server /\ issued' = issued /\ notice' = notice /\ late' = late
      /\ confirmation' = confirmation /\ delivery' = delivery /\ lost' = lost /\ patient' = patient
  BY DEF rows, host
<1>1. Server'
  BY <1>0 DEF Inv, Server
<1>2. server.version \in Nat /\ issued \in Nat
  BY Numbers DEF Inv
<1>3. /\ window' \in [Windows -> Pane] /\ window'[w] = v
      /\ \A u \in Windows \ {w} : window'[u] = window[u]
  BY DEF Inv, Widgets, PaneOK
<1>4. /\ call' \in [Windows -> [Slots -> Call]] /\ call'[w] = [call[w] EXCEPT ![s] = n]
      /\ call'[w][s] = n /\ \A t \in Slots \ {s} : call'[w][t] = call[w][t]
      /\ \A u \in Windows \ {w} : call'[u] = call[u]
  BY DEF Inv, Widgets, CallOK
<1>5. \A u \in Windows : PaneOK(window'[u], server.version, issued)
  BY <1>3 DEF Inv, Widgets
<1>6. \A u \in Windows : SendsOK(window'[u], call'[u])
  <2>1. SendsOK(window[w], call[w]) /\ DOMAIN call[w] = Slots /\ window[w] \in Pane /\ v \in Pane
    BY <1>3 DEF Inv, Widgets
  <2>2. SendsOK(v, [call[w] EXCEPT ![s] = n])
    BY <2>1, SendsFollow DEF Pane
  <2> QED BY <1>3, <1>4, <2>2 DEF Inv, Widgets
<1>7. ASSUME NEW u \in Windows, NEW t \in Slots
      PROVE CallOK(call'[u][t], u, window'[u], server.version, issued)
  <2>1. CASE u = w /\ t = s
    BY <1>3, <1>4, <2>1
  <2>2. CASE u = w /\ t # s
    <3>1. CallOK(call[w][t], w, window[w], server.version, issued)
      BY DEF Inv, Widgets
    <3>2. CallOK(call[w][t], w, v, server.version, issued)
      BY <3>1, <1>2, CallsLast DEF Grows
    <3> QED BY <2>2, <3>2, <1>3, <1>4
  <2>3. CASE u # w
    BY <1>3, <1>4, <2>3 DEF Inv, Widgets
  <2> QED BY <2>1, <2>2, <2>3
<1>8. Widgets'
  BY <1>0, <1>3, <1>4, <1>5, <1>6, <1>7 DEF Inv, Widgets
<1>9. GivenUp'
  <2>1. \A u \in Windows : window[u].known \subseteq window'[u].known
    BY <1>3 DEF Grows
  <2> QED BY <1>0, <1>2, <2>1, LateLast DEF Inv, GivenUp
<1> QED BY <1>1, <1>8, <1>9 DEF Inv

\* A window goes on from v while its calls stay.
LEMMA WindowMoves ==
  ASSUME Inv, NEW w \in Windows, NEW v,
         window' = [window EXCEPT ![w] = v], call' = call, DOMAIN notice' = Windows,
         \A u \in Windows : notice'[u] # None => Seen(notice'[u], server.version),
         UNCHANGED <<rows, late, lost, patient>>,
         PaneOK(v, server.version, issued), Grows(window[w], v), v.sendDisabled = window[w].sendDisabled
  PROVE  Inv'
<1>0. /\ server' = server /\ issued' = issued /\ late' = late
      /\ confirmation' = confirmation /\ delivery' = delivery /\ lost' = lost /\ patient' = patient
  BY DEF rows
<1>1. Server'
  BY <1>0 DEF Inv, Server
<1>2. server.version \in Nat /\ issued \in Nat
  BY Numbers DEF Inv
<1>3. /\ window' \in [Windows -> Pane] /\ window'[w] = v
      /\ \A u \in Windows \ {w} : window'[u] = window[u]
  BY DEF Inv, Widgets, PaneOK
<1>4. \A u \in Windows : PaneOK(window'[u], server.version, issued)
  BY <1>3 DEF Inv, Widgets
<1>5. \A u \in Windows : SendsOK(window'[u], call[u])
  BY <1>3 DEF Inv, Widgets, SendsOK
<1>6. ASSUME NEW u \in Windows, NEW t \in Slots
      PROVE CallOK(call[u][t], u, window'[u], server.version, issued)
  <2>1. CallOK(call[u][t], u, window[u], server.version, issued)
    BY DEF Inv, Widgets
  <2>2. Grows(window[u], window'[u])
    BY <1>3 DEF Grows
  <2> QED BY <2>1, <2>2, <1>2, CallsLast DEF Grows
<1>7. Widgets'
  BY <1>0, <1>3, <1>4, <1>5, <1>6 DEF Inv, Widgets
<1>8. GivenUp'
  <2>1. \A u \in Windows : window[u].known \subseteq window'[u].known
    BY <1>3 DEF Grows
  <2> QED BY <1>0, <1>2, <2>1, LateLast DEF Inv, GivenUp
<1> QED BY <1>1, <1>7, <1>8 DEF Inv

\* What is known of a window.
LEMMA OfWindow ==
  ASSUME Inv, NEW w \in Windows
  PROVE  /\ window[w] \in Pane /\ PaneOK(window[w], server.version, issued)
         /\ SendsOK(window[w], call[w])
         /\ window = [window EXCEPT ![w] = window[w]]
         /\ notice[w] # None => Seen(notice[w], server.version)
         /\ DOMAIN window = Windows /\ DOMAIN notice = Windows
         /\ server.version \in Nat \ {0} /\ issued \in Nat
<1>1. window \in [Windows -> Pane]
  BY DEF Inv, Widgets
<1> QED BY <1>1, Numbers DEF Inv, Widgets

\* What is known of a call.
LEMMA OfSlot ==
  ASSUME Inv, NEW w \in Windows, NEW s \in Slots
  PROVE  /\ call[w][s] \in Call /\ CallOK(call[w][s], w, window[w], server.version, issued)
         /\ DOMAIN call = Windows /\ DOMAIN call[w] = Slots
BY DEF Inv, Widgets

LEMMA IdleIs ==
  /\ Idle.tool = None /\ Idle.tool \notin Tools /\ Idle.state = "idle" /\ Idle.id = 0 /\ ~Idle.ok
  /\ Idle \in Call /\ Idle.then = None
BY NoneIsNothing DEF Idle, Call

\* A view of the server is adopted.
LEMMA Renders ==
  ASSUME NEW v, NEW d, NEW top \in Nat, NEW ids \in Nat, PaneOK(v, top, ids), Seen(d, top)
  PROVE  /\ PaneOK(Render(v, d), top, ids) /\ Grows(v, Render(v, d)) /\ Render(v, d) \in Pane
         /\ PaneOK(Render(Reset(v), d), top, ids) /\ Grows(v, Render(Reset(v), d))
         /\ PaneOK(Reset(Render(v, d)), top, ids) /\ Grows(v, Reset(Render(v, d)))
         /\ Render(Reset(v), d) \in Pane /\ Reset(Render(v, d)) \in Pane
         /\ Render(v, d).sendDisabled = v.sendDisabled /\ Render(Reset(v), d).sendDisabled = v.sendDisabled
         /\ Reset(Render(v, d)).sendDisabled = v.sendDisabled
<1>1. v \in Pane /\ d \in View
  BY DEF PaneOK, Seen
<1>2. \A p \in Pane : /\ Reset(p) \in Pane
                      /\ Reset(p).draft = p.draft /\ Reset(p).known = p.known /\ Reset(p).screen = p.screen
                      /\ Reset(p).sendDisabled = p.sendDisabled /\ Reset(p).confirmation.id = 0
                      /\ ~Reset(p).confirming
  BY DEF Reset, Pane
<1>3. \A p \in Pane : /\ Render(p, d) \in Pane
                      /\ Render(p, d).draft = d /\ Render(p, d).known = p.known \cup {d.version}
                      /\ Render(p, d).sendDisabled = p.sendDisabled
                      /\ Render(p, d).confirmation = p.confirmation
                      /\ Render(p, d).confirming = p.confirming
  BY <1>1 DEF Render, Pane, View
<1>4. Reset(v) \in Pane /\ Render(v, d) \in Pane
  BY <1>1, <1>2, <1>3
<1>5. d.version \in 1..top /\ d.version # 0
  BY DEF Seen
<1>6. v.known \subseteq 1..top /\ v.confirmation.id <= ids /\ (v.confirming => v.confirmation.id # 0)
  BY DEF PaneOK
<1>7. PaneOK(Render(v, d), top, ids) /\ Grows(v, Render(v, d))
  BY <1>1, <1>3, <1>5, <1>6 DEF PaneOK, Grows
<1>8. PaneOK(Render(Reset(v), d), top, ids) /\ Grows(v, Render(Reset(v), d))
  BY <1>1, <1>2, <1>3, <1>4, <1>5, <1>6 DEF PaneOK, Grows
<1>9. PaneOK(Reset(Render(v, d)), top, ids) /\ Grows(v, Reset(Render(v, d)))
  BY <1>1, <1>2, <1>3, <1>4, <1>5, <1>6 DEF PaneOK, Grows
<1> QED BY <1>1, <1>2, <1>3, <1>4, <1>7, <1>8, <1>9

LEMMA OpenIsSound ==
  ASSUME Inv, NEW w \in Windows, Open(w)
  PROVE  Inv'
<1> DEFINE d == ViewOf(server)
           v == Render(window[w], d)
<1>1. server \in Row /\ server.version \in Nat \ {0}
  BY Numbers DEF Inv
<1>2. Seen(d, server.version)
  BY <1>1 DEF ViewOf, Seen, View
<1>3. /\ PaneOK(v, server.version, issued) /\ Grows(window[w], v)
      /\ v.sendDisabled = window[w].sendDisabled
  BY <1>2, OfWindow, Renders
<1>4. /\ window' = [window EXCEPT ![w] = v] /\ notice' = [notice EXCEPT ![w] = d]
      /\ UNCHANGED <<rows, call, late, lost, patient>>
  BY DEF Open
<1>5. DOMAIN notice' = Windows /\ \A u \in Windows : notice'[u] # None => Seen(notice'[u], server.version)
  BY <1>2, <1>4, OfWindow
<1> HIDE DEF v, d
<1> QED BY <1>3, <1>4, <1>5, WindowMoves

LEMMA ToolResultIsSound ==
  ASSUME Inv, NEW w \in Windows, ToolResult(w)
  PROVE  Inv'
<1> DEFINE v == Render(window[w], notice[w])
<1>1. Seen(notice[w], server.version)
  BY OfWindow DEF ToolResult
<1>2. /\ PaneOK(v, server.version, issued) /\ Grows(window[w], v)
      /\ v.sendDisabled = window[w].sendDisabled
  BY <1>1, OfWindow, Renders
<1>3. /\ window' = [window EXCEPT ![w] = v] /\ notice' = [notice EXCEPT ![w] = None]
      /\ UNCHANGED <<rows, call, late, lost, patient>>
  BY DEF ToolResult
<1>4. DOMAIN notice' = Windows /\ \A u \in Windows : notice'[u] # None => Seen(notice'[u], server.version)
  BY <1>3, OfWindow
<1> HIDE DEF v
<1> QED BY <1>2, <1>3, <1>4, WindowMoves

LEMMA TypeIsSound ==
  ASSUME Inv, NEW w \in Windows, NEW t \in Texts, Type(w, t)
  PROVE  Inv'
<1> DEFINE v == [Reset(window[w]) EXCEPT !.screen = t]
<1>1. /\ v \in Pane /\ v.draft = window[w].draft /\ v.known = window[w].known
      /\ v.confirmation.id = 0 /\ ~v.confirming /\ v.sendDisabled = window[w].sendDisabled
  BY OfWindow DEF Reset, Pane
<1>2. window' = [window EXCEPT ![w] = v] /\ UNCHANGED <<rows, call, host>>
  BY DEF Type
<1> HIDE DEF v
<1>3. PaneOK(v, server.version, issued) /\ Grows(window[w], v)
  BY <1>1, OfWindow DEF PaneOK, Grows
<1>4. /\ notice' = notice /\ UNCHANGED <<rows, late, lost, patient>>
      /\ call' = call
  BY <1>2 DEF host
<1>5. DOMAIN notice' = Windows /\ \A u \in Windows : notice'[u] # None => Seen(notice'[u], server.version)
  BY <1>4, OfWindow
<1> QED BY <1>1, <1>2, <1>3, <1>4, <1>5, WindowMoves

LEMMA CancelIsSound ==
  ASSUME Inv, NEW w \in Windows, ClickCancel(w)
  PROVE  Inv'
<1> DEFINE v == Cancelled(window[w])
<1>1. /\ v \in Pane /\ v.draft = window[w].draft /\ v.known = window[w].known
      /\ v.confirmation.id = 0 /\ ~v.confirming /\ v.sendDisabled = window[w].sendDisabled
  BY OfWindow DEF Cancelled, Pane
<1>2. window' = [window EXCEPT ![w] = v] /\ UNCHANGED <<rows, call, host>>
  BY DEF ClickCancel
<1> HIDE DEF v
<1>3. PaneOK(v, server.version, issued) /\ Grows(window[w], v)
  BY <1>1, OfWindow DEF PaneOK, Grows
<1>4. /\ notice' = notice /\ UNCHANGED <<rows, late, lost, patient>>
      /\ call' = call
  BY <1>2 DEF host
<1>5. DOMAIN notice' = Windows /\ \A u \in Windows : notice'[u] # None => Seen(notice'[u], server.version)
  BY <1>4, OfWindow
<1> QED BY <1>1, <1>2, <1>3, <1>4, <1>5, WindowMoves

\* A window asks the server for something other than a send.
LEMMA AskingIsSound ==
  ASSUME Inv, NEW w \in Windows, NEW s \in Slots, NEW r,
         IsOpen(w), Calls(w, s, r), UNCHANGED <<rows, window, host>>,
         r \in Call, r.id = 0 /\ r.held.id = 0 /\ ~r.ok, r.tool \in Tools \ {"send_draft"},
         r.tool \in Editing => r.version = window[w].draft.version,
         r.tool = "update_draft" =>
           /\ r.text \in Texts
           /\ r.then \in {"none", "validate", "remove"} \/ (r.then = "add" /\ r.file \in Files),
         r.tool # "add_draft_attachment"
  PROVE  Inv'
<1> DEFINE n == [r EXCEPT !.from = w, !.state = "requested"]
<1>1. /\ n \in Call /\ n.id = 0 /\ n.held.id = 0 /\ ~n.ok /\ n.tool = r.tool /\ n.from = w
      /\ n.state = "requested"
      /\ n.version = r.version /\ n.text = r.text /\ n.file = r.file /\ n.then = r.then
  BY DEF Call
<1>2. call[w][s] = Idle /\ call' = [call EXCEPT ![w][s] = n]
  BY DEF Calls
<1> HIDE DEF n
<1>3. window[w].draft.version # 0 /\ window[w].draft.version \in window[w].known
  BY OfWindow DEF IsOpen, PaneOK
<1>4. CallOK(n, w, window[w], server.version, issued)
  BY <1>1, <1>3, OfWindow, NoneIsNothing DEF CallOK, Asked
<1>5. ButtonFollows(window[w], window[w], call[w][s], n)
  BY <1>1, <1>2, IdleIs DEF ButtonFollows
<1>6. Grows(window[w], window[w])
  BY DEF Grows
<1>7. window' = [window EXCEPT ![w] = window[w]] /\ PaneOK(window[w], server.version, issued)
  BY OfWindow
<1> QED BY <1>2, <1>4, <1>5, <1>6, <1>7, SlotMoves

\* A window asks for a saving, whatever follows it.
LEMMA SavingIsSound ==
  ASSUME Inv, NEW w \in Windows, NEW s \in Slots, NEW then, NEW file,
         \/ then \in {"none", "validate", "remove"} /\ file \in Files \cup {None}
         \/ then = "add" /\ file \in Files,
         IsOpen(w), Calls(w, s, UpdateCall(w, then, file)), UNCHANGED <<rows, window, host>>
  PROVE  Inv'
<1> DEFINE r == UpdateCall(w, then, file)
<1>1. window[w] \in Pane /\ window[w].draft.version \in Nat /\ window[w].screen \in Texts
  BY OfWindow DEF Pane, View
<1>2. /\ r \in Call /\ r.id = 0 /\ r.held.id = 0 /\ ~r.ok /\ r.tool = "update_draft"
      /\ r.version = window[w].draft.version
      /\ r.text = window[w].screen /\ r.then = then /\ r.file = file
  BY <1>1 DEF UpdateCall, Idle, Call
<1> HIDE DEF r
<1>3. Calls(w, s, r)
  BY DEF r
<1> QED BY <1>1, <1>2, <1>3, AskingIsSound

LEMMA ClickSaveIsSound ==
  ASSUME Inv, NEW w \in Windows, NEW s \in Slots, NEW then \in {"none", "validate"}, ClickSave(w, s, then)
  PROVE  Inv'
BY SavingIsSound DEF ClickSave, MayAct

LEMMA ChooseFileIsSound ==
  ASSUME Inv, NEW w \in Windows, NEW s \in Slots, NEW f \in Files, ChooseFile(w, s, f)
  PROVE  Inv'
BY SavingIsSound DEF ChooseFile, MayAct

LEMMA ClickRemoveIsSound ==
  ASSUME Inv, NEW w \in Windows, NEW s \in Slots, NEW f \in Files, ClickRemove(w, s, f)
  PROVE  Inv'
BY SavingIsSound DEF ClickRemove, MayAct

LEMMA ClickPrepareIsSound ==
  ASSUME Inv, NEW w \in Windows, NEW s \in Slots, ClickPrepare(w, s)
  PROVE  Inv'
<1> DEFINE r == [Idle EXCEPT !.tool = "prepare_draft_send"]
<1>1. r \in Call /\ r.id = 0 /\ r.held.id = 0 /\ ~r.ok /\ r.tool = "prepare_draft_send"
  BY DEF Idle, Call
<1>2. IsOpen(w) /\ Calls(w, s, r) /\ UNCHANGED <<rows, window, host>>
  BY DEF ClickPrepare, MayAct
<1> HIDE DEF r
<1> QED BY <1>1, <1>2, AskingIsSound

LEMMA ClickSendIsSound ==
  ASSUME Inv, NEW w \in Windows, NEW s \in Slots, ClickSend(w, s)
  PROVE  Inv'
<1> DEFINE v == [window[w] EXCEPT !.sendDisabled = TRUE]
           n == [Idle EXCEPT !.tool = "send_draft", !.shown = Shown(w),
                             !.id = window[w].confirmation.id,
                             !.version = window[w].confirmation.version,
                             !.from = w, !.state = "requested"]
<1>1. /\ window[w] \in Pane /\ PaneOK(window[w], server.version, issued)
      /\ window[w].confirmation \in Approval /\ Shown(w) \in Content /\ DOMAIN window = Windows
  BY OfWindow DEF Pane, View, Shown, Content
<1>2. /\ v \in Pane /\ v.draft = window[w].draft /\ v.known = window[w].known
      /\ v.confirmation = window[w].confirmation /\ v.confirming = window[w].confirming
      /\ v.sendDisabled
  BY <1>1 DEF Pane
<1>3. /\ n \in Call /\ n.id = window[w].confirmation.id /\ n.held.id = 0 /\ ~n.ok
      /\ n.tool = "send_draft" /\ n.from = w
      /\ n.state = "requested"
  BY <1>1 DEF Idle, Call
<1>4. /\ ~window[w].sendDisabled /\ IsOpen(w) /\ call[w][s] = Idle
      /\ window' = [window EXCEPT ![w] = v] /\ UNCHANGED <<rows, host>>
  BY <1>1 DEF ClickSend, MayAct, Calls
<1>5. call' = [call EXCEPT ![w][s] = n]
  BY DEF ClickSend, Calls, Idle
<1> HIDE DEF v, n
<1>6. PaneOK(v, server.version, issued) /\ Grows(window[w], v)
  BY <1>1, <1>2 DEF PaneOK, Grows
<1>7. CallOK(n, w, v, server.version, issued)
  BY <1>1, <1>2, <1>3, <1>4, OfWindow DEF CallOK, Asked, IsOpen, PaneOK
<1>8. ButtonFollows(window[w], v, call[w][s], n)
  BY <1>2, <1>3, <1>4, IdleIs DEF ButtonFollows
<1> QED BY <1>4, <1>5, <1>6, <1>7, <1>8, SlotMoves

LEMMA FailedIsSound ==
  ASSUME Inv, NEW w \in Windows, NEW s \in Slots, Failed(w, s)
  PROVE  Inv'
<1> DEFINE r == call[w][s]
           v == Enabled(window[w], r)
<1>1. /\ v \in Pane /\ v.draft = window[w].draft /\ v.known = window[w].known
      /\ v.confirmation = window[w].confirmation /\ v.confirming = window[w].confirming
      /\ (r.tool = "send_draft" => ~v.sendDisabled)
      /\ (r.tool # "send_draft" => v.sendDisabled = window[w].sendDisabled)
  BY OfWindow DEF Enabled, Pane
<1>2. window' = [window EXCEPT ![w] = v] /\ call' = [call EXCEPT ![w][s] = Idle] /\ UNCHANGED <<rows, host>>
  BY DEF Failed, Done
<1> HIDE DEF v
<1>3. PaneOK(v, server.version, issued) /\ Grows(window[w], v)
  BY <1>1, OfWindow DEF PaneOK, Grows
<1>4. CallOK(Idle, w, v, server.version, issued)
  BY IdleIsOK, OfWindow
<1>5. ButtonFollows(window[w], v, r, Idle)
  BY <1>1, IdleIs DEF ButtonFollows
<1> QED BY <1>2, <1>3, <1>4, <1>5, SlotMoves

\* A call that is not a send is over, and the window goes on from v.
LEMMA EndingIsSound ==
  ASSUME Inv, NEW w \in Windows, NEW s \in Slots, NEW v,
         call[w][s].tool # "send_draft", v.sendDisabled = window[w].sendDisabled,
         PaneOK(v, server.version, issued), Grows(window[w], v),
         window' = [window EXCEPT ![w] = v], Done(w, s), UNCHANGED <<rows, host>>
  PROVE  Inv'
<1>1. CallOK(Idle, w, v, server.version, issued)
  BY IdleIsOK, OfWindow
<1>2. ButtonFollows(window[w], v, call[w][s], Idle)
  BY IdleIs DEF ButtonFollows
<1> QED BY <1>1, <1>2, SlotMoves DEF Done

\* What a window has been told.
LEMMA OfAnswer ==
  ASSUME Inv, NEW w \in Windows, NEW s \in Slots, NEW tool, Answered(w, s, tool)
  PROVE  /\ Answer(call[w][s], server.version) /\ call[w][s].tool = tool
         /\ Seen(call[w][s].draft, server.version) /\ window[w].draft.version # 0
BY OfSlot, IdleIs DEF Answered, CallOK, Answer

LEMMA FileReadIsSound ==
  ASSUME Inv, NEW w \in Windows, NEW s \in Slots, FileRead(w, s)
  PROVE  Inv'
<1> DEFINE r == call[w][s]
           n == [Idle EXCEPT !.state = "requested", !.from = w, !.tool = "add_draft_attachment",
                             !.file = r.file, !.version = window[w].draft.version]
<1>1. r.state = "reading" /\ r.tool = None /\ r.file \in Files /\ window[w].draft.version # 0
  BY OfSlot, IdleIs DEF FileRead, CallOK
<1>2. window[w] \in Pane /\ PaneOK(window[w], server.version, issued) /\ window[w].draft.version \in Nat
  BY OfWindow DEF Pane, View
<1>3. /\ n \in Call /\ n.tool = "add_draft_attachment" /\ n.version = window[w].draft.version
      /\ n.file = r.file /\ n.from = w /\ n.state = "requested" /\ n.id = 0 /\ n.held.id = 0 /\ ~n.ok
  BY <1>1, <1>2 DEF Idle, Call
<1>4. /\ window' = [window EXCEPT ![w] = window[w]] /\ UNCHANGED <<rows, host>>
      /\ call' = [call EXCEPT ![w][s] = n] \/ call' = [call EXCEPT ![w][s] = Idle]
  BY OfWindow DEF FileRead, Done
<1> HIDE DEF n
<1>5. CallOK(n, w, window[w], server.version, issued)
  BY <1>1, <1>2, <1>3, OfWindow DEF CallOK, Asked, PaneOK
<1>6. CallOK(Idle, w, window[w], server.version, issued) /\ Idle.tool = None
  BY IdleIsOK, Numbers DEF Inv, Idle
<1>7. ASSUME NEW m \in {n, Idle} PROVE ButtonFollows(window[w], window[w], r, m)
  BY <1>1, <1>3, <1>6, NoneIsNothing DEF ButtonFollows
<1>8. Grows(window[w], window[w])
  BY DEF Grows
<1> QED BY <1>2, <1>4, <1>5, <1>6, <1>7, <1>8, SlotMoves

LEMMA ValidatedIsSound ==
  ASSUME Inv, NEW w \in Windows, NEW s \in Slots, Validated(w, s)
  PROVE  Inv'
<1> DEFINE v == [window[w] EXCEPT !.review = call[w][s].verdict]
<1>1. /\ call[w][s].tool = "validate_draft" /\ call[w][s].verdict \in {"passed", "blocked"}
  BY OfAnswer DEF Validated, Answer
<1>2. /\ v \in Pane /\ v.draft = window[w].draft /\ v.known = window[w].known
      /\ v.confirmation = window[w].confirmation /\ v.confirming = window[w].confirming
      /\ v.sendDisabled = window[w].sendDisabled
  BY <1>1, OfWindow DEF Pane
<1>3. window' = [window EXCEPT ![w] = v] /\ Done(w, s) /\ UNCHANGED <<rows, host>>
  BY OfWindow DEF Validated
<1> HIDE DEF v
<1>4. PaneOK(v, server.version, issued) /\ Grows(window[w], v)
  BY <1>2, OfWindow DEF PaneOK, Grows
<1> QED BY <1>1, <1>2, <1>3, <1>4, EndingIsSound

LEMMA DetachedIsSound ==
  ASSUME Inv, NEW w \in Windows, NEW s \in Slots, Detached(w, s)
  PROVE  Inv'
<1> DEFINE v == Render(Reset(window[w]), call[w][s].draft)
<1>1. call[w][s].tool = "remove_draft_attachment" /\ Seen(call[w][s].draft, server.version)
  BY OfAnswer DEF Detached
<1>2. /\ PaneOK(v, server.version, issued) /\ Grows(window[w], v)
      /\ v.sendDisabled = window[w].sendDisabled
  BY <1>1, OfWindow, Renders
<1>3. window' = [window EXCEPT ![w] = v] /\ Done(w, s) /\ UNCHANGED <<rows, host>>
  BY DEF Detached
<1> HIDE DEF v
<1> QED BY <1>1, <1>2, <1>3, EndingIsSound

LEMMA PreparedIsSound ==
  ASSUME Inv, NEW w \in Windows, NEW s \in Slots, Prepared(w, s)
  PROVE  Inv'
<1> DEFINE v == [window[w] EXCEPT !.confirmation = call[w][s].held, !.confirming = TRUE]
<1>1. /\ call[w][s].tool = "prepare_draft_send" /\ call[w][s].held.id # 0 /\ call[w][s].held.id <= issued
      /\ call[w][s].held \in Approval
  BY OfAnswer, OfSlot DEF Prepared, Answer, Call, CallOK
<1>2. /\ v \in Pane /\ v.draft = window[w].draft /\ v.known = window[w].known
      /\ v.confirmation = call[w][s].held /\ v.sendDisabled = window[w].sendDisabled
  BY <1>1, OfWindow DEF Pane
<1>3. window' = [window EXCEPT ![w] = v] /\ Done(w, s) /\ UNCHANGED <<rows, host>>
  BY OfWindow DEF Prepared
<1> HIDE DEF v
<1>4. PaneOK(v, server.version, issued) /\ Grows(window[w], v)
  BY <1>1, <1>2, OfWindow DEF PaneOK, Grows
<1> QED BY <1>1, <1>2, <1>3, <1>4, EndingIsSound

LEMMA SentIsSound ==
  ASSUME Inv, NEW w \in Windows, NEW s \in Slots, Sent(w, s)
  PROVE  Inv'
<1> DEFINE r == call[w][s]
           u == Render(window[w], r.draft)
           v == [Enabled(u, r) EXCEPT !.confirming = FALSE]
<1>1. r.tool = "send_draft" /\ Seen(r.draft, server.version)
  BY OfAnswer DEF Sent
<1>2. PaneOK(u, server.version, issued) /\ Grows(window[w], u) /\ u \in Pane
  BY <1>1, OfWindow, Renders
<1>3. window' = [window EXCEPT ![w] = v] /\ call' = [call EXCEPT ![w][s] = Idle] /\ UNCHANGED <<rows, host>>
  BY DEF Sent, Done
<1> HIDE DEF u
<1>4. /\ v \in Pane /\ v.draft = u.draft /\ v.known = u.known
      /\ v.confirmation = u.confirmation /\ ~v.confirming /\ ~v.sendDisabled
  BY <1>1, <1>2 DEF Enabled, Pane
<1> HIDE DEF v
<1>5. PaneOK(v, server.version, issued) /\ Grows(window[w], v)
  BY <1>2, <1>4 DEF PaneOK, Grows
<1>6. CallOK(Idle, w, v, server.version, issued) /\ ButtonFollows(window[w], v, r, Idle)
  BY <1>1, <1>4, IdleIsOK, IdleIs, OfWindow DEF ButtonFollows
<1> QED BY <1>3, <1>5, <1>6, SlotMoves

LEMMA SavedIsSound ==
  ASSUME Inv, NEW w \in Windows, NEW s \in Slots, Saved(w, s)
  PROVE  Inv'
<1> DEFINE r == call[w][s]
           v == Render(Reset(window[w]), r.draft)
           n == CASE r.then = "none"     -> Idle
                  [] r.then = "validate" -> [Idle EXCEPT !.state = "requested", !.from = w,
                                                         !.tool = "validate_draft"]
                  [] r.then = "add"      -> [Idle EXCEPT !.state = "reading", !.file = r.file]
                  [] r.then = "remove"   -> [Idle EXCEPT !.state = "requested", !.from = w,
                                                         !.tool = "remove_draft_attachment",
                                                         !.file = r.file, !.version = r.draft.version]
<1>1. /\ r.tool = "update_draft" /\ Seen(r.draft, server.version) /\ r \in Call
      /\ r.then \in {"none", "validate", "remove"} \/ (r.then = "add" /\ r.file \in Files)
  BY OfAnswer, OfSlot DEF Saved, CallOK
<1>2. /\ PaneOK(v, server.version, issued) /\ Grows(window[w], v) /\ v \in Pane
      /\ v.sendDisabled = window[w].sendDisabled
  BY <1>1, OfWindow, Renders
<1>3. window' = [window EXCEPT ![w] = v] /\ call' = [call EXCEPT ![w][s] = n] /\ UNCHANGED <<rows, host>>
  BY DEF Saved
<1>4. v.draft = r.draft /\ r.draft.version \in v.known /\ r.draft.version # 0 /\ r.draft.version \in Nat
  BY <1>1, OfWindow DEF Render, Reset, Pane, Seen, View
<1> HIDE DEF v
<1>5. CallOK(n, w, v, server.version, issued) /\ n.tool # "send_draft"
  <2>1. CASE r.then = "none"
    BY <2>1, IdleIsOK, IdleIs, OfWindow
  <2>2. CASE r.then = "validate"
    <3> DEFINE m == [Idle EXCEPT !.state = "requested", !.from = w, !.tool = "validate_draft"]
    <3>1. m \in Call /\ m.id = 0 /\ m.held.id = 0 /\ ~m.ok /\ m.state = "requested" /\ m.from = w
          /\ m.tool = "validate_draft"
      BY DEF Idle, Call
    <3>2. n = m
      BY <2>2
    <3> HIDE DEF m, n
    <3> QED BY <3>1, <3>2, <1>4, OfWindow DEF CallOK, Asked
  <2>3. CASE r.then = "add"
    <3> DEFINE m == [Idle EXCEPT !.state = "reading", !.file = r.file]
    <3>1. /\ m \in Call /\ m.id = 0 /\ m.held.id = 0 /\ ~m.ok /\ m.state = "reading"
          /\ m.file = r.file /\ m.tool = None
      BY <1>1, <2>3 DEF Idle, Call
    <3>2. n = m
      BY <2>3
    <3> HIDE DEF m, n
    <3> QED BY <1>1, <2>3, <3>1, <3>2, <1>4, OfWindow, NoneIsNothing DEF CallOK, Asked
  <2>4. CASE r.then = "remove"
    <3> DEFINE m == [Idle EXCEPT !.state = "requested", !.from = w, !.tool = "remove_draft_attachment",
                                 !.file = r.file, !.version = r.draft.version]
    <3>0. r.file \in Files \cup {None} /\ r.draft.version \in Nat
      BY <1>1, <1>4 DEF Call
    <3>1. /\ m \in Call /\ m.id = 0 /\ m.held.id = 0 /\ ~m.ok /\ m.state = "requested" /\ m.from = w
          /\ m.tool = "remove_draft_attachment" /\ m.version = r.draft.version
      BY <3>0 DEF Idle, Call
    <3>2. n = m
      BY <2>4
    <3> HIDE DEF m, n
    <3> QED BY <3>1, <3>2, <1>4, OfWindow DEF CallOK, Asked
  <2> HIDE DEF n
  <2> QED BY <1>1, <2>1, <2>2, <2>3, <2>4
<1> HIDE DEF n
<1>6. ButtonFollows(window[w], v, r, n)
  BY <1>1, <1>2, <1>5 DEF ButtonFollows
<1> QED BY <1>2, <1>3, <1>5, <1>6, SlotMoves

LEMMA AttachedIsSound ==
  ASSUME Inv, NEW w \in Windows, NEW s \in Slots, Attached(w, s)
  PROVE  Inv'
<1> DEFINE r == call[w][s]
           v == Render(window[w], r.draft)
<1>1. r.tool = "add_draft_attachment" /\ Seen(r.draft, server.version) /\ UNCHANGED <<rows, host>>
  BY OfAnswer DEF Attached
<1>2. /\ PaneOK(v, server.version, issued) /\ Grows(window[w], v) /\ v.sendDisabled = window[w].sendDisabled
      /\ PaneOK(Reset(v), server.version, issued) /\ Grows(window[w], Reset(v))
      /\ Reset(v).sendDisabled = window[w].sendDisabled
  BY <1>1, OfWindow, Renders
<1>3. CASE window' = [window EXCEPT ![w] = Reset(v)] /\ Done(w, s)
  BY <1>1, <1>2, <1>3, EndingIsSound
<1>4. ASSUME NEW f \in Files, window' = [window EXCEPT ![w] = v],
             call' = [call EXCEPT ![w][s] = [Idle EXCEPT !.state = "reading", !.file = f]]
      PROVE  Inv'
  <2> DEFINE n == [Idle EXCEPT !.state = "reading", !.file = f]
  <2>1. n \in Call /\ n.id = 0 /\ n.held.id = 0 /\ ~n.ok /\ n.state = "reading" /\ n.file = f /\ n.tool = None
    BY DEF Idle, Call
  <2>2. v.draft = r.draft /\ r.draft.version # 0
    BY <1>1, OfWindow DEF Render, Pane, Seen
  <2>3. call' = [call EXCEPT ![w][s] = n]
    BY <1>4
  <2> HIDE DEF n, v
  <2>4. CallOK(n, w, v, server.version, issued) /\ ButtonFollows(window[w], v, r, n)
    BY <1>1, <1>2, <2>1, <2>2, OfWindow, NoneIsNothing DEF CallOK, ButtonFollows
  <2> QED BY <1>1, <1>2, <1>4, <2>3, <2>4, SlotMoves
<1> QED BY <1>3, <1>4 DEF Attached

\* Whatever a window does by itself.
LEMMA WindowIsSound ==
  ASSUME Inv, NEW w \in Windows, User(w) \/ Widget(w)
  PROVE  Inv'
<1>1. CASE User(w)
  BY <1>1, TypeIsSound, CancelIsSound, ClickSaveIsSound, ChooseFileIsSound, ClickRemoveIsSound,
     ClickPrepareIsSound, ClickSendIsSound DEF User
<1>2. CASE Widget(w)
  BY <1>2, OpenIsSound, ToolResultIsSound, FailedIsSound, SavedIsSound, FileReadIsSound, ValidatedIsSound,
     AttachedIsSound, DetachedIsSound, PreparedIsSound, SentIsSound DEF Widget
<1> QED BY <1>1, <1>2

----------------------------------------------------------------------------
\* What the server does

\* The server does something about the call r.
Handles(r) == Performs(r) \/ SubmitDraft(r) \/ Refuses(r)

\* What a call r makes of the rows.
Outcome(r) ==
  /\ Server' /\ server.version <= server'.version /\ issued <= issued'
  /\ \/ /\ r.tool \in Editing /\ r.version = server.version /\ server.status = "draft"
        /\ server'.version = server.version + 1 /\ confirmation' = NoApproval /\ editor' = r.from
        /\ r.tool = "update_draft" => server'.text = r.text /\ server'.files = server.files
        /\ issued' = issued /\ delivery' = delivery
     \/ /\ server' = server /\ issued' = issued /\ editor' = editor
        /\ confirmation' \in {confirmation, NoApproval} /\ delivery' = delivery
     \/ /\ server' = server /\ issued' = issued + 1 /\ delivery' = delivery /\ editor' = editor
        /\ confirmation' = [id |-> issued + 1, version |-> server.version]
     \/ /\ SubmitDraft(r)
        /\ server' = server /\ issued' = issued

\* Whatever the server does about a call has one of the four outcomes.
LEMMA ServerHandles ==
  ASSUME Server, NEW r, NEW w, NEW known, r \in Call, Asked(r, w, known), Handles(r),
         UNCHANGED patient, lost' \in 0..MaxLost[patient]
  PROVE  Outcome(r)
<1> DEFINE most == MaxVersion[patient]
           approvals == MaxConfirmations[patient]
<1>0. /\ most \in Nat /\ approvals \in Nat /\ MaxLost[patient] \in Nat
  BY ComposerBounds, PatienceIsBoolean DEF Server
<1> HIDE DEF most, approvals
<1>1. RowsOK(server, confirmation, delivery, issued, lost, most, approvals, MaxLost[patient])
  BY DEF Server, most, approvals
<1>2. /\ server \in Row /\ server.version \in Nat \ {0} /\ issued \in Nat
      /\ confirmation \in Approval /\ delivery \in Submission
  BY <1>0, <1>1 DEF RowsOK
<1>3. ASSUME NEW text \in Texts, NEW files \in SUBSET Files,
             r.tool \in Editing, Edits(r), Edited(r, text, files),
             r.tool = "update_draft" => text = r.text /\ files = server.files
      PROVE  Outcome(r)
  <2>1. /\ server.status = "draft" /\ r.version = server.version /\ server.version < most
    BY <1>3 DEF Edits, most
  <2>2. /\ server' \in Row /\ server'.status = "draft" /\ server'.version = server.version + 1
        /\ server'.text = text /\ server'.files = files
    <3>1. server' = [server EXCEPT !.text = text, !.files = files, !.version = server.version + 1]
      BY <1>3 DEF Edited
    <3>2. server.version + 1 \in Nat /\ server \in Row
      BY <1>2
    <3> QED BY <2>1, <3>1, <3>2
  <2>3. confirmation' = NoApproval /\ issued' = issued /\ delivery' = delivery /\ editor' = r.from
    BY <1>3 DEF Edited
  <2>4. RowsOK(server', confirmation', delivery', issued', lost', most, approvals, MaxLost[patient])
    BY <1>0, <1>1, <1>2, <2>1, <2>2, <2>3 DEF RowsOK
  <2>5. Server'
    BY <2>4 DEF Server, most, approvals
  <2> QED BY <1>2, <1>3, <2>1, <2>2, <2>3, <2>5 DEF Outcome
<1>4. CASE UpdateDraft(r)
  <2>1. r.text \in Texts /\ server.files \in SUBSET Files /\ r.tool = "update_draft"
    BY <1>2, <1>4 DEF UpdateDraft, Asked
  <2> QED BY <1>3, <1>4, <2>1 DEF UpdateDraft
<1>5. CASE AddDraftAttachment(r)
  <2>1. r.file \in Files /\ server.files \cup {r.file} \in SUBSET Files /\ server.text \in Texts
        /\ r.tool = "add_draft_attachment"
    BY <1>2, <1>5 DEF AddDraftAttachment, Asked
  <2> QED BY <1>3, <1>5, <2>1 DEF AddDraftAttachment
<1>6. CASE RemoveDraftAttachment(r)
  <2>1. /\ server.files \ {r.file} \in SUBSET Files /\ server.text \in Texts
        /\ r.tool = "remove_draft_attachment"
    BY <1>2, <1>6 DEF RemoveDraftAttachment
  <2> QED BY <1>3, <1>6, <2>1 DEF RemoveDraftAttachment
<1>7. CASE server' = server /\ issued' = issued /\ editor' = editor /\ delivery' = delivery
           /\ confirmation' \in {confirmation, NoApproval}
  <2>1. RowsOK(server', confirmation', delivery', issued', lost', most, approvals, MaxLost[patient])
    BY <1>0, <1>1, <1>2, <1>7 DEF RowsOK
  <2>2. Server'
    BY <2>1 DEF Server, most, approvals
  <2> QED BY <1>2, <1>7, <2>2 DEF Outcome
<1>8. CASE PrepareDraftSend(r)
  <2>1. /\ server.status = "draft" /\ issued < approvals /\ issued' = issued + 1
        /\ confirmation' = [id |-> issued + 1, version |-> server.version]
        /\ server' = server /\ delivery' = delivery /\ editor' = editor
    BY <1>8 DEF PrepareDraftSend, approvals
  <2>2. confirmation' \in Approval /\ confirmation'.id = issued + 1 /\ confirmation'.version = server.version
    BY <1>2, <2>1
  <2>3. RowsOK(server', confirmation', delivery', issued', lost', most, approvals, MaxLost[patient])
    BY <1>0, <1>1, <1>2, <2>1, <2>2 DEF RowsOK
  <2>4. Server'
    BY <2>3 DEF Server, most, approvals
  <2> QED BY <1>2, <2>1, <2>4 DEF Outcome
<1>9. CASE SubmitDraft(r)
  <2>1. /\ confirmation' = NoApproval /\ server' = server /\ issued' = issued /\ editor' = editor
        /\ delivery' = [state |-> "submitting", content |-> ContentOf(server), shown |-> r.shown]
    BY <1>9 DEF SubmitDraft
  <2>2. ContentOf(server) \in Content /\ r.shown \in Content \cup {None}
    BY <1>2 DEF ContentOf, Content, Call
  <2>3. delivery' \in Submission
    BY <2>1, <2>2
  <2>4. RowsOK(server', confirmation', delivery', issued', lost', most, approvals, MaxLost[patient])
    BY <1>0, <1>1, <1>2, <2>1, <2>3 DEF RowsOK
  <2>5. Server'
    BY <2>4 DEF Server, most, approvals
  <2> QED BY <1>2, <1>9, <2>1, <2>5 DEF Outcome
<1>10. CASE ValidateDraft(r) \/ ReplayDraft(r)
  BY <1>7, <1>10 DEF ValidateDraft, ReplayDraft, rows
<1>11. CASE Refuses(r)
  BY <1>7, <1>11 DEF Refuses, rows
<1> QED BY <1>4, <1>5, <1>6, <1>8, <1>9, <1>10, <1>11 DEF Handles, Performs

\* The server has moved, and the calls with it, without the windows.
LEMMA RowsMove ==
  ASSUME Inv, Server', server.version <= server'.version, issued <= issued', UNCHANGED <<window, notice>>,
         DOMAIN call' = Windows, \A w \in Windows : DOMAIN call'[w] = Slots,
         call' \in [Windows -> [Slots -> Call]],
         \A w \in Windows, s \in Slots :
           /\ CallOK(call'[w][s], w, window[w], server'.version, issued')
           /\ call'[w][s].tool = call[w][s].tool,
         \A r \in late' : r.from \in Windows /\ LateOK(r, window[r.from].known, issued')
  PROVE  Inv'
<1>1. /\ server.version \in Nat /\ issued \in Nat /\ server'.version \in Nat /\ issued' \in Nat
  BY Numbers DEF Inv, Server, RowsOK
<1>2. \A w \in Windows : PaneOK(window[w], server'.version, issued')
  BY <1>1, PanesLast DEF Inv, Widgets
<1>3. \A w \in Windows : notice[w] # None => Seen(notice[w], server'.version)
  BY <1>1 DEF Inv, Widgets, Seen
<1>4. ASSUME NEW w \in Windows PROVE SendsOK(window[w], call'[w])
  <2>1. SendsOK(window[w], call[w]) /\ \A s \in Slots : call'[w][s].tool = call[w][s].tool
    BY DEF Inv, Widgets
  <2> QED BY <2>1 DEF SendsOK
<1>5. Widgets'
  BY <1>2, <1>3, <1>4 DEF Inv, Widgets
<1>6. GivenUp'
  BY DEF GivenUp
<1> QED BY <1>5, <1>6 DEF Inv

\* One call is given the record n; the late calls are those there were, or fewer, or one more.
LEMMA CallMoves ==
  ASSUME Inv, Server', server.version <= server'.version, issued <= issued', UNCHANGED <<window, notice>>,
         NEW w \in Windows, NEW s \in Slots, NEW n, call' = [call EXCEPT ![w][s] = n],
         CallOK(n, w, window[w], server'.version, issued'), n.tool = call[w][s].tool,
         late' \subseteq late \cup {call[w][s]}, call[w][s].state = "requested" \/ late' \subseteq late
  PROVE  Inv'
<1>1. /\ server.version \in Nat /\ issued \in Nat /\ server'.version \in Nat /\ issued' \in Nat
  BY Numbers DEF Inv, Server, RowsOK
<1>2. /\ call' \in [Windows -> [Slots -> Call]] /\ call'[w][s] = n
      /\ \A u \in Windows, t \in Slots : u # w \/ t # s => call'[u][t] = call[u][t]
  BY DEF Inv, Widgets, CallOK
<1>3. \A u \in Windows, t \in Slots : CallOK(call[u][t], u, window[u], server'.version, issued')
  BY <1>1, CallsLast DEF Inv, Widgets
<1>4. \A u \in Windows, t \in Slots :
        /\ CallOK(call'[u][t], u, window[u], server'.version, issued')
        /\ call'[u][t].tool = call[u][t].tool
  BY <1>2, <1>3
<1>5. ASSUME NEW r \in late' PROVE r.from \in Windows /\ LateOK(r, window[r.from].known, issued')
  <2>1. CASE r \in late
    BY <1>1, <2>1, LateLast DEF Inv, GivenUp
  <2>2. CASE r = call[w][s] /\ r.state = "requested"
    BY <2>2, <1>3 DEF CallOK, LateOK, Asked
  <2> QED BY <2>1, <2>2
<1> QED BY <1>2, <1>4, <1>5, RowsMove

LEMMA ServeIsSound ==
  ASSUME Inv, NEW w \in Windows, NEW s \in Slots, Serve(w, s)
  PROVE  Inv'
<1> DEFINE r == call[w][s]
<1>1. /\ r.state = "requested" /\ Handles(r) /\ UNCHANGED <<window, notice, late, lost, patient>>
  BY DEF Serve, host, Handles
<1>2. /\ CallOK(r, w, window[w], server.version, issued) /\ r \in Call /\ Asked(r, w, window[w].known)
      /\ r # Idle /\ r.id <= issued /\ r.held.id <= issued /\ window[w].draft.version # 0
  BY <1>1, OfSlot, IdleIs DEF CallOK
<1>3. Outcome(r)
  <2>1. Server /\ lost' \in 0..MaxLost[patient]
    BY <1>1 DEF Inv, Server, RowsOK
  <2> QED BY <1>1, <1>2, <2>1, ServerHandles
<1>4. Server' /\ server.version <= server'.version /\ issued <= issued'
  BY <1>3 DEF Outcome
<1>5. /\ server.version \in Nat /\ issued \in Nat /\ server'.version \in Nat \ {0} /\ issued' \in Nat
      /\ server' \in Row /\ confirmation' \in Approval /\ confirmation'.id <= issued'
  BY <1>4, Numbers DEF Inv, Server, RowsOK
<1>6. r.id \in Nat /\ r.held.id \in Nat
  BY <1>2 DEF Call
<1>7. CASE Performs(r) /\ \E verdict \in {"passed", "blocked"} :
             call' = [call EXCEPT ![w][s] =
               [r EXCEPT !.state = "answered", !.ok = TRUE, !.draft = ViewOf(server'),
                         !.held = confirmation',
                         !.verdict = IF r.tool = "validate_draft" THEN verdict ELSE None]]
  <2>1. PICK verdict \in {"passed", "blocked"} :
             call' = [call EXCEPT ![w][s] =
               [r EXCEPT !.state = "answered", !.ok = TRUE, !.draft = ViewOf(server'),
                         !.held = confirmation',
                         !.verdict = IF r.tool = "validate_draft" THEN verdict ELSE None]]
    BY <1>7
  <2> DEFINE told == IF r.tool = "validate_draft" THEN verdict ELSE None
             d == ViewOf(server')
             h == confirmation'
             n == [r EXCEPT !.state = "answered", !.ok = TRUE, !.draft = d, !.held = h, !.verdict = told]
  <2>2. Seen(d, server'.version)
    BY <1>5 DEF ViewOf, Seen, View
  <2>3. told \in {"passed", "blocked", None} /\ (r.tool = "validate_draft" => told \in {"passed", "blocked"})
    OBVIOUS
  <2>4. h \in Approval /\ h.id <= issued'
    BY <1>5
  <2>5. r.tool = "prepare_draft_send" => h.id # 0
    <3> SUFFICES ASSUME r.tool = "prepare_draft_send" PROVE confirmation'.id # 0
      OBVIOUS
    <3>1. PrepareDraftSend(r)
      BY <1>7 DEF Performs, UpdateDraft, AddDraftAttachment, RemoveDraftAttachment, ValidateDraft, ReplayDraft
    <3> QED BY <1>5, <3>1 DEF PrepareDraftSend
  <2>6. call' = [call EXCEPT ![w][s] = n]
    BY <2>1
  <2> HIDE DEF told, d, h
  <2>7. /\ n \in Call /\ n.state = "answered" /\ n.ok /\ n.draft = d /\ n.held = h /\ n.verdict = told
        /\ n.tool = r.tool /\ n.id = r.id /\ n.then = r.then /\ n.file = r.file
    <3>1. d \in View
      BY <2>2 DEF Seen
    <3>2. /\ n \in Call /\ n.state = "answered" /\ n.ok /\ n.draft = d
      BY <1>2, <2>3, <2>4, <3>1 DEF Call
    <3>3. n.held = h /\ n.verdict = told /\ n.tool = r.tool /\ n.id = r.id
      BY <1>2 DEF Call
    <3>4. n.then = r.then /\ n.file = r.file
      BY <1>2 DEF Call
    <3> QED BY <3>2, <3>3, <3>4
  <2> HIDE DEF n
  <2>8. Answer(n, server'.version)
    BY <2>2, <2>3, <2>5, <2>7 DEF Answer
  <2>9. CallOK(n, w, window[w], server'.version, issued')
    BY <1>2, <1>4, <1>5, <1>6, <2>4, <2>7, <2>8 DEF CallOK
  <2> QED BY <1>1, <1>4, <2>6, <2>7, <2>9, CallMoves
<1>8. CASE /\ SubmitDraft(r)
           /\ call' = [call EXCEPT ![w][s].state = "delivering", ![w][s].draft = ViewOf(server)]
  <2> DEFINE d == ViewOf(server)
             n == [r EXCEPT !.state = "delivering", !.draft = d]
  <2>0. Seen(d, server'.version)
    BY <1>4, <1>5, Numbers DEF Inv, ViewOf, Seen, View
  <2> HIDE DEF d
  <2>1. /\ n \in Call /\ n.state = "delivering" /\ n.tool = r.tool /\ n.id = r.id /\ n.held = r.held
        /\ n.then = r.then /\ n.file = r.file /\ n.draft = d
    BY <1>2, <2>0 DEF Call, Seen
  <2>2. call' = [call EXCEPT ![w][s] = n] /\ r.tool = "send_draft"
    BY <1>8 DEF SubmitDraft, Confirmed, d
  <2> HIDE DEF n
  <2>3. CallOK(n, w, window[w], server'.version, issued')
    BY <1>2, <1>4, <1>5, <1>6, <2>0, <2>1, <2>2 DEF CallOK
  <2> QED BY <1>1, <1>4, <2>1, <2>2, <2>3, CallMoves
<1>9. CASE Refuses(r) /\ call' = [call EXCEPT ![w][s].state = "answered"]
  <2> DEFINE n == [r EXCEPT !.state = "answered"]
  <2>1. /\ n \in Call /\ n.state = "answered" /\ n.tool = r.tool /\ n.id = r.id /\ n.held = r.held
        /\ n.then = r.then /\ n.file = r.file /\ n.ok = r.ok
    BY <1>2 DEF Call
  <2>2. call' = [call EXCEPT ![w][s] = n]
    BY <1>9
  <2> HIDE DEF n
  <2>3. CallOK(n, w, window[w], server'.version, issued')
    BY <1>2, <1>4, <1>5, <1>6, <2>1, <2>2 DEF CallOK, Asked
  <2> QED BY <1>1, <1>4, <2>1, <2>2, <2>3, CallMoves
<1> QED BY <1>7, <1>8, <1>9 DEF Serve

LEMMA HostGivesUpIsSound ==
  ASSUME Inv, NEW w \in Windows, NEW s \in Slots, HostGivesUp(w, s)
  PROVE  Inv'
<1> DEFINE r == call[w][s]
           n == [r EXCEPT !.state = "answered", !.ok = FALSE]
<1>1. /\ r.state \in {"requested", "delivering", "answered"} /\ lost < MaxLost[patient] /\ lost' = lost + 1
      /\ late' = IF r.state = "requested" THEN late \cup {r} ELSE late
      /\ UNCHANGED <<rows, window, notice, patient>>
  BY DEF HostGivesUp
<1>2. call' = [call EXCEPT ![w][s] = n]
  BY DEF HostGivesUp
<1>3. /\ CallOK(r, w, window[w], server.version, issued) /\ r \in Call
      /\ r # Idle /\ r.id <= issued /\ r.held.id <= issued /\ window[w].draft.version # 0
  BY <1>1, OfSlot, IdleIs DEF CallOK
<1>4. /\ n \in Call /\ n.state = "answered" /\ ~n.ok /\ n.tool = r.tool /\ n.id = r.id /\ n.held = r.held
      /\ n.then = r.then /\ n.file = r.file
  BY <1>3 DEF Call
<1> HIDE DEF n
<1>5. CallOK(n, w, window[w], server.version, issued)
  BY <1>3, <1>4 DEF CallOK
<1>6. Server'
  <2>1. MaxLost[patient] \in Nat /\ lost \in 0..MaxLost[patient]
    BY ComposerBounds, PatienceIsBoolean DEF Inv, Server, RowsOK
  <2>2. lost' \in 0..MaxLost[patient]
    BY <1>1, <2>1
  <2> QED BY <1>1, <2>2 DEF Inv, Server, RowsOK, rows
<1>7. server' = server /\ issued' = issued /\ server.version \in Nat /\ issued \in Nat
  BY <1>1, Numbers DEF rows, Inv
<1>8. late' \subseteq late \cup {r} /\ (r.state = "requested" \/ late' \subseteq late)
  BY <1>1
<1>9. CallOK(n, w, window[w], server'.version, issued')
  BY <1>5, <1>7
<1>10. server.version <= server'.version /\ issued <= issued' /\ UNCHANGED <<window, notice>>
  BY <1>1, <1>7
<1>11. n.tool = call[w][s].tool /\ late' \subseteq late \cup {call[w][s]}
       /\ (call[w][s].state = "requested" \/ late' \subseteq late)
  BY <1>4, <1>8
<1> HIDE DEF r
<1> QED BY <1>2, <1>6, <1>9, <1>10, <1>11, CallMoves

LEMMA ServeLateIsSound ==
  ASSUME Inv, NEW r, ServeLate(r)
  PROVE  Inv' /\ Outcome(r)
<1>1. r \in late /\ late' = late \ {r} /\ Handles(r) /\ UNCHANGED <<window, call, notice, lost, patient>>
  BY DEF ServeLate, Handles
<1>2. r \in Call /\ Asked(r, r.from, window[r.from].known)
  BY <1>1 DEF Inv, GivenUp, LateOK
<1>3. Outcome(r)
  <2>1. Server /\ lost' \in 0..MaxLost[patient]
    BY <1>1 DEF Inv, Server, RowsOK
  <2> QED BY <1>1, <1>2, <2>1, ServerHandles
<1>4. Server' /\ server.version <= server'.version /\ issued <= issued'
  BY <1>3 DEF Outcome
<1>5. /\ server.version \in Nat /\ issued \in Nat /\ server'.version \in Nat /\ issued' \in Nat
  BY <1>4, Numbers DEF Inv, Server, RowsOK
<1>6. \A u \in Windows, t \in Slots : CallOK(call[u][t], u, window[u], server'.version, issued')
  BY <1>4, <1>5, CallsLast DEF Inv, Widgets
<1>7. \A q \in late' : q.from \in Windows /\ LateOK(q, window[q.from].known, issued')
  BY <1>1, <1>4, <1>5, LateLast DEF Inv, GivenUp
<1>8. call \in [Windows -> [Slots -> Call]]
  BY DEF Inv, Widgets
<1> QED BY <1>1, <1>3, <1>4, <1>6, <1>7, <1>8, RowsMove

LEMMA DeliveredIsSound ==
  ASSUME Inv, NEW outcome \in {"accepted", "rejected", "unknown"}, Delivered(outcome)
  PROVE  Inv'
<1> DEFINE most == MaxVersion[patient]
<1>0. most \in Nat
  BY ComposerBounds, PatienceIsBoolean DEF Inv, Server
<1> HIDE DEF most
<1>1. /\ delivery.state = "submitting" /\ delivery' = [delivery EXCEPT !.state = outcome]
      /\ server' = IF outcome = "accepted" /\ server.status = "draft"
                   THEN [server EXCEPT !.status = "sent", !.version = server.version + 1]
                   ELSE server
      /\ UNCHANGED <<confirmation, issued, editor, window, notice, late, lost, patient>>
  BY DEF Delivered, host
<1>2. RowsOK(server, confirmation, delivery, issued, lost, most, MaxConfirmations[patient], MaxLost[patient])
  BY DEF Inv, Server, most
<1>3. server \in Row /\ delivery \in Submission /\ server.version \in Nat \ {0} /\ issued \in Nat
  BY <1>0, <1>2 DEF RowsOK
<1>4. delivery' \in Submission
  BY <1>1, <1>3 DEF Submission
<1>5. /\ server' \in Row /\ server'.version \in 1..(most + 1)
      /\ server'.status = "draft" => server'.version <= most
      /\ server.version <= server'.version
  <2>1. CASE outcome = "accepted" /\ server.status = "draft"
    <3>0. server' = [server EXCEPT !.status = "sent", !.version = server.version + 1]
      BY <1>1, <2>1
    <3>9. server \in Row /\ server.version + 1 \in Nat
      BY <1>3
    <3>1. /\ server' \in Row /\ server'.version = server.version + 1 /\ server'.status = "sent"
      BY <3>0, <3>9
    <3>2. server.version <= most
      BY <1>2, <2>1 DEF RowsOK
    <3> QED BY <1>0, <1>3, <3>1, <3>2
  <2>2. CASE ~(outcome = "accepted" /\ server.status = "draft")
    <3>1. server' = server
      BY <1>1, <2>2
    <3> QED BY <1>2, <1>3, <3>1 DEF RowsOK
  <2> QED BY <2>1, <2>2
<1>6. Server'
  <2>1. RowsOK(server', confirmation', delivery', issued', lost', most, MaxConfirmations[patient],
        MaxLost[patient])
    BY <1>1, <1>2, <1>4, <1>5 DEF RowsOK
  <2> QED BY <1>1, <2>1 DEF Inv, Server, most
<1>7. Seen(ViewOf(server'), server'.version)
  BY <1>3, <1>5 DEF ViewOf, Seen, View
<1>8. \A w \in Windows, s \in Slots : CallOK(call[w][s], w, window[w], server'.version, issued)
  BY <1>3, <1>5, CallsLast DEF Inv, Widgets
<1>9. ASSUME NEW w \in Windows, NEW s \in Slots
      PROVE  CallOK(call'[w][s], w, window[w], server'.version, issued) /\ call'[w][s].tool = call[w][s].tool
             /\ call'[w][s] \in Call
  <2> DEFINE r == call[w][s]
             known == outcome # "unknown"
             d == IF outcome = "accepted" THEN ViewOf(server') ELSE r.draft
             n == [r EXCEPT !.state = "answered", !.ok = known, !.draft = d]
  <2>1. CASE r.state = "delivering"
    <3>1. call'[w][s] = n
      BY <2>1 DEF Delivered
    <3>2. /\ CallOK(r, w, window[w], server'.version, issued) /\ r \in Call /\ r # Idle
          /\ r.tool = "send_draft" /\ Seen(r.draft, server'.version)
      BY <1>8, <2>1, IdleIs DEF CallOK
    <3>3. Seen(d, server'.version) /\ d \in View /\ known \in BOOLEAN
      BY <1>7, <3>2 DEF Seen
    <3> HIDE DEF d, known
    <3>4. n \in Call /\ n.state = "answered" /\ n.draft = d
      BY <3>2, <3>3 DEF Call
    <3>5. n.tool = r.tool /\ n.id = r.id /\ n.held = r.held
      BY <3>2 DEF Call
    <3> HIDE DEF n
    <3>6. Answer(n, server'.version)
      BY <3>2, <3>3, <3>4, <3>5 DEF Answer
    <3>7. CallOK(n, w, window[w], server'.version, issued)
      BY <3>2, <3>4, <3>5, <3>6 DEF CallOK
    <3> QED BY <3>1, <3>4, <3>5, <3>7
  <2>2. CASE r.state # "delivering"
    <3>1. call'[w][s] = r
      BY <2>2 DEF Delivered
    <3> QED BY <1>8, <3>1 DEF CallOK
  <2> QED BY <2>1, <2>2
<1>10. DOMAIN call' = Windows /\ \A w \in Windows : DOMAIN call'[w] = Slots
  BY DEF Delivered
<1>11. call' \in [Windows -> [Slots -> Call]]
  <2>1. call' = [w \in Windows |-> [s \in Slots |->
          IF call[w][s].state = "delivering"
          THEN [call[w][s] EXCEPT !.state = "answered", !.ok = outcome # "unknown",
                                  !.draft = IF outcome = "accepted" THEN ViewOf(server') ELSE @]
          ELSE call[w][s]]]
    BY DEF Delivered
  <2>2. \A w \in Windows : call'[w] \in [Slots -> Call]
    BY <1>9, <2>1
  <2> QED BY <2>1, <2>2
<1>12. \A r \in late' : r.from \in Windows /\ LateOK(r, window[r.from].known, issued')
  BY <1>1 DEF Inv, GivenUp
<1>13. /\ UNCHANGED <<window, notice>> /\ issued <= issued'
       /\ \A w \in Windows, s \in Slots :
            CallOK(call'[w][s], w, window[w], server'.version, issued') /\ call'[w][s].tool = call[w][s].tool
  BY <1>1, <1>3, <1>9
<1> QED BY <1>5, <1>6, <1>10, <1>11, <1>12, <1>13, RowsMove

----------------------------------------------------------------------------
\* The invariant

LEMMA InitIsSound ==
  ASSUME Init
  PROVE  Inv
<1>1. PICK t \in Texts, fs \in SUBSET Files :
        /\ server = [status |-> "draft", version |-> 1 + Cardinality(fs), text |-> t, files |-> fs]
        /\ window = [w \in Windows |->
                       [draft |-> [version |-> 0, text |-> t, files |-> {}], known |-> {},
                        screen |-> t, review |-> "hidden", confirmation |-> NoApproval,
                        confirming |-> FALSE, sendDisabled |-> FALSE]]
        /\ confirmation = NoApproval /\ delivery = NoDelivery /\ issued = 0
        /\ call = [w \in Windows |-> [s \in Slots |-> Idle]] /\ notice = [w \in Windows |-> None]
        /\ late = {} /\ lost = 0 /\ patient \in Patience
  BY DEF Init
<1>2. Cardinality(fs) \in Nat /\ Cardinality(fs) < MaxVersion[patient]
  BY <1>1, FilesAreFew, FS_Subset, FS_CardinalityType, ComposerBounds, PatienceIsBoolean
<1>3. MaxVersion[patient] \in Nat /\ MaxConfirmations[patient] \in Nat /\ MaxLost[patient] \in Nat
  BY <1>1, ComposerBounds, PatienceIsBoolean
<1>4. Server
  <2>1. server \in Row /\ server.version \in 1..(MaxVersion[patient] + 1)
        /\ server.version <= MaxVersion[patient]
    BY <1>1, <1>2, <1>3
  <2>2. delivery \in Submission /\ confirmation \in Approval /\ confirmation.id = 0
        /\ confirmation.version = 0
    BY <1>1 DEF NoDelivery
  <2> QED BY <1>1, <1>3, <2>1, <2>2 DEF Server, RowsOK
<1>5. ASSUME NEW w \in Windows
      PROVE  window[w] \in Pane /\ PaneOK(window[w], server.version, issued) /\ SendsOK(window[w], call[w])
  <2>1. /\ window[w] \in Pane /\ window[w].draft.version = 0 /\ window[w].known = {}
        /\ window[w].confirmation.id = 0 /\ ~window[w].confirming /\ ~window[w].sendDisabled
    BY <1>1 DEF Pane, View
  <2>2. \A s \in Slots : call[w][s] = Idle
    BY <1>1
  <2> QED BY <1>1, <2>1, <2>2, IdleIs DEF PaneOK, SendsOK
<1>6. \A w \in Windows, s \in Slots : CallOK(call[w][s], w, window[w], server.version, issued)
  BY <1>1, <1>4, IdleIsOK, Numbers
<1>7. /\ window \in [Windows -> Pane] /\ call \in [Windows -> [Slots -> Call]] /\ DOMAIN notice = Windows
      /\ \A w \in Windows : notice[w] = None
  BY <1>1, <1>5, IdleIs
<1> QED BY <1>1, <1>4, <1>5, <1>6, <1>7 DEF Inv, Widgets, GivenUp

LEMMA StepIsSound ==
  ASSUME Inv, [Next]_vars
  PROVE  Inv'
<1>1. CASE UNCHANGED vars
  BY <1>1 DEF vars, Inv, Server, Widgets, GivenUp
<1>2. CASE Next
  BY <1>2, WindowIsSound, ServeIsSound, HostGivesUpIsSound, ServeLateIsSound, DeliveredIsSound
       DEF Next, Bridge
<1> QED BY <1>1, <1>2

\* What windows, calls and rows keep to, for any number of windows that call each other's draft
\* away, whatever the host gives up and the server handles late.
THEOREM Invariant == Spec => []Inv
<1>1. Init => Inv
  BY InitIsSound
<1>2. Inv /\ [Next]_vars => Inv'
  BY StepIsSound
<1> QED BY <1>1, <1>2, PTL DEF Spec

\* Rows, windows and calls have the shape the server and the widget give them.
THEOREM TypeCorrect == Spec => []TypeOK
<1>1. Inv => TypeOK
  <2> SUFFICES ASSUME Inv PROVE TypeOK
    OBVIOUS
  <2>1. /\ MaxVersion[patient] \in Nat /\ MaxConfirmations[patient] \in Nat /\ MaxLost[patient] \in Nat
        /\ RowsOK(server, confirmation, delivery, issued, lost,
                  MaxVersion[patient], MaxConfirmations[patient], MaxLost[patient])
    BY ComposerBounds, PatienceIsBoolean DEF Inv, Server
  <2>2. /\ server \in [status : {"draft", "sent"}, version : 1..(MaxVersion[patient] + 1),
                       text : Texts, files : SUBSET Files]
    BY <2>1 DEF RowsOK
  <2>3. /\ confirmation \in [id : 0..MaxConfirmations[patient], version : 0..MaxVersion[patient]]
        /\ delivery.state \in {"none", "submitting", "accepted", "rejected", "unknown"}
        /\ issued \in 0..MaxConfirmations[patient] /\ lost \in 0..MaxLost[patient]
    BY <2>1 DEF RowsOK
  <2>4. \A w \in Windows : /\ window[w].draft \in View /\ window[w].screen \in Texts
                           /\ window[w].review \in {"hidden", "passed", "blocked"}
    BY OfWindow DEF Pane
  <2>5. (\A w \in Windows, s \in Slots : call[w][s] \in Call) /\ \A r \in late : r \in Call
    BY DEF Inv, Widgets, GivenUp, LateOK
  <2> QED BY <2>2, <2>3, <2>4, <2>5 DEF TypeOK
<1> QED BY <1>1, Invariant, PTL

\* A window that asks for the final click holds a confirmation, and its button is disabled exactly
\* while its one send is awaited: neither clicked twice nor dead after a failure.
THEOREM FinalClicksFollow == Spec => []FinalClickFollowsTheCalls
<1>1. Inv => FinalClickFollowsTheCalls
  <2> SUFFICES ASSUME Inv, NEW w \in Windows
               PROVE  /\ window[w].confirming => window[w].confirmation # NoApproval
                      /\ Cardinality({s \in Slots : call[w][s].tool = "send_draft"}) =
                           IF window[w].sendDisabled THEN 1 ELSE 0
    BY DEF FinalClickFollowsTheCalls
  <2> DEFINE sends == {s \in Slots : call[w][s].tool = "send_draft"}
  <2>1. window[w].confirming => window[w].confirmation # NoApproval
    BY OfWindow DEF PaneOK
  <2>2. CASE window[w].sendDisabled
    <3>1. PICK s \in Slots : call[w][s].tool = "send_draft"
      BY <2>2, OfWindow DEF SendsOK
    <3>2. sends = {s}
      BY <3>1, OfWindow DEF SendsOK
    <3> QED BY <2>1, <2>2, <3>2, FS_Singleton
  <2>3. CASE ~window[w].sendDisabled
    <3>1. sends = {}
      BY <2>3, OfWindow DEF SendsOK
    <3> QED BY <2>1, <2>3, <3>1, FS_EmptySet
  <2> QED BY <2>2, <2>3
<1> QED BY <1>1, Invariant, PTL

\* An edit, by a call of a window or one the host gave up long ago, starts from a version that the
\* window has shown: nothing another window wrote is overwritten unseen.
THEOREM EditsAreInformed == Spec => NoBlindOverwrite
<1> DEFINE Informed == server'.version # server.version /\ server'.status = "draft" =>
                         server.version \in window[editor'].known
<1>1. ASSUME Inv, NEW r, NEW w \in Windows, Asked(r, w, window[w].known), Outcome(r)
      PROVE  Informed
  <2>1. CASE server' = server
    BY <2>1
  <2>2. CASE r.tool \in Editing /\ r.version = server.version /\ editor' = r.from
    BY <1>1, <2>2 DEF Asked
  <2> QED BY <1>1, <2>1, <2>2 DEF Outcome
<1>2. ASSUME Inv, [Next]_vars PROVE Informed
  <2>1. CASE UNCHANGED server
    BY <2>1
  <2>2. ASSUME NEW w \in Windows, NEW s \in Slots, Serve(w, s) PROVE Informed
    <3> DEFINE r == call[w][s]
    <3>1. r.state = "requested" /\ Handles(r) /\ UNCHANGED <<lost, patient>>
      BY <2>2 DEF Serve, Handles, host
    <3>2. Asked(r, w, window[w].known) /\ r \in Call
      BY <1>2, <3>1, OfSlot DEF CallOK
    <3>3. Server /\ lost' \in 0..MaxLost[patient]
      BY <1>2, <3>1 DEF Inv, Server, RowsOK
    <3> HIDE DEF r
    <3>4. Outcome(r)
      BY <3>1, <3>2, <3>3, ServerHandles
    <3> QED BY <1>1, <1>2, <3>2, <3>4
  <2>3. ASSUME NEW r \in late, ServeLate(r) PROVE Informed
    <3>1. r.from \in Windows /\ Asked(r, r.from, window[r.from].known)
      BY <1>2 DEF Inv, GivenUp, LateOK
    <3>2. Outcome(r)
      BY <1>2, <2>3, ServeLateIsSound
    <3> QED BY <1>1, <1>2, <3>1, <3>2
  <2>4. ASSUME NEW outcome, Delivered(outcome) PROVE Informed
    <3>1. server' = server \/ server' = [server EXCEPT !.status = "sent", !.version = server.version + 1]
      BY <2>4 DEF Delivered
    <3>2. server \in Row
      BY <1>2, Numbers DEF Inv
    <3> QED BY <3>1, <3>2
  <2>5. ASSUME NEW w \in Windows, User(w) \/ Widget(w) PROVE UNCHANGED server
    BY <2>5 DEF User, Widget, Type, ClickCancel, ClickSave, ChooseFile, ClickRemove, ClickPrepare, ClickSend,
      Open, ToolResult, Failed, Saved, FileRead, Validated, Attached, Detached, Prepared, Sent, rows
  <2>6. ASSUME NEW w \in Windows, NEW s \in Slots, HostGivesUp(w, s) PROVE UNCHANGED server
    BY <2>6 DEF HostGivesUp, rows
  <2>7. UNCHANGED vars => UNCHANGED server
    BY DEF vars
  <2> QED BY <1>2, <2>1, <2>2, <2>3, <2>4, <2>5, <2>6, <2>7 DEF Next, Bridge
<1> QED BY <1>2, Invariant, PTL DEF Spec, NoBlindOverwrite

----------------------------------------------------------------------------
\* A patient user

\* One call is pending at most, and it fits what the window shows.
LEMMA SlotFits ==
  ASSUME NEW v, NEW f, NEW s \in Slots, NEW n, NEW row, NEW held, NEW calls, DOMAIN f = Slots,
         \A t \in Slots \ {s} : f[t] = Idle, v.draft.version # 0,
         v.review = "passed" => Clean(v, row, calls), v.confirming => v.review = "passed",
         CallFits(n, v, row, calls), ClickFits(n, row, held)
  PROVE  Careful(v, [f EXCEPT ![s] = n], FALSE, row, held, calls)
<1>1. CallFits(Idle, v, row, calls) /\ ClickFits(Idle, row, held)
  BY IdleIs DEF CallFits, ClickFits
<1> DEFINE g == [f EXCEPT ![s] = n]
<1>2. g[s] = n /\ \A t \in Slots \ {s} : g[t] = Idle
  OBVIOUS
<1> HIDE DEF g
<1>3. /\ \A t, u \in Slots : g[t] # Idle /\ g[u] # Idle => t = u
      /\ \A t \in Slots : CallFits(g[t], v, row, calls) /\ ClickFits(g[t], row, held)
  BY <1>1, <1>2
<1> QED BY <1>3 DEF Careful, g

\* Nothing is pending.
LEMMA QuietFits ==
  ASSUME NEW v, NEW f, NEW posted, NEW row, NEW held, NEW calls, \A s \in Slots : f[s] = Idle,
         posted \/ v.draft.version = 0 => v.review # "passed" /\ ~v.confirming,
         v.review = "passed" => Clean(v, row, calls), v.confirming => v.review = "passed"
  PROVE  Careful(v, f, posted, row, held, calls)
<1>1. CallFits(Idle, v, row, calls) /\ ClickFits(Idle, row, held)
  BY IdleIs DEF CallFits, ClickFits
<1> QED BY <1>1 DEF Careful

\* What the only window of a patient user keeps to.
Steady(w) ==
  /\ Careful(window[w], call[w], notice[w] # None, server, confirmation, late)
  /\ \A r \in late : ClickFits(r, server, confirmation)
  /\ ScreenIsWhatIsSent

LEMMA OfPatience ==
  ASSUME AloneInv, Alone, patient, NEW w \in Windows
  PROVE  Steady(w)
BY DEF AloneInv, Patiently, Steady

\* With no other window, a steady one is all.
LEMMA SteadyIsEnough ==
  ASSUME Alone, NEW w \in Windows, UNCHANGED patient, patient => Steady(w)'
  PROVE  AloneInv'
BY DEF Alone, AloneInv, Patiently, Steady

\* While a call is pending, the others of the window are not, and no notice is.
LEMMA Pending ==
  ASSUME NEW w \in Windows, NEW s \in Slots, Steady(w), call[w][s].state # "idle"
  PROVE  /\ \A t \in Slots \ {s} : call[w][t] = Idle
         /\ notice[w] = None /\ window[w].draft.version # 0
         /\ window[w].review = "passed" => Clean(window[w], server, late)
         /\ window[w].confirming => window[w].review = "passed"
         /\ CallFits(call[w][s], window[w], server, late) /\ ClickFits(call[w][s], server, confirmation)
BY IdleIs DEF Steady, Careful, IsOpen

\* Before a click nothing is pending.
LEMMA BeforeClick ==
  ASSUME Inv, patient, NEW w \in Windows, Steady(w), MayAct(w)
  PROVE  /\ \A t \in Slots : call[w][t] = Idle
         /\ notice[w] = None /\ window[w].draft.version # 0
         /\ window[w].review = "passed" => Clean(window[w], server, late)
         /\ window[w].confirming => window[w].review = "passed"
<1>1. \A t \in Slots : call[w][t] = Idle
  BY OfSlot DEF MayAct, CallOK
<1> QED BY <1>1 DEF Steady, Careful, MayAct, IsOpen

\* The window goes on from v while its call gives way to n.
LEMMA WindowFits ==
  ASSUME Inv, NEW w \in Windows, NEW s \in Slots, Steady(w), NEW v, NEW n,
         \A t \in Slots \ {s} : call[w][t] = Idle, notice[w] = None,
         window' = [window EXCEPT ![w] = v], call' = [call EXCEPT ![w][s] = n], UNCHANGED <<rows, host>>,
         v.draft.version # 0, v.review = "passed" => Clean(v, server, late),
         v.confirming => v.review = "passed",
         CallFits(n, v, server, late), ClickFits(n, server, confirmation)
  PROVE  Steady(w)'
<1>1. /\ server' = server /\ notice' = notice /\ late' = late /\ patient' = patient
      /\ confirmation' = confirmation /\ delivery' = delivery
  BY DEF rows, host
<1>2. DOMAIN window = Windows /\ DOMAIN call = Windows /\ DOMAIN call[w] = Slots
  BY OfWindow, OfSlot
<1>3. window'[w] = v /\ call'[w] = [call[w] EXCEPT ![s] = n]
  BY <1>2
<1>4. Careful(v, [call[w] EXCEPT ![s] = n], FALSE, server, confirmation, late)
  BY <1>2, SlotFits
<1>5. (notice'[w] # None) = FALSE
  BY <1>1
<1>6. Careful(window'[w], call'[w], notice'[w] # None, server', confirmation', late')
  BY <1>1, <1>3, <1>4, <1>5
<1>7. ScreenIsWhatIsSent' /\ \A r \in late' : ClickFits(r, server', confirmation')
  BY <1>1 DEF Steady, ScreenIsWhatIsSent
<1> QED BY <1>6, <1>7 DEF Steady

\* Nothing is pending, and the window goes on from v.
LEMMA QuietWindowFits ==
  ASSUME Inv, NEW w \in Windows, Steady(w), NEW v, \A t \in Slots : call[w][t] = Idle,
         window' = [window EXCEPT ![w] = v], call' = call, UNCHANGED <<rows, late, patient>>,
         notice'[w] # None \/ v.draft.version = 0 => v.review # "passed" /\ ~v.confirming,
         v.review = "passed" => Clean(v, server, late), v.confirming => v.review = "passed"
  PROVE  Steady(w)'
<1>1. /\ server' = server /\ late' = late /\ patient' = patient
      /\ confirmation' = confirmation /\ delivery' = delivery
  BY DEF rows
<1>2. window'[w] = v
  BY OfWindow
<1>3. Careful(v, call[w], notice'[w] # None, server, confirmation, late)
  BY QuietFits
<1>4. Careful(window'[w], call'[w], notice'[w] # None, server', confirmation', late')
  BY <1>1, <1>2, <1>3
<1>5. ScreenIsWhatIsSent' /\ \A r \in late' : ClickFits(r, server', confirmation')
  BY <1>1 DEF Steady, ScreenIsWhatIsSent
<1> QED BY <1>4, <1>5 DEF Steady

\* What adopting a view leaves of a window.
LEMMA Rendered ==
  ASSUME NEW v \in Pane, NEW d \in View
  PROVE  /\ Render(v, d).draft = d /\ Render(v, d).screen = d.text
         /\ Render(v, d).review = v.review /\ Render(v, d).confirming = v.confirming
         /\ Reset(v) \in Pane /\ Render(v, d) \in Pane
         /\ Reset(v).review = "hidden" /\ ~Reset(v).confirming /\ Reset(v).draft = v.draft
BY DEF Render, Reset, Pane, View

\* One lemma for each action: a window that opens or renders a notice was not reviewed.
LEMMA OpenFits ==
  ASSUME Inv, NEW w \in Windows, Steady(w), Open(w)
  PROVE  Steady(w)'
<1> DEFINE v == Render(window[w], ViewOf(server))
<1>1. ViewOf(server) \in View
  BY Numbers DEF Inv, ViewOf, View
<1>2. v.review = window[w].review /\ v.confirming = window[w].confirming
  BY <1>1, OfWindow, Rendered
<1>3. /\ window' = [window EXCEPT ![w] = v] /\ call' = call /\ UNCHANGED <<rows, late, patient>>
      /\ window[w].draft.version = 0
  BY DEF Open, IsOpen
<1>4. (\A s \in Slots : call[w][s] = Idle) /\ window[w].review # "passed" /\ ~window[w].confirming
  BY <1>3 DEF Steady, Careful
<1> HIDE DEF v
<1> QED BY <1>2, <1>3, <1>4, QuietWindowFits

LEMMA ToolResultFits ==
  ASSUME Inv, NEW w \in Windows, Steady(w), ToolResult(w)
  PROVE  Steady(w)'
<1> DEFINE v == Render(window[w], notice[w])
<1>1. notice[w] \in View /\ notice[w] # None
  BY OfWindow DEF ToolResult, Seen
<1>2. v.review = window[w].review /\ v.confirming = window[w].confirming
  BY <1>1, OfWindow, Rendered
<1>3. /\ window' = [window EXCEPT ![w] = v] /\ call' = call /\ UNCHANGED <<rows, late, patient>>
  BY DEF ToolResult
<1>4. (\A s \in Slots : call[w][s] = Idle) /\ window[w].review # "passed" /\ ~window[w].confirming
  BY <1>1 DEF Steady, Careful
<1> HIDE DEF v
<1> QED BY <1>2, <1>3, <1>4, QuietWindowFits

LEMMA TypeFits ==
  ASSUME Inv, patient, NEW w \in Windows, Steady(w), NEW t \in Texts, Type(w, t)
  PROVE  Steady(w)'
<1> DEFINE v == [Reset(window[w]) EXCEPT !.screen = t]
<1>1. v.draft = window[w].draft /\ v.review = "hidden" /\ ~v.confirming
  BY OfWindow DEF Reset, Pane
<1>2. /\ window' = [window EXCEPT ![w] = v] /\ UNCHANGED <<rows, call, host>> /\ MayAct(w)
  BY DEF Type
<1> HIDE DEF v
<1>3. notice' = notice /\ UNCHANGED <<rows, late, patient>> /\ call' = call
  BY <1>2 DEF host
<1> QED BY <1>1, <1>2, <1>3, BeforeClick, QuietWindowFits

LEMMA CancelFits ==
  ASSUME Inv, patient, NEW w \in Windows, Steady(w), ClickCancel(w)
  PROVE  Steady(w)'
<1> DEFINE v == Cancelled(window[w])
<1>1. /\ v.draft = window[w].draft /\ v.screen = window[w].screen /\ v.review = window[w].review
      /\ ~v.confirming
  BY OfWindow DEF Cancelled, Pane
<1>2. /\ window' = [window EXCEPT ![w] = v] /\ UNCHANGED <<rows, call, host>> /\ MayAct(w)
  BY DEF ClickCancel
<1> HIDE DEF v
<1>3. notice' = notice /\ UNCHANGED <<rows, late, patient>> /\ call' = call
  BY <1>2 DEF host
<1>4. v.review = "passed" => Clean(v, server, late)
  BY <1>1, <1>2, BeforeClick DEF Clean
<1> QED BY <1>1, <1>2, <1>3, <1>4, BeforeClick, QuietWindowFits

\* A click that changes nothing in the window but, perhaps, a button.
LEMMA ClickFitsWindow ==
  ASSUME Inv, patient, NEW w \in Windows, NEW s \in Slots, Steady(w), MayAct(w), NEW v, NEW n,
         v.draft = window[w].draft, v.screen = window[w].screen, v.review = window[w].review,
         v.confirming = window[w].confirming,
         window' = [window EXCEPT ![w] = v], call' = [call EXCEPT ![w][s] = n], UNCHANGED <<rows, host>>,
         CallFits(n, v, server, late), ClickFits(n, server, confirmation)
  PROVE  Steady(w)'
<1>1. v.review = "passed" => Clean(v, server, late)
  BY BeforeClick DEF Clean
<1> QED BY <1>1, BeforeClick, WindowFits

\* A saving asks for the text that the window shows.
LEMMA SavingFits ==
  ASSUME Inv, patient, NEW w \in Windows, NEW s \in Slots, Steady(w), MayAct(w), NEW then, NEW file,
         Calls(w, s, UpdateCall(w, then, file)), UNCHANGED <<rows, window, host>>
  PROVE  Steady(w)'
<1> DEFINE n == [UpdateCall(w, then, file) EXCEPT !.from = w, !.state = "requested"]
<1>1. n.tool = "update_draft" /\ n.state = "requested" /\ n.text = window[w].screen
  BY DEF UpdateCall, Idle
<1>2. call' = [call EXCEPT ![w][s] = n] /\ window' = [window EXCEPT ![w] = window[w]]
  BY OfWindow DEF Calls
<1> HIDE DEF n
<1>3. CallFits(n, window[w], server, late) /\ ClickFits(n, server, confirmation)
  BY <1>1 DEF CallFits, ClickFits
<1> QED BY <1>2, <1>3, ClickFitsWindow

LEMMA ClickPrepareFits ==
  ASSUME Inv, patient, NEW w \in Windows, NEW s \in Slots, Steady(w), ClickPrepare(w, s)
  PROVE  Steady(w)'
<1> DEFINE n == [Idle EXCEPT !.tool = "prepare_draft_send", !.from = w, !.state = "requested"]
<1>1. n.tool = "prepare_draft_send" /\ n.state = "requested"
  BY DEF Idle
<1>2. /\ call' = [call EXCEPT ![w][s] = n] /\ window' = [window EXCEPT ![w] = window[w]]
      /\ UNCHANGED <<rows, host>> /\ MayAct(w) /\ window[w].review = "passed"
  BY OfWindow DEF ClickPrepare, Calls, Idle
<1> HIDE DEF n
<1>3. CallFits(n, window[w], server, late) /\ ClickFits(n, server, confirmation)
  BY <1>1, <1>2 DEF CallFits, ClickFits
<1> QED BY <1>2, <1>3, ClickFitsWindow

\* The click: what the window shows is the draft, as it was when it was validated.
LEMMA ClickSendFits ==
  ASSUME Inv, patient, NEW w \in Windows, NEW s \in Slots, Steady(w), ClickSend(w, s)
  PROVE  Steady(w)'
<1> DEFINE v == [window[w] EXCEPT !.sendDisabled = TRUE]
           n == [Idle EXCEPT !.tool = "send_draft", !.shown = Shown(w),
                             !.id = window[w].confirmation.id,
                             !.version = window[w].confirmation.version,
                             !.from = w, !.state = "requested"]
<1>1. n.tool = "send_draft" /\ n.state = "requested" /\ n.shown = Shown(w)
  BY DEF Idle
<1>2. /\ v.draft = window[w].draft /\ v.screen = window[w].screen /\ v.review = window[w].review
      /\ v.confirming = window[w].confirming
  BY OfWindow DEF Pane
<1>3. call' = [call EXCEPT ![w][s] = n]
  BY DEF ClickSend, Calls, Idle
<1>4. /\ window' = [window EXCEPT ![w] = v] /\ UNCHANGED <<rows, host>> /\ MayAct(w) /\ window[w].confirming
  BY OfWindow DEF ClickSend
<1> HIDE DEF v, n
<1>5. window[w].review = "passed" /\ Clean(window[w], server, late)
  BY <1>4, BeforeClick
<1>6. Shown(w) = ContentOf(server)
  BY <1>5 DEF Shown, ContentOf, Clean
<1>7. CallFits(n, v, server, late) /\ ClickFits(n, server, confirmation)
  BY <1>1, <1>2, <1>5, <1>6 DEF CallFits, ClickFits
<1> QED BY <1>2, <1>3, <1>4, <1>7, ClickFitsWindow

\* A call is over, and the window goes on from v.
LEMMA EndFits ==
  ASSUME Inv, NEW w \in Windows, NEW s \in Slots, Steady(w), NEW v, call[w][s].state # "idle",
         window' = [window EXCEPT ![w] = v], Done(w, s), UNCHANGED <<rows, host>>,
         v.draft.version # 0, v.review = "passed" => Clean(v, server, late),
         v.confirming => v.review = "passed"
  PROVE  Steady(w)'
<1>1. CallFits(Idle, v, server, late) /\ ClickFits(Idle, server, confirmation)
  BY IdleIs DEF CallFits, ClickFits
<1> QED BY <1>1, Pending, WindowFits DEF Done

LEMMA FailedFits ==
  ASSUME Inv, NEW w \in Windows, NEW s \in Slots, Steady(w), Failed(w, s)
  PROVE  Steady(w)'
<1> DEFINE v == Enabled(window[w], call[w][s])
<1>1. /\ v.draft = window[w].draft /\ v.screen = window[w].screen /\ v.review = window[w].review
      /\ v.confirming = window[w].confirming
  BY OfWindow DEF Enabled, Pane
<1>2. /\ window' = [window EXCEPT ![w] = v] /\ Done(w, s) /\ UNCHANGED <<rows, host>>
      /\ call[w][s].state # "idle"
  BY DEF Failed
<1> HIDE DEF v
<1>3. v.review = "passed" => Clean(v, server, late)
  BY <1>1, <1>2, Pending DEF Clean
<1> QED BY <1>1, <1>2, <1>3, Pending, EndFits

\* The saving was answered: no late call can edit the draft, which is what the window now shows.
LEMMA SavedFits ==
  ASSUME Inv, NEW w \in Windows, NEW s \in Slots, Steady(w), Saved(w, s)
  PROVE  Steady(w)'
<1> DEFINE r == call[w][s]
           u == Reset(window[w])
           v == Render(u, r.draft)
           n == CASE r.then = "none"     -> Idle
                  [] r.then = "validate" -> [Idle EXCEPT !.state = "requested", !.from = w,
                                                         !.tool = "validate_draft"]
                  [] r.then = "add"      -> [Idle EXCEPT !.state = "reading", !.file = r.file]
                  [] r.then = "remove"   -> [Idle EXCEPT !.state = "requested", !.from = w,
                                                         !.tool = "remove_draft_attachment",
                                                         !.file = r.file, !.version = r.draft.version]
<1>1. /\ r.tool = "update_draft" /\ r.draft \in View /\ r.draft.version # 0
      /\ r.then \in {"none", "validate", "add", "remove"} /\ r.state = "answered" /\ r.ok
  BY OfAnswer, OfSlot DEF Saved, CallOK, Seen, Answered
<1>2. CallFits(r, window[w], server, late)
  BY <1>1, Pending
<1>3. r.draft.text = server.text /\ r.draft.files = server.files /\ NoEdits(server, late)
  BY <1>1, <1>2 DEF CallFits
<1>4. /\ v.draft = r.draft /\ v.screen = r.draft.text /\ v.review = "hidden" /\ ~v.confirming
  BY <1>1, OfWindow, Rendered
<1>5. window' = [window EXCEPT ![w] = v] /\ call' = [call EXCEPT ![w][s] = n] /\ UNCHANGED <<rows, host>>
  BY DEF Saved
<1>6. \/ n.tool = None /\ n.state = "idle" /\ ~n.ok
      \/ n.tool = "validate_draft" /\ n.state = "requested"
      \/ n.tool = None /\ n.state = "reading" /\ ~n.ok
      \/ n.tool = "remove_draft_attachment" /\ n.state = "requested"
  <2>1. CASE r.then = "none"
    BY <2>1 DEF Idle
  <2>2. CASE r.then = "validate"
    BY <2>2 DEF Idle
  <2>3. CASE r.then = "add"
    BY <2>3 DEF Idle
  <2>4. CASE r.then = "remove"
    BY <2>4 DEF Idle
  <2> HIDE DEF n
  <2> QED BY <1>1, <2>1, <2>2, <2>3, <2>4
<1> HIDE DEF v, n
<1>7. \A q \in late : q.tool \in Editing => q.version # server.version
  <2>1. \A q \in late : q.version \in Nat
    BY DEF Inv, GivenUp, LateOK, Call
  <2> QED BY <1>3, <2>1, Numbers DEF NoEdits, Inv
<1>8. Clean(v, server, late)
  BY <1>3, <1>4, <1>7 DEF Clean
<1>9. CallFits(n, v, server, late) /\ ClickFits(n, server, confirmation)
  BY <1>4, <1>6, <1>8, NoneIsNothing DEF CallFits, ClickFits
<1>10. (\A t \in Slots \ {s} : call[w][t] = Idle) /\ notice[w] = None
  BY <1>1, Pending
<1>11. v.draft.version # 0 /\ v.review # "passed" /\ ~v.confirming
  BY <1>1, <1>4
<1> HIDE DEF r
<1> QED BY <1>5, <1>9, <1>10, <1>11, WindowFits

LEMMA FileReadFits ==
  ASSUME Inv, NEW w \in Windows, NEW s \in Slots, Steady(w), FileRead(w, s)
  PROVE  Steady(w)'
<1> DEFINE n == [Idle EXCEPT !.state = "requested", !.from = w, !.tool = "add_draft_attachment",
                             !.file = call[w][s].file, !.version = window[w].draft.version]
<1>1. n.tool = "add_draft_attachment" /\ n.state = "requested"
  BY DEF Idle
<1>2. /\ call' = [call EXCEPT ![w][s] = n] \/ call' = [call EXCEPT ![w][s] = Idle]
      /\ window' = [window EXCEPT ![w] = window[w]]
      /\ UNCHANGED <<rows, host>> /\ call[w][s].state = "reading"
  BY OfWindow DEF FileRead, Done
<1> HIDE DEF n
<1>3. window[w].review # "passed"
  BY <1>2, Pending DEF CallFits
<1>4. CallFits(n, window[w], server, late) /\ ClickFits(n, server, confirmation)
  BY <1>1, <1>3 DEF CallFits, ClickFits
<1>5. CallFits(Idle, window[w], server, late) /\ ClickFits(Idle, server, confirmation)
  BY NoneIsNothing DEF CallFits, ClickFits, Idle
<1> QED BY <1>2, <1>4, <1>5, Pending, WindowFits

LEMMA ValidatedFits ==
  ASSUME Inv, NEW w \in Windows, NEW s \in Slots, Steady(w), Validated(w, s)
  PROVE  Steady(w)'
<1> DEFINE v == [window[w] EXCEPT !.review = call[w][s].verdict]
<1>1. call[w][s].tool = "validate_draft" /\ call[w][s].state # "idle"
  BY DEF Validated, Answered
<1>2. /\ v.draft = window[w].draft /\ v.screen = window[w].screen /\ v.confirming = window[w].confirming
  BY OfWindow DEF Pane
<1>3. window' = [window EXCEPT ![w] = v] /\ Done(w, s) /\ UNCHANGED <<rows, host>>
  BY OfWindow DEF Validated
<1> HIDE DEF v
<1>4. ~window[w].confirming /\ Clean(window[w], server, late)
  BY <1>1, Pending DEF CallFits
<1>5. Clean(v, server, late) /\ ~v.confirming
  BY <1>2, <1>4 DEF Clean
<1> QED BY <1>1, <1>2, <1>3, <1>5, Pending, EndFits

LEMMA AttachedFits ==
  ASSUME Inv, NEW w \in Windows, NEW s \in Slots, Steady(w), Attached(w, s)
  PROVE  Steady(w)'
<1> DEFINE r == call[w][s]
           v == Render(window[w], r.draft)
<1>0. Answered(w, s, "add_draft_attachment") /\ UNCHANGED <<rows, host>>
  BY DEF Attached
<1>1. /\ r.tool = "add_draft_attachment" /\ r.draft \in View /\ r.draft.version # 0 /\ r.state # "idle"
      /\ UNCHANGED <<rows, host>>
  BY <1>0, OfAnswer DEF Seen, Answered
<1>2. /\ v \in Pane /\ v.draft = r.draft /\ v.review = window[w].review /\ v.confirming = window[w].confirming
      /\ Reset(v).review = "hidden" /\ ~Reset(v).confirming /\ Reset(v).draft = r.draft
  BY <1>1, OfWindow, Rendered
<1>3. window[w].review # "passed" /\ ~window[w].confirming
  BY <1>1, Pending DEF CallFits
<1> HIDE DEF v
<1>4. CASE window' = [window EXCEPT ![w] = Reset(v)] /\ Done(w, s)
  BY <1>1, <1>2, <1>4, EndFits
<1>5. ASSUME NEW f \in Files, window' = [window EXCEPT ![w] = v],
             call' = [call EXCEPT ![w][s] = [Idle EXCEPT !.state = "reading", !.file = f]]
      PROVE  Steady(w)'
  <2> DEFINE n == [Idle EXCEPT !.state = "reading", !.file = f]
  <2>1. n.tool = None /\ n.state = "reading" /\ call' = [call EXCEPT ![w][s] = n]
    BY <1>5 DEF Idle
  <2> HIDE DEF n
  <2>2. CallFits(n, v, server, late) /\ ClickFits(n, server, confirmation)
    BY <1>2, <1>3, <2>1, NoneIsNothing DEF CallFits, ClickFits
  <2> QED BY <1>1, <1>2, <1>3, <1>5, <2>1, <2>2, Pending, WindowFits
<1> QED BY <1>4, <1>5 DEF Attached, v

LEMMA DetachedFits ==
  ASSUME Inv, NEW w \in Windows, NEW s \in Slots, Steady(w), Detached(w, s)
  PROVE  Steady(w)'
<1> DEFINE u == Reset(window[w])
           v == Render(u, call[w][s].draft)
<1>1. call[w][s].draft \in View /\ call[w][s].draft.version # 0 /\ call[w][s].state # "idle"
  BY OfAnswer DEF Detached, Seen, Answered
<1>2. v.draft = call[w][s].draft /\ v.review = "hidden" /\ ~v.confirming
  <2>1. u \in Pane /\ u.review = "hidden" /\ ~u.confirming
    BY <1>1, OfWindow, Rendered
  <2> HIDE DEF u
  <2> QED BY <1>1, <2>1, Rendered
<1>3. window' = [window EXCEPT ![w] = v] /\ Done(w, s) /\ UNCHANGED <<rows, host>>
  BY DEF Detached
<1> HIDE DEF v
<1> QED BY <1>1, <1>2, <1>3, EndFits

LEMMA PreparedFits ==
  ASSUME Inv, NEW w \in Windows, NEW s \in Slots, Steady(w), Prepared(w, s)
  PROVE  Steady(w)'
<1> DEFINE v == [window[w] EXCEPT !.confirmation = call[w][s].held, !.confirming = TRUE]
<1>1. call[w][s].tool = "prepare_draft_send" /\ call[w][s].state # "idle"
  BY DEF Prepared, Answered
<1>2. v.draft = window[w].draft /\ v.screen = window[w].screen /\ v.review = window[w].review
  BY OfWindow DEF Pane
<1>3. window' = [window EXCEPT ![w] = v] /\ Done(w, s) /\ UNCHANGED <<rows, host>>
  BY OfWindow DEF Prepared
<1> HIDE DEF v
<1>4. window[w].review = "passed" /\ Clean(window[w], server, late)
  BY <1>1, Pending DEF CallFits
<1>5. Clean(v, server, late)
  BY <1>2, <1>4 DEF Clean
<1> QED BY <1>1, <1>2, <1>3, <1>4, <1>5, Pending, EndFits

LEMMA SentFits ==
  ASSUME Inv, NEW w \in Windows, NEW s \in Slots, Steady(w), Sent(w, s)
  PROVE  Steady(w)'
<1> DEFINE r == call[w][s]
           u == Render(window[w], r.draft)
           v == [Enabled(u, r) EXCEPT !.confirming = FALSE]
<1>1. /\ r.tool = "send_draft" /\ r.draft \in View /\ r.draft.version # 0 /\ r.state = "answered" /\ r.ok
  BY OfAnswer DEF Sent, Seen, Answered
<1>2. u \in Pane /\ u.draft = r.draft /\ u.screen = r.draft.text
  BY <1>1, OfWindow, Rendered
<1>3. window' = [window EXCEPT ![w] = v] /\ Done(w, s) /\ UNCHANGED <<rows, host>>
  BY DEF Sent
<1> HIDE DEF u
<1>4. v.draft = r.draft /\ v.screen = r.draft.text /\ ~v.confirming
  BY <1>1, <1>2 DEF Enabled, Pane
<1> HIDE DEF v
<1>5. /\ window[w].review = "passed" /\ Clean(window[w], server, late)
      /\ r.draft.text = server.text /\ r.draft.files = server.files
  BY <1>1, Pending DEF CallFits
<1>6. Clean(v, server, late)
  BY <1>4, <1>5 DEF Clean
<1> QED BY <1>1, <1>3, <1>4, <1>6, EndFits

\* Whatever the window or its user does leaves it steady.
LEMMA WindowKeepsSteady ==
  ASSUME Inv, patient, NEW w \in Windows, Steady(w), User(w) \/ Widget(w)
  PROVE  Steady(w)'
<1>1. CASE User(w)
  <2>1. ASSUME NEW s \in Slots, NEW then \in {"none", "validate"}, ClickSave(w, s, then) PROVE Steady(w)'
    BY <2>1, SavingFits DEF ClickSave
  <2>2. ASSUME NEW s \in Slots, NEW f \in Files, ChooseFile(w, s, f) \/ ClickRemove(w, s, f) PROVE Steady(w)'
    BY <2>2, SavingFits DEF ChooseFile, ClickRemove
  <2> QED BY <1>1, <2>1, <2>2, TypeFits, CancelFits, ClickPrepareFits, ClickSendFits DEF User
<1>2. CASE Widget(w)
  BY <1>2, OpenFits, ToolResultFits, FailedFits, SavedFits, FileReadFits, ValidatedFits,
     AttachedFits, DetachedFits, PreparedFits, SentFits DEF Widget
<1> QED BY <1>1, <1>2

\* An edit leaves no late call that could edit the draft.
LEMMA EditIsTheLast ==
  ASSUME Inv, server'.version = server.version + 1, late' \subseteq late
  PROVE  /\ NoEdits(server', late')
         /\ \A v : Clean(v, server', late') <=> v.screen = server'.text /\ v.draft.files = server'.files
<1>1. ASSUME NEW r \in late', r.tool \in Editing PROVE r.version \in 1..server.version
  <2>1. r.from \in Windows /\ r.version \in window[r.from].known
    BY <1>1 DEF Inv, GivenUp, LateOK, Asked
  <2>2. window[r.from].known \subseteq 1..server.version
    BY <2>1, OfWindow DEF PaneOK
  <2> QED BY <2>1, <2>2
<1>2. server.version \in Nat
  BY Numbers DEF Inv
<1>3. \A r \in late' : r.tool \in Editing => r.version < server'.version /\ r.version # server'.version
  BY <1>1, <1>2
<1> QED BY <1>3 DEF NoEdits, Clean

\* A confirmation that is used up or replaced is no longer the one a click names.
LEMMA ClicksLast ==
  ASSUME NEW r, NEW row, NEW held, NEW row2, NEW held2, NEW ids \in Nat, r.id \in 0..ids,
         ClickFits(r, row, held),
         \/ row2 = row /\ held2 = held
         \/ held2 = NoApproval
         \/ held2.id = ids + 1
  PROVE  ClickFits(r, row2, held2)
BY DEF ClickFits

\* What a call handled by the server leaves of the clicks.
LEMMA ClicksKept ==
  ASSUME Inv, NEW q, Outcome(q), NEW r, r.id \in Nat, r.id <= issued, ClickFits(r, server, confirmation)
  PROVE  ClickFits(r, server', confirmation')
<1>1. issued \in Nat
  BY Numbers DEF Inv
<1>2. \/ server' = server /\ confirmation' = confirmation
      \/ confirmation' = NoApproval
      \/ confirmation'.id = issued + 1
  <2>1. CASE SubmitDraft(q)
    BY <2>1 DEF SubmitDraft
  <2>2. CASE ~SubmitDraft(q)
    BY <2>2 DEF Outcome
  <2> QED BY <2>1, <2>2
<1> QED BY <1>1, <1>2, ClicksLast

\* A submission is of the draft that was shown.
LEMMA ShownIsSubmitted ==
  ASSUME Inv, NEW q, Outcome(q), q.state = "requested", ClickFits(q, server, confirmation),
         UNCHANGED patient, ScreenIsWhatIsSent
  PROVE  ScreenIsWhatIsSent'
<1>1. CASE SubmitDraft(q)
  <2>1. /\ q.tool = "send_draft" /\ q.id = confirmation.id /\ confirmation # NoApproval
        /\ delivery' = [state |-> "submitting", content |-> ContentOf(server), shown |-> q.shown]
    BY <1>1 DEF SubmitDraft, Confirmed
  <2>2. confirmation.id # 0
    BY <2>1 DEF Inv, Server, RowsOK
  <2>3. q.shown = ContentOf(server)
    BY <2>1, <2>2 DEF ClickFits
  <2> QED BY <2>1, <2>3 DEF ScreenIsWhatIsSent
<1>2. CASE ~SubmitDraft(q)
  <2>1. delivery' = delivery
    BY <1>2 DEF Outcome
  <2> QED BY <2>1 DEF ScreenIsWhatIsSent
<1> QED BY <1>1, <1>2

\* What is known of a late call.
LEMMA LateHasId ==
  ASSUME Inv, NEW r \in late
  PROVE  r.id \in Nat /\ r.id <= issued /\ r.state = "requested" /\ r \in Call
BY DEF Inv, GivenUp, LateOK, Call

\* The host and the server leave a window steady.
LEMMA ServeFits ==
  ASSUME Inv, NEW w \in Windows, NEW s \in Slots, Steady(w), Serve(w, s)
  PROVE  Steady(w)'
<1> DEFINE r == call[w][s]
           v == window[w]
<1>1. /\ r.state = "requested" /\ Handles(r) /\ UNCHANGED <<window, notice, late, lost, patient>>
  BY DEF Serve, host, Handles
<1>2. /\ r \in Call /\ Asked(r, w, window[w].known) /\ r.id \in Nat /\ r.id <= issued
  BY <1>1, OfSlot DEF CallOK, Call
<1>3. Outcome(r)
  <2>1. Server /\ lost' \in 0..MaxLost[patient]
    BY <1>1 DEF Inv, Server, RowsOK
  <2> QED BY <1>1, <1>2, <2>1, ServerHandles
<1>4. /\ \A t \in Slots \ {s} : call[w][t] = Idle
      /\ notice[w] = None /\ v.draft.version # 0
      /\ v.review = "passed" => Clean(v, server, late)
      /\ v.confirming => v.review = "passed"
      /\ CallFits(r, v, server, late) /\ ClickFits(r, server, confirmation)
  BY <1>1, Pending
<1>5. server \in Row /\ server.version \in Nat /\ server' \in Row
  BY <1>3, Numbers DEF Inv, Outcome, Server, RowsOK
<1>6. \/ server' = server
      \/ /\ r.tool \in Editing /\ server'.version = server.version + 1
         /\ NoEdits(server', late')
         /\ \A u : Clean(u, server', late') <=> u.screen = server'.text /\ u.draft.files = server'.files
         /\ r.tool = "update_draft" => server'.text = r.text /\ server'.files = server.files
  <2>1. CASE server' = server
    BY <2>1
  <2>2. CASE server' # server
    <3>1. /\ r.tool \in Editing /\ server'.version = server.version + 1
          /\ r.tool = "update_draft" => server'.text = r.text /\ server'.files = server.files
      BY <1>3, <2>2 DEF Outcome
    <3> QED BY <1>1, <3>1, EditIsTheLast
  <2> QED BY <2>1, <2>2
<1>7. v.review = "passed" => Clean(v, server', late')
  <2> SUFFICES ASSUME v.review = "passed", server' # server PROVE Clean(v, server', late')
    BY <1>1, <1>4
  <2>1. r.tool = "update_draft"
    BY <1>4, <1>6 DEF CallFits
  <2>2. server'.text = v.screen /\ server'.files = v.draft.files
    BY <1>1, <1>4, <1>6, <2>1 DEF CallFits, Clean
  <2> QED BY <1>6, <2>2
<1>8. r.tool = "validate_draft" => ~v.confirming /\ Clean(v, server', late')
  <2> SUFFICES ASSUME r.tool = "validate_draft" PROVE ~v.confirming /\ Clean(v, server', late')
    OBVIOUS
  <2>1. server' = server
    BY <1>6
  <2> QED BY <1>1, <1>4, <2>1 DEF CallFits
<1>9. PICK n : /\ call' = [call EXCEPT ![w][s] = n] /\ n.tool = r.tool
               /\ n.state \in {"answered", "delivering"}
               /\ n.ok /\ n.state = "answered" => Performs(r) /\ n.draft = ViewOf(server')
               /\ n.state = "delivering" => n.draft = ViewOf(server) /\ server' = server
  <2>1. CASE Performs(r) /\ \E verdict \in {"passed", "blocked"} :
             call' = [call EXCEPT ![w][s] =
               [r EXCEPT !.state = "answered", !.ok = TRUE, !.draft = ViewOf(server'),
                         !.held = confirmation',
                         !.verdict = IF r.tool = "validate_draft" THEN verdict ELSE None]]
    <3>1. PICK verdict \in {"passed", "blocked"} :
             call' = [call EXCEPT ![w][s] =
               [r EXCEPT !.state = "answered", !.ok = TRUE, !.draft = ViewOf(server'),
                         !.held = confirmation',
                         !.verdict = IF r.tool = "validate_draft" THEN verdict ELSE None]]
      BY <2>1
    <3> DEFINE d == ViewOf(server')
               told == IF r.tool = "validate_draft" THEN verdict ELSE None
               n == [r EXCEPT !.state = "answered", !.ok = TRUE, !.draft = d,
                              !.held = confirmation', !.verdict = told]
    <3>2. call' = [call EXCEPT ![w][s] = n]
      BY <3>1
    <3> HIDE DEF d, told
    <3>3. n.tool = r.tool /\ n.state = "answered" /\ n.draft = d
      BY <1>2 DEF Call
    <3> HIDE DEF n
    <3>4. n.draft = ViewOf(server')
      BY <3>3 DEF d
    <3> QED BY <2>1, <3>2, <3>3, <3>4
  <2>2. CASE /\ SubmitDraft(r)
             /\ call' = [call EXCEPT ![w][s].state = "delivering", ![w][s].draft = ViewOf(server)]
    <3> DEFINE d == ViewOf(server)
               n == [r EXCEPT !.state = "delivering", !.draft = d]
    <3>1. n.tool = r.tool /\ n.state = "delivering" /\ n.draft = d
      BY <1>2 DEF Call
    <3>2. call' = [call EXCEPT ![w][s] = n] /\ server' = server
      BY <2>2 DEF SubmitDraft
    <3> HIDE DEF n
    <3> QED BY <3>1, <3>2
  <2>3. CASE Refuses(r) /\ call' = [call EXCEPT ![w][s].state = "answered"]
    <3> DEFINE n == [r EXCEPT !.state = "answered"]
    <3>1. n.tool = r.tool /\ n.state = "answered" /\ n.ok = r.ok
      BY <1>2 DEF Call
    <3>2. call' = [call EXCEPT ![w][s] = n] /\ ~r.ok
      BY <1>2, <2>3 DEF Asked
    <3> HIDE DEF n
    <3> QED BY <3>1, <3>2
  <2> QED BY <2>1, <2>2, <2>3 DEF Serve
<1>10. ASSUME n.state = "answered", n.ok, n.tool \in {"update_draft", "send_draft"}
       PROVE  /\ n.draft.text = server'.text /\ n.draft.files = server'.files
              /\ n.tool = "update_draft" => NoEdits(server', late')
  <2>1. Performs(r) /\ n.draft = ViewOf(server')
    BY <1>9, <1>10
  <2>2. r.tool = "update_draft" => server'.version = server.version + 1
    <3> SUFFICES ASSUME r.tool = "update_draft" PROVE server'.version = server.version + 1
      OBVIOUS
    <3>1. UpdateDraft(r)
      BY <2>1 DEF Performs, AddDraftAttachment, RemoveDraftAttachment, ValidateDraft,
         PrepareDraftSend, ReplayDraft
    <3>2. server' = [server EXCEPT !.text = r.text, !.files = server.files, !.version = server.version + 1]
      BY <3>1 DEF UpdateDraft, Edited
    <3> QED BY <1>5, <3>2
  <2>3. server'.version = server.version + 1 => server' # server
    BY <1>5
  <2> QED BY <1>6, <1>9, <2>1, <2>2, <2>3 DEF ViewOf
<1>11. CallFits(n, v, server', late') /\ ClickFits(n, server', confirmation')
  <2>1. n.state = "delivering" => n.draft.text = server'.text /\ n.draft.files = server'.files
    BY <1>9 DEF ViewOf
  <2> QED BY <1>4, <1>8, <1>9, <1>10, <2>1, NoneIsNothing DEF CallFits, ClickFits
<1>12. Careful(v, [call[w] EXCEPT ![s] = n], FALSE, server', confirmation', late')
  BY <1>4, <1>7, <1>11, OfSlot, SlotFits
<1>13. /\ call'[w] = [call[w] EXCEPT ![s] = n] /\ window'[w] = v /\ (notice'[w] # None) = FALSE
  BY <1>1, <1>4, <1>9, OfSlot
<1>14. \A q \in late' : ClickFits(q, server', confirmation')
  BY <1>1, <1>3, LateHasId, ClicksKept DEF Steady
<1>15. ScreenIsWhatIsSent'
  BY <1>1, <1>3, <1>4, ShownIsSubmitted DEF Steady
<1> HIDE DEF r, v
<1>16. Careful(window'[w], call'[w], notice'[w] # None, server', confirmation', late')
  BY <1>12, <1>13
<1> QED BY <1>14, <1>15, <1>16 DEF Steady

LEMMA HostGivesUpFits ==
  ASSUME Inv, NEW w \in Windows, NEW s \in Slots, Steady(w), HostGivesUp(w, s)
  PROVE  Steady(w)'
<1> DEFINE r == call[w][s]
           v == window[w]
           n == [r EXCEPT !.state = "answered", !.ok = FALSE]
<1>1. /\ r.state \in {"requested", "delivering", "answered"}
      /\ late' = IF r.state = "requested" THEN late \cup {r} ELSE late
      /\ UNCHANGED <<rows, window, notice, patient>> /\ call' = [call EXCEPT ![w][s] = n]
  BY DEF HostGivesUp
<1>2. r \in Call /\ n.tool = r.tool /\ n.state = "answered" /\ ~n.ok
  BY OfSlot DEF Call
<1>3. server' = server /\ confirmation' = confirmation /\ delivery' = delivery
  BY <1>1 DEF rows
<1> HIDE DEF n
<1>4. /\ \A t \in Slots \ {s} : call[w][t] = Idle
      /\ notice[w] = None /\ v.draft.version # 0
      /\ v.review = "passed" => Clean(v, server, late)
      /\ v.confirming => v.review = "passed"
      /\ CallFits(r, v, server, late) /\ ClickFits(r, server, confirmation)
  BY <1>1, Pending
<1>5. v.review = "passed" => Clean(v, server, late')
  <2> SUFFICES ASSUME v.review = "passed" PROVE Clean(v, server, late')
    OBVIOUS
  <2>1. r.state = "requested" /\ r.tool \in Editing => r.tool = "update_draft" /\ r.text = server.text
    BY <1>4 DEF CallFits, Clean
  <2> QED BY <1>1, <1>4, <2>1 DEF Clean
<1>6. r.tool = "validate_draft" => ~v.confirming /\ Clean(v, server, late')
  <2> SUFFICES ASSUME r.tool = "validate_draft" PROVE ~v.confirming /\ Clean(v, server, late')
    OBVIOUS
  <2> QED BY <1>1, <1>4 DEF CallFits, Clean
<1>7. CallFits(n, v, server, late') /\ ClickFits(n, server, confirmation)
  BY <1>2, <1>4, <1>6 DEF CallFits, ClickFits
<1>8. Careful(v, [call[w] EXCEPT ![s] = n], FALSE, server, confirmation, late')
  BY <1>4, <1>5, <1>7, OfSlot, SlotFits
<1>9. /\ call'[w] = [call[w] EXCEPT ![s] = n] /\ window'[w] = v /\ (notice'[w] # None) = FALSE
  BY <1>1, <1>4, OfSlot
<1>10. \A q \in late' : ClickFits(q, server, confirmation)
  BY <1>1, <1>4 DEF Steady
<1>11. ScreenIsWhatIsSent'
  BY <1>1, <1>3 DEF Steady, ScreenIsWhatIsSent
<1> HIDE DEF r, v
<1>12. Careful(window'[w], call'[w], notice'[w] # None, server', confirmation', late')
  BY <1>3, <1>8, <1>9
<1> QED BY <1>3, <1>10, <1>11, <1>12 DEF Steady

\* Fewer late calls, and a draft whose content stays.
LEMMA CleanLasts ==
  ASSUME NEW v, NEW row, NEW row2, NEW calls, NEW calls2, Clean(v, row, calls), calls2 \subseteq calls,
         row2.text = row.text, row2.files = row.files, row2.version = row.version \/ NoEdits(row2, calls2),
         row2.version \in Nat, \A r \in calls2 : r.version \in Nat
  PROVE  Clean(v, row2, calls2)
BY DEF Clean, NoEdits

LEMMA CallFitsLast ==
  ASSUME NEW v, NEW r, NEW row, NEW row2, NEW calls, NEW calls2, CallFits(r, v, row, calls),
         calls2 \subseteq calls, row2.text = row.text, row2.files = row.files,
         row2.version = row.version \/ NoEdits(row2, calls2), row2.version \in Nat,
         \A q \in calls2 : q.version \in Nat
  PROVE  CallFits(r, v, row2, calls2)
<1>1. Clean(v, row, calls) => Clean(v, row2, calls2)
  BY CleanLasts
<1>2. NoEdits(row, calls) => NoEdits(row2, calls2)
  BY DEF NoEdits
<1> QED BY <1>1, <1>2 DEF CallFits

\* The draft keeps its content.
LEMMA ContentStays ==
  ASSUME NEW v, NEW f, NEW posted, NEW row, NEW held, NEW calls, NEW row2, NEW held2, NEW calls2,
         Careful(v, f, posted, row, held, calls),
         calls2 \subseteq calls, row2.text = row.text, row2.files = row.files,
         row2.version = row.version \/ NoEdits(row2, calls2), row2.version \in Nat,
         \A q \in calls2 : q.version \in Nat, \A s \in Slots : ClickFits(f[s], row2, held2)
  PROVE  Careful(v, f, posted, row2, held2, calls2)
<1>1. v.review = "passed" => Clean(v, row2, calls2)
  BY CleanLasts DEF Careful
<1>2. \A s \in Slots : CallFits(f[s], v, row2, calls2)
  BY CallFitsLast DEF Careful
<1> QED BY <1>1, <1>2 DEF Careful

LEMMA ServeLateFits ==
  ASSUME Inv, NEW w \in Windows, Steady(w), NEW r, ServeLate(r)
  PROVE  Steady(w)'
<1>1. r \in late /\ late' \subseteq late /\ UNCHANGED <<window, call, notice, patient>>
  BY DEF ServeLate
<1>2. Outcome(r)
  BY ServeLateIsSound
<1>3. ASSUME NEW s \in Slots PROVE ClickFits(call[w][s], server', confirmation')
  BY <1>2, OfSlot, ClicksKept DEF Steady, Careful, CallOK, Call
<1>4. \A q \in late' : ClickFits(q, server', confirmation')
  BY <1>1, <1>2, LateHasId, ClicksKept DEF Steady
<1>5. ScreenIsWhatIsSent'
  BY <1>1, <1>2, LateHasId, ShownIsSubmitted DEF Steady
<1>6. /\ server.version \in Nat /\ server'.version \in Nat /\ \A q \in late' : q.version \in Nat
  BY <1>1, <1>2, LateHasId, Numbers DEF Inv, Outcome, Server, RowsOK, Call
<1>7. Careful(window[w], call[w], notice[w] # None, server', confirmation', late')
  <2>1. CASE server' = server
    BY <1>1, <1>3, <1>6, <2>1, ContentStays DEF Steady
  <2>2. CASE server' # server
    <3> DEFINE v == window[w]
               f == call[w]
    <3>1. /\ r.tool \in Editing /\ r.version = server.version /\ server'.version = server.version + 1
          /\ r.tool = "update_draft" => server'.text = r.text /\ server'.files = server.files
      BY <1>2, <2>2 DEF Outcome
    <3>2. NoEdits(server', late')
      BY <1>1, <3>1, EditIsTheLast
    <3>3. ~NoEdits(server, late)
      BY <1>1, <1>6, <3>1 DEF NoEdits
    <3>4. Clean(v, server, late) => server'.text = server.text /\ server'.files = server.files
      BY <1>1, <3>1 DEF Clean
    <3>5. CASE server'.text = server.text /\ server'.files = server.files
      BY <1>1, <1>3, <1>6, <3>2, <3>5, ContentStays DEF Steady
    <3>6. CASE ~Clean(v, server, late)
      <4>1. Careful(v, f, notice[w] # None, server, confirmation, late)
        BY DEF Steady
      <4>2. v.review # "passed"
        BY <3>6, <4>1 DEF Careful
      <4>3. \A s \in Slots : f[s].state # "delivering"
        BY <4>1, <4>2, OfSlot DEF Careful, CallFits, CallOK
      <4>4. \A s \in Slots : CallFits(f[s], v, server', late')
        BY <3>3, <3>6, <4>1, <4>2, <4>3 DEF Careful, CallFits
      <4> QED BY <1>3, <4>1, <4>2, <4>4 DEF Careful
    <3> QED BY <3>4, <3>5, <3>6
  <2> QED BY <2>1, <2>2
<1>8. Careful(window'[w], call'[w], notice'[w] # None, server', confirmation', late')
  BY <1>1, <1>7
<1> QED BY <1>4, <1>5, <1>8 DEF Steady

LEMMA DeliveredFits ==
  ASSUME Inv, NEW w \in Windows, Steady(w), NEW outcome, Delivered(outcome)
  PROVE  Steady(w)'
<1>1. /\ delivery.state = "submitting" /\ delivery' = [delivery EXCEPT !.state = outcome]
      /\ server' = IF outcome = "accepted" /\ server.status = "draft"
                   THEN [server EXCEPT !.status = "sent", !.version = server.version + 1]
                   ELSE server
      /\ UNCHANGED <<confirmation, issued, window, notice, late, patient>>
  BY DEF Delivered, host
<1>2. server \in Row /\ server.version \in Nat /\ delivery \in Submission
  BY Numbers DEF Inv, Server, RowsOK
<1>3. /\ server'.text = server.text /\ server'.files = server.files /\ server'.version \in Nat
      /\ server'.version = server.version \/ server'.version = server.version + 1
  <2>1. CASE server' = server
    BY <1>2, <2>1
  <2>2. CASE server' = [server EXCEPT !.status = "sent", !.version = server.version + 1]
    BY <1>2, <2>2 DEF Row
  <2> QED BY <1>1, <2>1, <2>2
<1>4. server'.version = server.version \/ NoEdits(server', late')
  BY <1>1, <1>3, EditIsTheLast
<1>5. ContentOf(server') = ContentOf(server)
  BY <1>3 DEF ContentOf
<1>6. \A q \in late' : ClickFits(q, server', confirmation') /\ q.version \in Nat
  BY <1>1, <1>5, LateHasId DEF Steady, ClickFits, Call
<1>7. ScreenIsWhatIsSent'
  <2>1. delivery'.content = delivery.content /\ delivery'.shown = delivery.shown /\ delivery.state # "none"
    BY <1>1, <1>2 DEF Submission
  <2> QED BY <1>1, <2>1 DEF Steady, ScreenIsWhatIsSent
<1>8. \A s \in Slots : ClickFits(call[w][s], server', confirmation')
  BY <1>1, <1>5 DEF Steady, Careful, ClickFits
<1>9. Careful(window[w], call[w], notice[w] # None, server', confirmation', late')
  <2>1. Careful(window[w], call[w], notice[w] # None, server, confirmation, late)
    BY DEF Steady
  <2>2. late' \subseteq late /\ \A q \in late' : q.version \in Nat
    BY <1>1, <1>6
  <2> QED BY <1>3, <1>4, <1>8, <2>1, <2>2, ContentStays
<1>10. Careful(window[w], call'[w], notice[w] # None, server', confirmation', late')
  <2>1. CASE \E s \in Slots : call[w][s].state = "delivering"
    <3>1. PICK s \in Slots : call[w][s].state = "delivering"
      BY <2>1
    <3> DEFINE r == call[w][s]
               d == IF outcome = "accepted" THEN ViewOf(server') ELSE r.draft
               known == outcome # "unknown"
               n == [r EXCEPT !.state = "answered", !.ok = known, !.draft = d]
    <3>2. /\ \A t \in Slots \ {s} : call[w][t] = Idle
          /\ notice[w] = None /\ window[w].draft.version # 0
      BY <3>1, Pending
    <3>3. /\ r \in Call /\ r.tool = "send_draft"
      BY <3>1, OfSlot DEF CallOK
    <3>4. call'[w] = [call[w] EXCEPT ![s] = n]
      <4>1. call'[w] = [t \in Slots |->
               IF call[w][t].state = "delivering"
               THEN [call[w][t] EXCEPT !.state = "answered", !.ok = outcome # "unknown",
                                       !.draft = IF outcome = "accepted" THEN ViewOf(server') ELSE @]
               ELSE call[w][t]]
        BY DEF Delivered
      <4>2. \A t \in Slots \ {s} : call[w][t].state # "delivering"
        BY <3>2, IdleIs
      <4>3. call'[w] = [t \in Slots |-> IF t = s THEN n ELSE call[w][t]]
        BY <3>1, <4>1, <4>2
      <4> HIDE DEF n
      <4> QED BY <4>3, OfSlot
    <3>5. d.text = server'.text /\ d.files = server'.files
      <4>1. CallFits(r, window[w], server', late')
        BY <1>9 DEF Careful
      <4> QED BY <3>1, <4>1 DEF ViewOf, CallFits
    <3> HIDE DEF d, known
    <3>6. n.tool = "send_draft" /\ n.state = "answered" /\ n.draft = d
      BY <3>3 DEF Call
    <3> HIDE DEF n, r
    <3>7. window[w].review = "passed"
      <4>1. CallFits(call[w][s], window[w], server', late')
        BY <1>9 DEF Careful
      <4> QED BY <3>3, <4>1 DEF CallFits, r
    <3>8. Clean(window[w], server', late')
      BY <1>9, <3>7 DEF Careful
    <3>9. CallFits(n, window[w], server', late') /\ ClickFits(n, server', confirmation')
      BY <3>5, <3>6, <3>7 DEF CallFits, ClickFits
    <3>10. Careful(window[w], [call[w] EXCEPT ![s] = n], FALSE, server', confirmation', late')
      BY <3>2, <3>7, <3>8, <3>9, OfSlot, SlotFits
    <3>11. (notice[w] # None) = FALSE
      BY <3>2
    <3> QED BY <3>4, <3>10, <3>11
  <2>2. CASE ~\E s \in Slots : call[w][s].state = "delivering"
    <3>1. call'[w] = [t \in Slots |-> call[w][t]]
      BY <2>2 DEF Delivered
    <3>2. call'[w] = call[w]
      BY <3>1 DEF Inv, Widgets
    <3> QED BY <1>9, <3>2
  <2> QED BY <2>1, <2>2
<1>11. Careful(window'[w], call'[w], notice'[w] # None, server', confirmation', late')
  BY <1>1, <1>10
<1> QED BY <1>6, <1>7, <1>11 DEF Steady

\* What a patient user alone with the draft submits is what the window showed, although calls are
\* lost and handled late: the screen of a validated draft stays the draft, since the only edit that
\* can still come is the same text, and the confirmation of the click would not survive it.
THEOREM ScreenIsSent ==
  ASSUME Alone
  PROVE  Spec => []ScreenIsWhatIsSent
<1>1. Init => AloneInv
  <2> SUFFICES ASSUME Init, patient, NEW w \in Windows PROVE Steady(w)
    <3>1. ASSUME Init PROVE late = {} /\ delivery.state = "none"
      BY <3>1 DEF Init, NoDelivery
    <3> QED BY <3>1 DEF AloneInv, Patiently, Steady, ScreenIsWhatIsSent
  <2>1. /\ window[w].review = "hidden" /\ ~window[w].confirming /\ late = {} /\ delivery.state = "none"
        /\ \A s \in Slots : call[w][s] = Idle
    BY DEF Init, NoDelivery
  <2>2. Careful(window[w], call[w], notice[w] # None, server, confirmation, late)
    BY <2>1, QuietFits
  <2> QED BY <2>1, <2>2 DEF Steady, ScreenIsWhatIsSent
<1>2. Inv /\ AloneInv /\ [Next]_vars => AloneInv'
  <2> SUFFICES ASSUME Inv, AloneInv, [Next]_vars PROVE AloneInv'
    OBVIOUS
  <2>1. CASE UNCHANGED vars
    BY <2>1 DEF vars, AloneInv, Patiently, ScreenIsWhatIsSent
  <2>2. CASE Next
    <3>1. UNCHANGED patient
      <4>1. CASE Bridge
        BY <4>1 DEF Bridge, Serve, HostGivesUp, ServeLate, Delivered, host
      <4>2. ASSUME NEW w \in Windows, User(w) PROVE UNCHANGED patient
        BY <4>2 DEF User, Type, ClickCancel, ClickSave, ChooseFile, ClickRemove, ClickPrepare, ClickSend,
          host
      <4>3. ASSUME NEW w \in Windows, Widget(w) PROVE UNCHANGED patient
        BY <4>3 DEF Widget, Open, ToolResult, Failed, Saved, FileRead, Validated, Attached, Detached,
          Prepared, Sent, host
      <4> QED BY <2>2, <4>1, <4>2, <4>3 DEF Next
    <3>2. ASSUME NEW w \in Windows, patient PROVE Steady(w)'
      <4>1. Steady(w) /\ \A u \in Windows : u = w
        BY <3>2, OfPatience DEF Alone
      <4>2. CASE \E u \in Windows : User(u) \/ Widget(u)
        BY <3>2, <4>1, <4>2, WindowKeepsSteady
      <4>3. CASE \E u \in Windows, s \in Slots : Serve(u, s) \/ HostGivesUp(u, s)
        BY <4>1, <4>3, ServeFits, HostGivesUpFits
      <4>4. CASE \E r \in late : ServeLate(r)
        BY <4>1, <4>4, ServeLateFits
      <4>5. CASE \E outcome \in {"accepted", "rejected", "unknown"} : Delivered(outcome)
        BY <4>1, <4>5, DeliveredFits
      <4> QED BY <2>2, <4>2, <4>3, <4>4, <4>5 DEF Next, Bridge
    <3>3. CASE Windows # {}
      BY <3>1, <3>2, <3>3, SteadyIsEnough
    <3>4. CASE Windows = {}
      <4>1. late = {}
        BY <3>4 DEF Inv, GivenUp
      <4>2. PICK outcome \in {"accepted", "rejected", "unknown"} : Delivered(outcome)
        BY <2>2, <3>4, <4>1 DEF Next, Bridge
      <4>3. delivery \in Submission /\ delivery.state = "submitting" /\ late' = late
            /\ delivery' = [delivery EXCEPT !.state = outcome]
        BY <4>2 DEF Inv, Server, RowsOK, Delivered, host
      <4>4. delivery'.content = delivery.content /\ delivery'.shown = delivery.shown
        BY <4>3
      <4>5. patient' => ScreenIsWhatIsSent
        BY <3>1 DEF AloneInv, Patiently, Alone
      <4> QED BY <3>1, <3>4, <4>1, <4>3, <4>4, <4>5
            DEF AloneInv, Patiently, ScreenIsWhatIsSent
    <3> QED BY <3>3, <3>4
  <2> QED BY <2>1, <2>2
<1>3. AloneInv => ScreenIsWhatIsSent
  BY DEF AloneInv, Patiently, ScreenIsWhatIsSent
<1> QED BY <1>1, <1>2, <1>3, Invariant, PTL DEF Spec
===============================================================================
