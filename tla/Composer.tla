------------------------------- MODULE Composer -------------------------------
(***************************************************************************)
(* The Safe Send composer: windows that show one draft and call the tools  *)
(* of the server through the host (src/app/safeSendWidget.ts and the       *)
(* handlers behind it in src/mcp/server.ts).  Every function of the widget *)
(* runs up to its `await callTool(...)`, and whatever else happens in the  *)
(* window or on the server may come before the answer.  The host may also  *)
(* give up on a call that the server still handles later.                  *)
(*                                                                         *)
(* The recipients, the subject and the body of the form are one text; an   *)
(* attachment is an element of Files; the verdict of the send policy is a  *)
(* choice.  What the server does with confirmations and submissions beyond *)
(* one draft is the subject of module SafeSend.                            *)
(***************************************************************************)
EXTENDS Naturals, FiniteSets

CONSTANTS
  Windows,          \* windows open on the draft
  Texts,            \* what the form may contain
  Files,            \* attachments
  Slots,            \* calls a window may have pending
  Patience,         \* environment: whether users act only while nothing is pending
  MaxVersion,       \* bound: versions of the draft
  MaxConfirmations, \* bound: confirmations prepared
  MaxLost,          \* bound: calls the host gives up; each bound for patient users and others
  None

ASSUME ComposerBounds == {MaxVersion, MaxConfirmations, MaxLost} \subseteq [BOOLEAN -> Nat]
ASSUME PatienceIsBoolean == Patience \subseteq BOOLEAN
\* A draft may begin with every file, one version for each, within the bound.
ASSUME FilesAreFew == IsFiniteSet(Files) /\ \A p \in Patience : Cardinality(Files) < MaxVersion[p]

VARIABLES
  server,       \* the row of the draft
  confirmation, \* the confirmation the server would accept, id 0 when there is none
  delivery,     \* the submission of the draft, with what the sender saw (history)
  issued,       \* confirmations prepared so far
  editor,       \* history: the window whose call changed the draft last
  window,       \* the variables and the visible panels of each widget
  call,         \* the calls each widget awaits
  notice,       \* tool results the host has yet to post to a window
  late,         \* calls the host gave up that the server has not handled
  lost,         \* calls the host gave up so far
  patient       \* environment: the users are patient, never changed

rows == <<server, confirmation, delivery, issued, editor>>
host == <<notice, late, lost, patient>>
vars == <<server, confirmation, delivery, issued, editor, window, call, notice, late, lost, patient>>

Tools       == {"update_draft", "validate_draft", "add_draft_attachment",
                "remove_draft_attachment", "prepare_draft_send", "send_draft"}
ASSUME NoneIsNothing == None \notin Texts \cup Files \cup Tools

Content     == [text : Texts, files : SUBSET Files]
View        == [version : Nat, text : Texts, files : SUBSET Files]
NoApproval  == [id |-> 0, version |-> 0]
NoDelivery  == [state |-> "none", content |-> None, shown |-> None]
Idle        == [state |-> "idle", from |-> None, tool |-> None, then |-> None, version |-> 0, text |-> None,
                file |-> None, id |-> 0, shown |-> None, ok |-> FALSE, draft |-> None,
                held |-> NoApproval, verdict |-> None]

\* The content of a view or of the row, and the view a tool returns of the row.
ContentOf(v) == [text |-> v.text, files |-> v.files]
ViewOf(s)    == [version |-> s.version, text |-> s.text, files |-> s.files]

\* What the window shows: the form, and the attachments of the draft it knows.
Shown(w) == [text |-> window[w].screen, files |-> window[w].draft.files]

----------------------------------------------------------------------------
\* The draft was created and files were added to it one by one; no window is open yet.
Init ==
  \E t \in Texts, fs \in SUBSET Files :
    /\ server = [status |-> "draft", version |-> 1 + Cardinality(fs), text |-> t, files |-> fs]
    /\ confirmation = NoApproval
    /\ delivery = NoDelivery
    /\ issued = 0
    /\ editor = None
    /\ window = [w \in Windows |->
                   [draft |-> [version |-> 0, text |-> t, files |-> {}], known |-> {},
                    screen |-> t, review |-> "hidden", confirmation |-> NoApproval,
                    confirming |-> FALSE, sendDisabled |-> FALSE]]
    /\ call = [w \in Windows |-> [s \in Slots |-> Idle]]
    /\ notice = [w \in Windows |-> None]
    /\ late = {}
    /\ lost = 0
    /\ patient \in Patience

----------------------------------------------------------------------------
\* The tools, as the server handles a call r

\* Mutant of Edits: the expected version is not compared.
EditsAnyVersion(r) == server.status = "draft" /\ server.version < MaxVersion[patient]

\* updateDraft accepts the call: an unsent draft at the version the caller expects.
Edits(r) ==
  /\ server.status = "draft"
  /\ r.version = server.version
  /\ server.version < MaxVersion[patient]

Edited(r, text, files) ==
  /\ editor' = r.from
  /\ server' = [server EXCEPT !.text = text, !.files = files, !.version = server.version + 1]
  /\ confirmation' = NoApproval
  /\ UNCHANGED <<delivery, issued>>

\* The server keeps the attachments of the draft whatever the form says.
UpdateDraft(r) ==
  /\ r.tool = "update_draft"
  /\ Edits(r)
  /\ Edited(r, r.text, server.files)

AddDraftAttachment(r) ==
  /\ r.tool = "add_draft_attachment"
  /\ Edits(r)
  /\ r.file \notin server.files
  /\ Edited(r, server.text, server.files \cup {r.file})

RemoveDraftAttachment(r) ==
  /\ r.tool = "remove_draft_attachment"
  /\ Edits(r)
  /\ r.file \in server.files
  /\ Edited(r, server.text, server.files \ {r.file})

ValidateDraft(r) ==
  /\ r.tool = "validate_draft"
  /\ server.status = "draft"
  /\ UNCHANGED rows

\* prepareDraftSend takes no version: it confirms the draft as it is now.
PrepareDraftSend(r) ==
  /\ r.tool = "prepare_draft_send"
  /\ server.status = "draft"
  /\ issued < MaxConfirmations[patient]
  /\ issued' = issued + 1
  /\ confirmation' = [id |-> issued + 1, version |-> server.version]
  /\ UNCHANGED <<server, delivery, editor>>

\* The confirmation is the one outstanding, for the version both sides name.
Confirmed(r) ==
  /\ r.tool = "send_draft"
  /\ server.status = "draft"
  /\ delivery.state \in {"none", "unknown", "submitting"}
  /\ r.id = confirmation.id
  /\ confirmation # NoApproval
  /\ r.version = server.version
  /\ confirmation.version = server.version

\* sendDraft up to its first await.
SubmitDraft(r) ==
  /\ Confirmed(r)
  /\ delivery.state = "none"
  /\ confirmation' = NoApproval
  /\ delivery' = [state |-> "submitting", content |-> ContentOf(server), shown |-> r.shown]
  /\ UNCHANGED <<server, issued, editor>>

\* sendDraft finds the receipt of the same content and replays it.
ReplayDraft(r) ==
  /\ r.tool = "send_draft"
  /\ delivery.state \in {"accepted", "rejected"}
  /\ delivery.content = ContentOf(server)
  /\ UNCHANGED rows

\* Any tool may refuse (version, policy, limits, validation); a reservation that is
\* refused has already used up the confirmation.
Refuses(r) ==
  \/ UNCHANGED rows
  \/ /\ Confirmed(r)
     /\ confirmation' = NoApproval
     /\ UNCHANGED <<server, delivery, issued, editor>>

\* The tools that answer at once.
Performs(r) ==
  \/ UpdateDraft(r)
  \/ AddDraftAttachment(r)
  \/ RemoveDraftAttachment(r)
  \/ ValidateDraft(r)
  \/ PrepareDraftSend(r)
  \/ ReplayDraft(r)

----------------------------------------------------------------------------
\* Calls on their way

Serve(w, s) ==
  LET r == call[w][s] IN
  /\ r.state = "requested"
  /\ \/ /\ Performs(r)
        /\ \E verdict \in {"passed", "blocked"} :
             call' = [call EXCEPT ![w][s] =
               [r EXCEPT !.state = "answered", !.ok = TRUE, !.draft = ViewOf(server'),
                         !.held = confirmation',
                         !.verdict = IF r.tool = "validate_draft" THEN verdict ELSE None]]
     \/ /\ SubmitDraft(r)
        /\ call' = [call EXCEPT ![w][s].state = "delivering", ![w][s].draft = ViewOf(server)]
     \/ Refuses(r) /\ call' = [call EXCEPT ![w][s].state = "answered"]
  /\ UNCHANGED <<window, host>>

\* The delivery ends and the handler answers whoever still waits for it: with the draft marked
\* sent, or with the draft as it was when the delivery began.
Delivered(outcome) ==
  /\ delivery.state = "submitting"
  /\ delivery' = [delivery EXCEPT !.state = outcome]
  /\ server' = IF outcome = "accepted" /\ server.status = "draft"
               THEN [server EXCEPT !.status = "sent", !.version = server.version + 1]
               ELSE server
  /\ call' = [w \in Windows |-> [s \in Slots |->
       IF call[w][s].state = "delivering"
       THEN [call[w][s] EXCEPT !.state = "answered", !.ok = outcome # "unknown",
                               !.draft = IF outcome = "accepted" THEN ViewOf(server') ELSE @]
       ELSE call[w][s]]]
  /\ UNCHANGED <<confirmation, issued, editor, window, host>>

\* The host reports an error; a call that was not handled yet may still be.
HostGivesUp(w, s) ==
  LET r == call[w][s] IN
  /\ r.state \in {"requested", "delivering", "answered"}
  /\ lost < MaxLost[patient]
  /\ lost' = lost + 1
  /\ late' = IF r.state = "requested" THEN late \cup {r} ELSE late
  /\ call' = [call EXCEPT ![w][s].state = "answered", ![w][s].ok = FALSE]
  /\ UNCHANGED <<rows, window, notice, patient>>

ServeLate(r) ==
  /\ r \in late
  /\ late' = late \ {r}
  /\ Performs(r) \/ SubmitDraft(r) \/ Refuses(r)
  /\ UNCHANGED <<window, call, notice, lost, patient>>

----------------------------------------------------------------------------
\* The widget

\* resetApproval
Reset(v) == [v EXCEPT !.review = "hidden", !.confirmation = NoApproval, !.confirming = FALSE]

\* render: the draft that came is adopted and written over the form.
Render(v, d) == [v EXCEPT !.draft = d, !.known = v.known \cup {d.version}, !.screen = d.text]

IsOpen(w) == window[w].draft.version # 0

\* open_mail_composer reads the draft; the window starts with that result, and the host
\* posts the same result to it once more.
Open(w) ==
  /\ ~IsOpen(w)
  /\ window' = [window EXCEPT ![w] = Render(window[w], ViewOf(server))]
  /\ notice' = [notice EXCEPT ![w] = ViewOf(server)]
  /\ UNCHANGED <<rows, call, late, lost, patient>>

MayAct(w) ==
  /\ IsOpen(w)
  /\ patient => /\ notice[w] = None
                /\ \A s \in Slots : call[w][s].state = "idle"

\* callTool of a window in a free slot.
Calls(w, s, r) ==
  /\ call[w][s] = Idle
  /\ call' = [call EXCEPT ![w][s] = [r EXCEPT !.from = w, !.state = "requested"]]

UpdateCall(w, then, file) ==
  [Idle EXCEPT !.tool = "update_draft", !.then = then, !.file = file,
               !.version = window[w].draft.version, !.text = window[w].screen]

\* Mutant of Type: the approval stays on the screen while the text changes.
TypeOver(w, t) ==
  /\ MayAct(w)
  /\ t # window[w].screen
  /\ window' = [window EXCEPT ![w].screen = t]
  /\ UNCHANGED <<rows, call, host>>

Type(w, t) ==
  /\ MayAct(w)
  /\ t # window[w].screen
  /\ window' = [window EXCEPT ![w] = [Reset(window[w]) EXCEPT !.screen = t]]
  /\ UNCHANGED <<rows, call, host>>

\* save, validate, addFiles and removeAttachment all begin with the saving of the form.
ClickSave(w, s, then) ==
  /\ MayAct(w)
  /\ Calls(w, s, UpdateCall(w, then, None))
  /\ UNCHANGED <<rows, window, host>>

ChooseFile(w, s, f) ==
  /\ MayAct(w)
  /\ f \notin window[w].draft.files
  /\ Calls(w, s, UpdateCall(w, "add", f))
  /\ UNCHANGED <<rows, window, host>>

ClickRemove(w, s, f) ==
  /\ MayAct(w)
  /\ f \in window[w].draft.files
  /\ Calls(w, s, UpdateCall(w, "remove", f))
  /\ UNCHANGED <<rows, window, host>>

ClickPrepare(w, s) ==
  /\ MayAct(w)
  /\ window[w].review = "passed"
  /\ Calls(w, s, [Idle EXCEPT !.tool = "prepare_draft_send"])
  /\ UNCHANGED <<rows, window, host>>

ClickSend(w, s) ==
  /\ MayAct(w)
  /\ window[w].confirming
  /\ ~window[w].sendDisabled
  /\ Calls(w, s, [Idle EXCEPT !.tool = "send_draft", !.shown = Shown(w),
                              !.id = window[w].confirmation.id,
                              !.version = window[w].confirmation.version])
  /\ window' = [window EXCEPT ![w].sendDisabled = TRUE]
  /\ UNCHANGED <<rows, host>>

Cancelled(v)     == [v EXCEPT !.confirmation = NoApproval, !.confirming = FALSE]

ClickCancel(w) ==
  /\ MayAct(w)
  /\ window[w].confirming
  /\ window' = [window EXCEPT ![w] = Cancelled(window[w])]
  /\ UNCHANGED <<rows, call, host>>

\* The tool result of open_mail_composer is posted to the window: rendered, and no
\* approval is reset.
ToolResult(w) ==
  /\ notice[w] # None
  /\ window' = [window EXCEPT ![w] = Render(window[w], notice[w])]
  /\ notice' = [notice EXCEPT ![w] = None]
  /\ UNCHANGED <<rows, call, late, lost, patient>>

----------------------------------------------------------------------------
\* What the widget does with an answer

Answered(w, s, tool) == call[w][s].state = "answered" /\ call[w][s].ok /\ call[w][s].tool = tool

Done(w, s) == call' = [call EXCEPT ![w][s] = Idle]

\* Mutant of Enabled: only a success enables the button again.
EnabledOnSuccess(v, r) == IF r.tool = "send_draft" /\ r.ok
                          THEN [v EXCEPT !.sendDisabled = FALSE] ELSE v

\* The finally block of send.
Enabled(v, r) == IF r.tool = "send_draft" THEN [v EXCEPT !.sendDisabled = FALSE] ELSE v

\* Mutant of Failed: the draft of the answer is adopted although the tool failed.
FailedAdopts(w, s) ==
  /\ call[w][s].state = "answered"
  /\ ~call[w][s].ok
  /\ window' = [window EXCEPT ![w] = [Enabled(@, call[w][s]) EXCEPT !.draft = call[w][s].draft]]
  /\ Done(w, s)
  /\ UNCHANGED <<rows, host>>

\* callTool throws: the error is shown, and the form and the approval stay.
Failed(w, s) ==
  /\ call[w][s].state = "answered"
  /\ ~call[w][s].ok
  /\ window' = [window EXCEPT ![w] = Enabled(window[w], call[w][s])]
  /\ Done(w, s)
  /\ UNCHANGED <<rows, host>>

\* save returns, and validate, addFiles or removeAttachment goes on.
Saved(w, s) ==
  LET r == call[w][s] IN
  /\ Answered(w, s, "update_draft")
  /\ window' = [window EXCEPT ![w] = Render(Reset(window[w]), r.draft)]
  /\ call' = [call EXCEPT ![w][s] =
       CASE r.then = "none"     -> Idle
         [] r.then = "validate" -> [Idle EXCEPT !.state = "requested", !.from = w,
                                                !.tool = "validate_draft"]
         [] r.then = "add"      -> [Idle EXCEPT !.state = "reading", !.file = r.file]
         [] r.then = "remove"   -> [Idle EXCEPT !.state = "requested", !.from = w,
                                                !.tool = "remove_draft_attachment",
                                                !.file = r.file, !.version = r.draft.version]]
  /\ UNCHANGED <<rows, host>>

\* The file was read, and the version is the one the window knows by now; or it cannot be read.
FileRead(w, s) ==
  /\ call[w][s].state = "reading"
  /\ \/ call' = [call EXCEPT ![w][s] =
            [Idle EXCEPT !.state = "requested", !.from = w, !.tool = "add_draft_attachment",
                         !.file = call[w][s].file, !.version = window[w].draft.version]]
     \/ Done(w, s)
  /\ UNCHANGED <<rows, window, host>>

Validated(w, s) ==
  /\ Answered(w, s, "validate_draft")
  /\ window' = [window EXCEPT ![w].review = call[w][s].verdict]
  /\ Done(w, s)
  /\ UNCHANGED <<rows, host>>

\* After the last file the approval is reset; before it, the next file is read.
Attached(w, s) ==
  LET r == call[w][s]   v == Render(window[w], r.draft) IN
  /\ Answered(w, s, "add_draft_attachment")
  /\ \/ window' = [window EXCEPT ![w] = Reset(v)] /\ Done(w, s)
     \/ \E f \in Files \ r.draft.files :
          /\ window' = [window EXCEPT ![w] = v]
          /\ call' = [call EXCEPT ![w][s] = [Idle EXCEPT !.state = "reading", !.file = f]]
  /\ UNCHANGED <<rows, host>>

Detached(w, s) ==
  /\ Answered(w, s, "remove_draft_attachment")
  /\ window' = [window EXCEPT ![w] = Render(Reset(window[w]), call[w][s].draft)]
  /\ Done(w, s)
  /\ UNCHANGED <<rows, host>>

\* The panel appears whatever the form says by now.
Prepared(w, s) ==
  /\ Answered(w, s, "prepare_draft_send")
  /\ window' = [window EXCEPT ![w].confirmation = call[w][s].held, ![w].confirming = TRUE]
  /\ Done(w, s)
  /\ UNCHANGED <<rows, host>>

Sent(w, s) ==
  LET r == call[w][s] IN
  /\ Answered(w, s, "send_draft")
  /\ window' = [window EXCEPT
       ![w] = [Enabled(Render(window[w], r.draft), r) EXCEPT !.confirming = FALSE]]
  /\ Done(w, s)
  /\ UNCHANGED <<rows, host>>

----------------------------------------------------------------------------
User(w) ==
  \/ \E t \in Texts : Type(w, t)
  \/ ClickCancel(w)
  \/ \E s \in Slots :
       \/ \E then \in {"none", "validate"} : ClickSave(w, s, then)
       \/ \E f \in Files : ChooseFile(w, s, f) \/ ClickRemove(w, s, f)
       \/ ClickPrepare(w, s)
       \/ ClickSend(w, s)

Widget(w) ==
  \/ Open(w)
  \/ ToolResult(w)
  \/ \E s \in Slots : \/ Failed(w, s) \/ Saved(w, s) \/ FileRead(w, s) \/ Validated(w, s)
                      \/ Attached(w, s) \/ Detached(w, s) \/ Prepared(w, s) \/ Sent(w, s)

Bridge ==
  \/ \E w \in Windows, s \in Slots : Serve(w, s) \/ HostGivesUp(w, s)
  \/ \E r \in late : ServeLate(r)
  \/ \E outcome \in {"accepted", "rejected", "unknown"} : Delivered(outcome)

Next == Bridge \/ \E w \in Windows : User(w) \/ Widget(w)

Spec == Init /\ [][Next]_vars
----------------------------------------------------------------------------
\* Properties

Call == [state : {"idle", "requested", "delivering", "answered", "reading"},
         from : Windows \cup {None},
         tool : Tools \cup {None}, then : {"none", "validate", "add", "remove", None},
         version : Nat, text : Texts \cup {None}, file : Files \cup {None}, id : Nat,
         shown : Content \cup {None}, ok : BOOLEAN, draft : View \cup {None},
         held : [id : Nat, version : Nat], verdict : {"passed", "blocked", None}]

\* Rows, windows and calls have the shape the server and the widget give them.
TypeOK ==
  /\ server \in [status : {"draft", "sent"}, version : 1..(MaxVersion[patient] + 1),
                 text : Texts, files : SUBSET Files]
  /\ confirmation \in [id : 0..MaxConfirmations[patient], version : 0..MaxVersion[patient]]
  /\ delivery.state \in {"none", "submitting", "accepted", "rejected", "unknown"}
  /\ issued \in 0..MaxConfirmations[patient] /\ lost \in 0..MaxLost[patient]
  /\ \A w \in Windows :
       /\ window[w].draft \in View /\ window[w].screen \in Texts
       /\ window[w].review \in {"hidden", "passed", "blocked"}
       /\ \A s \in Slots : call[w][s] \in Call
  /\ \A r \in late : r \in Call

\* Whatever answers, notices and clicks came before, a window that asks for the final click
\* holds the confirmation the click would use, and its send button is disabled exactly while
\* a send of the window is awaited: it is neither clicked twice nor dead after a failure.
FinalClickFollowsTheCalls ==
  \A w \in Windows :
    /\ window[w].confirming => window[w].confirmation # NoApproval
    /\ Cardinality({s \in Slots : call[w][s].tool = "send_draft"}) =
         IF window[w].sendDisabled THEN 1 ELSE 0

\* The draft is only edited from a version that the editing window has shown, even by a
\* call the server handles long after the host gave it up: no edit of another window is
\* overwritten unseen.
NoBlindOverwrite ==
  [][server'.version # server.version /\ server'.status = "draft" =>
       server.version \in window[editor'].known]_vars

\* "Review every field above": what a click submits is what the window that was clicked
\* showed, when its user waits for every answer and nobody else edits the draft.
ScreenIsWhatIsSent ==
  patient /\ delivery.state # "none" => delivery.content = delivery.shown
===============================================================================
