----------------------------- MODULE ReviewConsole -----------------------------
(***************************************************************************)
(* The browser's side of the review, composed with the server of module    *)
(* DraftReview: the panel of one article (DraftReviewPanel.tsx) in several *)
(* tabs, React Query's copy of the article and its mutations (useKb.ts),   *)
(* and the workspace that opens and closes the panel (Workspace.tsx).      *)
(*                                                                         *)
(* A tab decides what it offers on a cached copy; the server decides on    *)
(* the row, in the steps DraftReview gives its handlers.  "Approve & Push" *)
(* is a chain of two requests that goes on after its panel is closed, but  *)
(* not after its tab is.                                                   *)
(*                                                                         *)
(* Abstractions:                                                           *)
(*   - a request is read by the server as it is sent: until then nothing   *)
(*     of it can be observed; its answer may arrive at any later time;     *)
(*   - a copy may arrive at any time: staleTime may be over, the window    *)
(*     get the focus, a fetch outlive its panel; an invalidation only      *)
(*     makes the next copy come sooner;                                    *)
(*   - title, summary and steps are one text; lists, coverage and toasts   *)
(*     are left out.                                                       *)
(***************************************************************************)
EXTENDS DraftReview

CONSTANTS
    Tabs,       \* browser tabs, of one reviewer or of several
    Draft,      \* the article under review
    MaxClicks   \* bound: clicks on Save, Reject and Approve & Push

ASSUME ConsoleAssumption == Draft \in Drafts /\ MaxClicks \in Nat

VARIABLES
    tabs,     \* what each tab holds
    calls,    \* the mutation each request was sent for, and what came of it
    clicks,
    overlap   \* history: a mutation was sent while another was in hand

consoleVars == <<tabs, calls, clicks, overlap>>
allVars == <<vars, consoleVars>>

Copy == [status : Status, ver : Versions]
TheCopy == [status |-> article[Draft].status, ver |-> article[Draft].text.ver]

Tab == [open  : BOOLEAN,            \* the panel is mounted
        cache : Copy \cup {NIL},    \* the query ['kb', 'draft', id]
        form  : Versions,           \* the text in the editor
        dirty : BOOLEAN]
NewTab == [open |-> FALSE, cache |-> NIL, form |-> First, dirty |-> FALSE]

\* mounted: the panel that sent it is still on the screen; observed: its hook
\* has sent nothing since, so that isPending shows this mutation.
Call == [op : Op, tab : Tabs \cup {NIL}, at : {"none", "running", "ok", "error"},
         mounted : BOOLEAN, observed : BOOLEAN]
NoCall == [op |-> "none", tab |-> NIL, at |-> "none",
           mounted |-> FALSE, observed |-> FALSE]

ConsoleTypeOK ==
    /\ TypeOK
    /\ tabs \in [Tabs -> Tab]
    /\ calls \in [Sessions -> Call]
    /\ \A p \in Sessions : (sess[p].pc = "idle") = (calls[p].at # "running")
    /\ clicks \in 0 .. MaxClicks
    /\ overlap \in BOOLEAN

PutTab(b, t) == tabs' = [tabs EXCEPT ![b] = t]
Loaded(b) == tabs[b].open /\ tabs[b].cache # NIL
canEdit(b) == Loaded(b) /\ tabs[b].cache.status \notin {"PUSHED", "REJECTED"}
isPending(b, op) ==
    \E p \in Sessions : calls[p].op = op /\ calls[p].tab = b /\ calls[p].observed

\* calls when the panel of tab b unmounts.
Unmounted(b) ==
    [p \in Sessions |->
        IF calls[p].tab = b THEN [calls[p] EXCEPT !.mounted = FALSE, !.observed = FALSE]
                            ELSE calls[p]]

-----------------------------------------------------------------------------
(* The panel and its query *)

\* Mutant: the form is filled whenever a copy arrives.
Filled_EveryCopy(t, was) ==
    IF t.open /\ t.cache # NIL
    THEN [t EXCEPT !.form = t.cache.ver, !.dirty = FALSE]
    ELSE t

\* The effect of the panel: the form is filled when the article's id comes
\* up, which later copies of the article do not change.
Filled(t, was) ==
    IF t.open /\ was = NIL /\ t.cache # NIL
    THEN [t EXCEPT !.form = t.cache.ver, !.dirty = FALSE]
    ELSE t

OpenPanel(b) ==
    /\ ~tabs[b].open
    /\ PutTab(b, Filled([tabs[b] EXCEPT !.open = TRUE], NIL))
    /\ UNCHANGED <<vars, calls, clicks, overlap>>

ClosePanel(b) ==
    /\ tabs[b].open
    /\ PutTab(b, [tabs[b] EXCEPT !.open = FALSE])
    /\ calls' = Unmounted(b)
    /\ UNCHANGED <<vars, clicks, overlap>>

CopyArrives(b) ==
    LET t == tabs[b] IN
    /\ t.open \/ t.cache # NIL
    /\ t.cache # TheCopy
    /\ PutTab(b, Filled([t EXCEPT !.cache = TheCopy], t.cache))
    /\ UNCHANGED <<vars, calls, clicks, overlap>>

Type(b, v) ==
    /\ canEdit(b)
    /\ v # tabs[b].form
    /\ PutTab(b, [tabs[b] EXCEPT !.form = v, !.dirty = TRUE])
    /\ UNCHANGED <<vars, calls, clicks, overlap>>

\* The tab is closed or loaded anew: its requests run on, but nobody waits
\* for their answers.
LeaveTab(b) ==
    /\ Fault
    /\ PutTab(b, NewTab)
    /\ calls' = [p \in Sessions |->
          IF calls[p].tab = b THEN [Unmounted(b)[p] EXCEPT !.tab = NIL] ELSE calls[p]]
    /\ UNCHANGED <<article, chunks, log, pt, items, links, sess, clicks, overlap>>

-----------------------------------------------------------------------------
(* The mutations *)

\* Send op in slot p for tab b, from the panel on the screen, whose hook then
\* shows this call and no earlier one, or from one that is gone.
Send(p, b, op, at, mounted) ==
    /\ calls' = [q \in Sessions |->
          IF q = p THEN [op |-> op, tab |-> b, at |-> at,
                         mounted |-> mounted, observed |-> mounted]
          ELSE IF mounted /\ calls[q].tab = b /\ calls[q].op = op
          THEN [calls[q] EXCEPT !.observed = FALSE]
          ELSE calls[q]]
    /\ overlap' = (overlap \/ Active # {})

\* The statuses in which a handler takes a request; in the others it answers
\* with an error.
Accepted == [edit    |-> {"DRAFT", "EDITED", "APPROVED"},
             approve |-> {"DRAFT", "EDITED"},
             reject  |-> {"DRAFT", "EDITED", "APPROVED", "REJECTED"},
             push    |-> Pushable]
Refused(op) == article[Draft].status \notin Accepted[op] /\ UNCHANGED vars

Accept(p, b, op) ==
    \/ op = "edit" /\ UpdateDraft(p, Draft, tabs[b].form)
    \/ op = "approve" /\ ApproveDraft(p, Draft)
    \/ op = "reject" /\ RejectDraft(p, Draft)
    \/ op = "push" /\ PushDraft(p, Draft)

\* The reviewer clicks a button, which sends op.
Click(p, b, op) ==
    /\ canEdit(b)
    /\ calls[p].at = "none"
    /\ clicks < MaxClicks
    /\ clicks' = clicks + 1
    /\ UNCHANGED tabs
    /\ \/ Accept(p, b, op) /\ Send(p, b, op, "running", TRUE)
       \/ Refused(op) /\ Send(p, b, op, "error", TRUE)

SaveEdits(p, b) == tabs[b].dirty /\ ~isPending(b, "edit") /\ Click(p, b, "edit")
Reject(p, b) == ~isPending(b, "reject") /\ Click(p, b, "reject")
\* The button is disabled while the push is pending, not while the approval is.
ApproveAndPush(p, b) == ~isPending(b, "push") /\ Click(p, b, "approve")

Done(p) ==
    /\ calls' = [calls EXCEPT ![p] = NoCall]
    /\ UNCHANGED <<vars, clicks, overlap>>

Failed(p) ==
    /\ calls[p].at = "error"
    /\ Done(p)
    /\ UNCHANGED tabs

\* Nobody waits for the answer any more.
Dropped(p) ==
    /\ calls[p].at = "ok" /\ calls[p].tab = NIL
    /\ Done(p)
    /\ UNCHANGED tabs

\* setDirty(false) follows the answer, whatever was typed meanwhile.
Saved(p) ==
    LET b == calls[p].tab IN
    /\ calls[p].at = "ok" /\ calls[p].op = "edit" /\ b # NIL
    /\ PutTab(b, [tabs[b] EXCEPT !.dirty = @ /\ ~calls[p].mounted])
    /\ Done(p)

\* The workspace closes the panel, be it of this mount or of a later one.
Finished(p) ==
    LET b == calls[p].tab IN
    /\ calls[p].at = "ok" /\ calls[p].op \in {"reject", "push"} /\ b # NIL
    /\ PutTab(b, [tabs[b] EXCEPT !.open = FALSE])
    /\ calls' = [Unmounted(b) EXCEPT ![p] = NoCall]
    /\ UNCHANGED <<vars, clicks, overlap>>

\* Mutant: the push is a callback of the mounted panel.
Approved_IfMounted(p) ==
    LET b == calls[p].tab IN
    /\ calls[p].at = "ok" /\ calls[p].op = "approve" /\ b # NIL
    /\ IF calls[p].mounted
       THEN /\ \/ Accept(p, b, "push") /\ Send(p, b, "push", "running", TRUE)
               \/ Refused("push") /\ Send(p, b, "push", "error", TRUE)
            /\ UNCHANGED <<tabs, clicks>>
       ELSE Done(p) /\ UNCHANGED tabs

\* Once approved, the same chain pushes, mounted or not.
Approved(p) ==
    LET b == calls[p].tab IN
    /\ calls[p].at = "ok" /\ calls[p].op = "approve" /\ b # NIL
    /\ \/ Accept(p, b, "push") /\ Send(p, b, "push", "running", calls[p].mounted)
       \/ Refused("push") /\ Send(p, b, "push", "error", calls[p].mounted)
    /\ UNCHANGED <<tabs, clicks>>

-----------------------------------------------------------------------------
(* The server *)

\* Mutant: a handler answers before its work is done.
Ends_Early(p, ok) ==
    calls' = [calls EXCEPT ![p].at = IF ok THEN "ok" ELSE "error"]

\* A handler that has come to its end answers.
Ends(p, ok) ==
    calls' = [calls EXCEPT ![p].at =
        IF sess'[p].pc # "idle" THEN @ ELSE IF ok THEN "ok" ELSE "error"]

Handle(p) ==
    /\ \/ (CommitReview(p) \/ LinkTickets(p)) /\ Ends(p, TRUE)
       \/ /\ \/ \E k \in KbIds : CreateKbDraft(p, k)
             \/ CreateKbDraftFails(p) \/ CommitPush(p)
             \/ Refresh(p) \/ IndexArticle(p) \/ IndexFails(p)
          /\ Ends(p, FALSE)
    /\ UNCHANGED <<tabs, clicks, overlap>>

\* The answer of a handler that succeeded is lost on its way.
AnswerLost(p) ==
    /\ calls[p].at = "ok"
    /\ Fault
    /\ calls' = [calls EXCEPT ![p].at = "error"]
    /\ UNCHANGED <<article, chunks, log, pt, items, links, sess,
                   tabs, clicks, overlap>>

ServerCrash ==
    /\ Crash
    /\ calls' = [p \in Sessions |->
          IF calls[p].at = "running" THEN [calls[p] EXCEPT !.at = "error"] ELSE calls[p]]
    /\ UNCHANGED <<tabs, clicks, overlap>>

-----------------------------------------------------------------------------
(* Specification *)

ConsoleInit ==
    /\ Init
    /\ tabs = [b \in Tabs |-> NewTab]
    /\ calls = [p \in Sessions |-> NoCall]
    /\ clicks = 0
    /\ overlap = FALSE

Panel(b) ==
    \/ OpenPanel(b) \/ ClosePanel(b) \/ LeaveTab(b)
    \/ CopyArrives(b)
    \/ \E v \in Versions : Type(b, v)
Button(b) ==
    \E p \in Sessions : SaveEdits(p, b) \/ Reject(p, b) \/ ApproveAndPush(p, b)
Answer(p) ==
    Failed(p) \/ Dropped(p) \/ Saved(p) \/ Approved(p) \/ Finished(p)

ConsoleNext ==
    \/ \E b \in Tabs : Panel(b) \/ Button(b)
    \/ \E p \in Sessions : Handle(p) \/ Answer(p) \/ AnswerLost(p)
    \/ ServerCrash

ConsoleSpec == ConsoleInit /\ [][ConsoleNext]_allVars

\* Handlers run on, and what they answer arrives.
ConsoleFairness == \A p \in Sessions : WF_allVars(Handle(p) \/ Answer(p))
FairConsoleSpec == ConsoleSpec /\ ConsoleFairness

-----------------------------------------------------------------------------
(* Properties *)

Made == {k \in KbIds : items[k].by # NIL}

\* However many tabs show however old a copy, and however the reviewers click
\* and retry: while no two mutations are in hand at once, the article is
\* published once, and once more per failure at most.
SequentialClicksPublishOnce == overlap \/ Cardinality(Made) <= 1 + faults

\* "A published article can't be re-pushed from here": without any failure,
\* one item.
OneItem == faults = 0 => Cardinality(Made) <= 1

\* Every approval is followed by a publication or a rejection, although panels
\* are closed and other requests run meanwhile, unless a call failed, an answer
\* was lost, a tab was closed or the server died.  If the mutations took turns
\* the article then stays as it is; an edit or an approval that was read before
\* the publication and is committed after it may put the status back.
Settled == article[Draft].status \in {"PUSHED", "REJECTED"}
ApprovalPublishes ==
    (\E p \in Sessions : calls[p].op = "approve" /\ calls[p].at = "ok")
        ~> (faults > 0 \/ (Settled /\ (overlap \/ []Settled)))

\* What a reviewer has typed and not saved is not replaced by a copy that
\* arrives: while a panel is open, only typing changes its text.
UnsavedEditsSurvive ==
    [][\A b \in Tabs :
          Loaded(b) /\ tabs'[b].open /\ tabs'[b].form # tabs[b].form
             => tabs'[b].dirty]_allVars
=============================================================================
