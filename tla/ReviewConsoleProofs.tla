------------------------- MODULE ReviewConsoleProofs -------------------------
(* Proofs about ReviewConsole, for any tabs, requests, clicks and failures.  *)
(* The server's part of every step is a step of DraftReview, whose inductive *)
(* invariant therefore holds behind the console too; what is proved here is  *)
(* what the browser adds.                                                    *)
EXTENDS ReviewConsole, DraftReviewProofs

-----------------------------------------------------------------------------
(* The inductive invariant *)

\* A request of the console is a review or a push of the one draft.
HandlerOK(s) ==
    s.pc # "idle" => /\ s.art = Draft
                     /\ s.pc = "commit" \/ s.op = "push"
                     /\ s.pc \notin {"list", "upsert"}

\* The row a request has read is still the row it will write to.
Recent(s) ==
    s.pc \in {"commit", "create", "publish"} =>
        s.seen = article[Draft] /\ s.seen.status # "PUSHED"

\* The one item the article may have beside those that failures cost.
Paying == article[Draft].status = "PUSHED" \/ \E p \in Sessions : sess[p].pc = "publish"

\* While the mutations take turns.
TurnOK ==
    /\ \A p, q \in Active : p = q
    /\ \A p \in Sessions :
          /\ Recent(sess[p])
          /\ sess[p].pc = "publish" => KbFree(Draft, sess[p].want.kb)
    /\ IsFiniteSet(Made)
    /\ Cardinality(Made) <= faults + (IF Paying THEN 1 ELSE 0)

ConsoleInv ==
    /\ IInv
    /\ ConsoleTypeOK
    /\ \A p \in Sessions : HandlerOK(sess[p])
    /\ overlap \/ TurnOK

-----------------------------------------------------------------------------
(* What the steps of the console do to the server *)

\* All of the server's state but the count of the failures.
server == <<article, chunks, log, pt, items, links, sess>>

LEMMA DraftFacts == Draft \in Drafts /\ Draft \in ArticleIds
BY ConsoleAssumption, DraftAssumption

\* A request that is taken has read the row, and waits for its first call.
LEMMA AcceptEffect ==
    ASSUME TypeOK, NEW p \in Sessions, NEW b, NEW op, Accept(p, b, op)
    PROVE  /\ sess[p].pc = "idle" /\ sess'[p].pc \in {"commit", "create"}
           /\ sess'[p].art = Draft /\ sess'[p].seen = article[Draft]
           /\ sess'[p].seen.status # "PUSHED"
           /\ sess'[p].pc = "create" => sess'[p].op = "push"
           /\ \A q \in Sessions \ {p} : sess'[q] = sess[q]
           /\ UNCHANGED <<article, chunks, log, pt, items, links, faults>>
<1>1. ASSUME NEW s, Put(p, s) PROVE sess'[p] = s /\ \A q \in Sessions \ {p} : sess'[q] = sess[q]
  BY <1>1, PutFrame
<1>2. ASSUME NEW o, NEW w, Request(p, o, Draft, w), article[Draft].status # "PUSHED"
      PROVE  /\ sess[p].pc = "idle" /\ sess'[p].pc = "commit"
             /\ sess'[p].art = Draft /\ sess'[p].seen = article[Draft]
             /\ \A q \in Sessions \ {p} : sess'[q] = sess[q]
             /\ UNCHANGED <<article, chunks, log, pt, items, links, faults>>
  <2> DEFINE s == [Idle EXCEPT !.pc = "commit", !.op = o, !.art = Draft,
                               !.seen = article[Draft], !.want = w]
  <2>1. s.pc = "commit" /\ s.art = Draft /\ s.seen = article[Draft]
    BY DEF Idle
  <2>2. Put(p, s)
    BY <1>2 DEF Request
  <2> HIDE DEF s
  <2> QED BY <1>1, <1>2, <2>1, <2>2 DEF Request, MayStart
<1>3. CASE PushDraft(p, Draft)
  <2> DEFINE s == [Idle EXCEPT !.pc = "create", !.op = "push", !.art = Draft,
                               !.seen = article[Draft], !.want = article[Draft]]
  <2>1. s.pc = "create" /\ s.op = "push" /\ s.art = Draft /\ s.seen = article[Draft]
    BY DEF Idle
  <2>2. Put(p, s) /\ article[Draft].status # "PUSHED"
    BY <1>3 DEF PushDraft, Pushable
  <2> HIDE DEF s
  <2> QED BY <1>1, <1>3, <2>1, <2>2 DEF PushDraft, MayStart
<1>4. CASE UpdateDraft(p, Draft, tabs[b].form)
  BY <1>2, <1>4 DEF UpdateDraft
<1>5. CASE ApproveDraft(p, Draft)
  BY <1>2, <1>5 DEF ApproveDraft
<1>6. CASE RejectDraft(p, Draft)
  BY <1>2, <1>6 DEF RejectDraft
<1> QED
  BY <1>3, <1>4, <1>5, <1>6 DEF Accept

\* A handler at work moves on alone, and answers when it comes to its end.
LEMMA HandleEffect ==
    ASSUME TypeOK, NEW p \in Sessions, Handle(p)
    PROVE  /\ sess[p].pc # "idle"
           /\ \A q \in Sessions \ {p} : sess'[q] = sess[q]
           /\ \E r \in {"ok", "error"} :
                 calls' = [calls EXCEPT ![p].at = IF sess'[p].pc # "idle" THEN @ ELSE r]
           /\ UNCHANGED <<tabs, clicks, overlap>>
<1>1. ASSUME NEW s, Put(p, s) PROVE \A q \in Sessions \ {p} : sess'[q] = sess[q]
  BY <1>1, PutFrame
<1>2. /\ sess[p].pc # "idle" /\ \E s : Put(p, s)
  BY DEF Handle, CommitReview, LinkTickets, CreateKbDraft, CreateKbDraftFails,
         CommitPush, Refresh, IndexArticle, IndexFails
<1>3. \E r \in {"ok", "error"} :
         calls' = [calls EXCEPT ![p].at = IF sess'[p].pc # "idle" THEN @ ELSE r]
  BY DEF Handle, Ends
<1> QED
  BY <1>1, <1>2, <1>3 DEF Handle

\* Every step of the console is a step of the server, or one that the server
\* does not take part in, which a failure may have caused.
LEMMA ServerSteps ==
    ASSUME ConsoleTypeOK, [ConsoleNext]_allVars
    PROVE  [Next]_vars \/ (Fault /\ UNCHANGED server)
<1>1. ASSUME NEW p \in Sessions, NEW b \in Tabs, NEW op, Accept(p, b, op) PROVE Next
  <2>1. tabs[b].form \in Versions
    BY DEF ConsoleTypeOK, Tab
  <2>2. Review(p) \/ Push(p)
    BY <1>1, <2>1, DraftFacts DEF Accept, Review, Push
  <2> QED BY <2>2 DEF Next
<1>2. ASSUME NEW p \in Sessions, NEW b \in Tabs, NEW op, Click(p, b, op) PROVE [Next]_vars
  BY <1>1, <1>2 DEF Click, Refused
<1>3. ASSUME NEW b \in Tabs, Panel(b)
      PROVE  UNCHANGED vars \/ (Fault /\ UNCHANGED server)
  BY <1>3 DEF Panel, OpenPanel, ClosePanel, CopyArrives, Type, LeaveTab, server
<1>4. ASSUME NEW b \in Tabs, Button(b) PROVE [Next]_vars
  BY <1>2, <1>4 DEF Button, SaveEdits, Reject, ApproveAndPush
<1>5. ASSUME NEW p \in Sessions, Answer(p) PROVE [Next]_vars
  <2>1. calls[p].tab = NIL \/ calls[p].tab \in Tabs
    BY DEF ConsoleTypeOK, Call
  <2> QED BY <1>1, <1>5, <2>1
          DEF Answer, Failed, Dropped, Saved, Approved, Finished, Done, Refused
<1>6. ASSUME NEW p \in Sessions, Handle(p) PROVE Next
  <2>1. \/ Review(p) \/ Push(p) \/ Refresh(p) \/ IndexArticle(p) \/ IndexFails(p)
    BY <1>6 DEF Handle, Review, Push
  <2> QED BY <2>1 DEF Next
<1>7. ASSUME NEW p \in Sessions, AnswerLost(p) PROVE Fault /\ UNCHANGED server
  BY <1>7 DEF AnswerLost, server
<1>8. ServerCrash => Next
  BY DEF ServerCrash, Next, Environment
<1>9. UNCHANGED allVars => UNCHANGED vars
  BY DEF allVars
<1> QED
  BY <1>3, <1>4, <1>5, <1>6, <1>7, <1>8, <1>9 DEF ConsoleNext

\* So the invariant of the server holds behind the console.
LEMMA ServerKept ==
    ASSUME IInv, ConsoleTypeOK, [ConsoleNext]_allVars
    PROVE  IInv'
<1>1. CASE Fault /\ UNCHANGED server
  <2>1. UNCHANGED <<article, chunks, log, pt, items, links, sess>>
    BY <1>1 DEF server
  <2>2. Grow
    BY <2>1 DEF Grow
  <2>3. TypeOK'
    BY <1>1, <2>1 DEF IInv, TypeOK, Fault
  <2>4. ASSUME NEW q \in Sessions PROVE SessOK(sess[q])'
    BY <2>1, <2>2, SessKept
  <2>5. TablesOK'
    BY <2>1, <2>2, TablesKept
  <2> QED BY <2>3, <2>4, <2>5 DEF IInv
<1> QED
  BY <1>1, ServerSteps, InvStep

-----------------------------------------------------------------------------
(* The types *)

\* The tabs, the calls and the sessions beside them are typed.
TabsOK == tabs \in [Tabs -> Tab]
CallsOK ==
    /\ calls \in [Sessions -> Call]
    /\ \A p \in Sessions : sess[p].pc = "idle" <=> calls[p].at # "running"

LEMMA ConsoleTypes ==
    ConsoleTypeOK <=> /\ TypeOK /\ TabsOK /\ CallsOK
                      /\ clicks \in 0 .. MaxClicks /\ overlap \in BOOLEAN
BY DEF ConsoleTypeOK, TabsOK, CallsOK

\* A tab that is filled, or closed, is still a tab.
LEMMA TabTypes ==
    /\ NewTab \in Tab
    /\ NoCall \in Call /\ NoCall.at = "none"
    /\ TypeOK => TheCopy \in Copy
    /\ \A t \in Tab : \A was : Filled(t, was) \in Tab
    /\ \A t \in Tab : \A x \in BOOLEAN : [t EXCEPT !.open = x] \in Tab
    /\ \A t \in Tab : \A x \in BOOLEAN : [t EXCEPT !.dirty = x] \in Tab
    /\ \A t \in Tab : \A x \in Copy : [t EXCEPT !.cache = x] \in Tab
    /\ \A t \in Tab : \A v \in Versions : [t EXCEPT !.form = v, !.dirty = TRUE] \in Tab
<1>1. NewTab \in Tab /\ NoCall \in Call /\ NoCall.at = "none"
  BY DraftAssumption DEF NewTab, NoCall, Tab, Call, Op
<1>2. TypeOK => TheCopy \in Copy
  BY DraftFacts DEF TypeOK, TheCopy, Copy, Article, Text
<1>3. ASSUME NEW t \in Tab, NEW was PROVE Filled(t, was) \in Tab
  <2>1. CASE t.open /\ was = NIL /\ t.cache # NIL
    <3>1. t.cache.ver \in Versions
      BY <2>1 DEF Tab, Copy
    <3> QED BY <2>1, <3>1 DEF Filled, Tab
  <2> QED BY <2>1 DEF Filled
<1>4. ASSUME NEW t \in Tab, NEW x \in BOOLEAN
      PROVE  [t EXCEPT !.open = x] \in Tab /\ [t EXCEPT !.dirty = x] \in Tab
  BY DEF Tab
<1>5. ASSUME NEW t \in Tab, NEW x \in Copy PROVE [t EXCEPT !.cache = x] \in Tab
  BY DEF Tab
<1>6. ASSUME NEW t \in Tab, NEW v \in Versions
      PROVE  [t EXCEPT !.form = v, !.dirty = TRUE] \in Tab
  BY DEF Tab
<1> QED
  BY <1>1, <1>2, <1>3, <1>4, <1>5, <1>6

\* A tab is replaced by a tab.
LEMMA PutTabType ==
    ASSUME TabsOK, NEW b \in Tabs, NEW t \in Tab, PutTab(b, t)
    PROVE  TabsOK' /\ tabs'[b] = t /\ \A c \in Tabs \ {b} : tabs'[c] = tabs[c]
BY DEF TabsOK, PutTab

\* Sending puts one call in hand, and takes the panel's eyes off the one before.
LEMMA SendEffect ==
    ASSUME ConsoleTypeOK, NEW p \in Sessions, NEW b \in Tabs, NEW op \in Op,
           NEW at \in {"running", "error"}, NEW m \in BOOLEAN, Send(p, b, op, at, m)
    PROVE  /\ calls' \in [Sessions -> Call]
           /\ calls'[p].at = at /\ \A q \in Sessions \ {p} : calls'[q].at = calls[q].at
           /\ overlap' \in BOOLEAN
<1>1. calls \in [Sessions -> Call]
  BY DEF ConsoleTypeOK
<1> DEFINE c == [op |-> op, tab |-> b, at |-> at, mounted |-> m, observed |-> m]
<1>2. c \in Call /\ c.at = at
  BY <1>1 DEF Call
<1> HIDE DEF c
<1>3. \A q \in Sessions : /\ [calls[q] EXCEPT !.observed = FALSE] \in Call
                          /\ [calls[q] EXCEPT !.observed = FALSE].at = calls[q].at
  BY <1>1 DEF Call
<1>4. calls' = [q \in Sessions |->
          IF q = p THEN c
          ELSE IF m /\ calls[q].tab = b /\ calls[q].op = op
          THEN [calls[q] EXCEPT !.observed = FALSE]
          ELSE calls[q]]
  BY DEF Send, c
<1>5. overlap' \in BOOLEAN
  BY DEF Send
<1> QED
  BY <1>1, <1>2, <1>3, <1>4, <1>5

\* An answer that is done with leaves its slot free.
LEMMA DoneEffect ==
    ASSUME ConsoleTypeOK, NEW p \in Sessions, calls[p].at # "running",
           UNCHANGED vars, calls' = [calls EXCEPT ![p] = NoCall]
    PROVE  CallsOK'
<1>1. calls' \in [Sessions -> Call]
  BY TabTypes DEF ConsoleTypeOK
<1>2. UNCHANGED sess
  BY DEF vars
<1>3. \A q \in Sessions : calls'[q].at # "running" <=> calls[q].at # "running"
  BY TabTypes DEF ConsoleTypeOK
<1> QED
  BY <1>1, <1>2, <1>3 DEF ConsoleTypeOK, CallsOK

\* Closing a panel changes who sees the calls, not the calls.
LEMMA UnmountedEffect ==
    ASSUME ConsoleTypeOK, NEW b
    PROVE  /\ Unmounted(b) \in [Sessions -> Call]
           /\ \A q \in Sessions : Unmounted(b)[q].at = calls[q].at
<1>1. \A q \in Sessions :
         /\ calls[q] \in Call
         /\ [calls[q] EXCEPT !.mounted = FALSE, !.observed = FALSE] \in Call
         /\ [calls[q] EXCEPT !.mounted = FALSE, !.observed = FALSE].at = calls[q].at
  BY DEF ConsoleTypeOK, Call
<1> QED
  BY <1>1 DEF Unmounted

LEMMA ConsoleTypeInit == ConsoleInit => ConsoleTypeOK
<1> SUFFICES ASSUME ConsoleInit PROVE ConsoleTypeOK
  OBVIOUS
<1>1. TypeOK
  BY TypeInit DEF ConsoleInit
<1>2. TabsOK /\ CallsOK
  BY TabTypes DEF ConsoleInit, Init, TabsOK, CallsOK, Idle
<1>3. clicks = 0 /\ overlap \in BOOLEAN
  BY DEF ConsoleInit
<1>4. clicks \in 0 .. MaxClicks
  BY <1>3, ConsoleAssumption
<1> QED
  BY <1>1, <1>2, <1>3, <1>4, ConsoleTypes
\* Every step keeps the types: one case per action.
LEMMA ConsoleTypeStep ==
    ASSUME ConsoleTypeOK, IInv, [ConsoleNext]_allVars
    PROVE  ConsoleTypeOK'
<1>0. /\ TypeOK /\ TabsOK /\ CallsOK /\ clicks \in 0 .. MaxClicks /\ overlap \in BOOLEAN
      /\ TypeOK'
      /\ \A b \in Tabs : tabs[b] \in Tab
      /\ \A p \in Sessions : calls[p] \in Call
      /\ \A p \in Sessions : sess[p].pc = "idle" <=> calls[p].at # "running"
  BY ConsoleTypes, ServerKept DEF TabsOK, CallsOK, IInv
<1> SUFFICES TabsOK' /\ CallsOK' /\ clicks' \in 0 .. MaxClicks /\ overlap' \in BOOLEAN
  BY <1>0 DEF ConsoleTypeOK, TabsOK, CallsOK
<1>1. ASSUME UNCHANGED sess, calls' \in [Sessions -> Call],
             \A q \in Sessions : calls'[q].at # "running" <=> calls[q].at # "running"
      PROVE  CallsOK'
  BY <1>0, <1>1 DEF CallsOK
\* A request that is sent, by a click or after an approval.
<1>2. ASSUME NEW p \in Sessions, NEW b \in Tabs, NEW op \in Op, calls[p].at # "running",
             NEW m \in BOOLEAN,
             \/ Accept(p, b, op) /\ Send(p, b, op, "running", m)
             \/ UNCHANGED vars /\ Send(p, b, op, "error", m)
      PROVE  CallsOK' /\ overlap' \in BOOLEAN
  <2>1. CASE Accept(p, b, op) /\ Send(p, b, op, "running", m)
    BY <1>0, <2>1, AcceptEffect, SendEffect DEF CallsOK
  <2>2. CASE UNCHANGED vars /\ Send(p, b, op, "error", m)
    BY <1>0, <1>1, <1>2, <2>2, SendEffect DEF vars
  <2> QED BY <1>2, <2>1, <2>2
<1>3. ASSUME NEW p \in Sessions, NEW b \in Tabs, NEW op \in Op, Click(p, b, op)
      PROVE  TabsOK' /\ CallsOK' /\ clicks' \in 0 .. MaxClicks /\ overlap' \in BOOLEAN
  <2>1. CallsOK' /\ overlap' \in BOOLEAN
    BY <1>2, <1>3 DEF Click, Refused
  <2>2. clicks' \in 0 .. MaxClicks
    BY <1>0, <1>3, ConsoleAssumption DEF Click
  <2> QED BY <1>0, <1>3, <2>1, <2>2 DEF Click, TabsOK
<1>4. ASSUME NEW b \in Tabs, Panel(b)
      PROVE  TabsOK' /\ CallsOK' /\ clicks' \in 0 .. MaxClicks /\ overlap' \in BOOLEAN
  <2>1. UNCHANGED <<sess, clicks, overlap>>
    BY <1>4 DEF Panel, OpenPanel, ClosePanel, LeaveTab, CopyArrives, Type, vars
  <2>2. CASE OpenPanel(b)
    <3>1. Filled([tabs[b] EXCEPT !.open = TRUE], NIL) \in Tab
      BY <1>0, TabTypes
    <3> QED BY <1>0, <1>1, <2>1, <2>2, <3>1, PutTabType DEF OpenPanel, CallsOK
  <2>3. CASE ClosePanel(b)
    <3>1. [tabs[b] EXCEPT !.open = FALSE] \in Tab
      BY <1>0, TabTypes
    <3> QED BY <1>0, <1>1, <2>1, <2>3, <3>1, PutTabType, UnmountedEffect DEF ClosePanel
  <2>4. CASE CopyArrives(b)
    <3>1. Filled([tabs[b] EXCEPT !.cache = TheCopy], tabs[b].cache) \in Tab
      BY <1>0, TabTypes
    <3> QED BY <1>0, <1>1, <2>1, <2>4, <3>1, PutTabType DEF CopyArrives, CallsOK
  <2>5. ASSUME NEW v \in Versions, Type(b, v) PROVE TabsOK' /\ CallsOK'
    <3>1. [tabs[b] EXCEPT !.form = v, !.dirty = TRUE] \in Tab
      BY <1>0, TabTypes
    <3> QED BY <1>0, <1>1, <2>1, <2>5, <3>1, PutTabType DEF Type, CallsOK
  <2>6. CASE LeaveTab(b)
    <3>1. /\ Unmounted(b) \in [Sessions -> Call]
          /\ \A q \in Sessions : Unmounted(b)[q].at = calls[q].at
      BY <1>0, UnmountedEffect
    <3>2. \A q \in Sessions : /\ [Unmounted(b)[q] EXCEPT !.tab = NIL] \in Call
                              /\ [Unmounted(b)[q] EXCEPT !.tab = NIL].at = calls[q].at
      BY <3>1 DEF Call
    <3>3. calls' \in [Sessions -> Call] /\ \A q \in Sessions : calls'[q].at = calls[q].at
      BY <1>0, <2>6, <3>2 DEF LeaveTab
    <3> QED BY <1>0, <1>1, <2>1, <2>6, <3>3, TabTypes, PutTabType DEF LeaveTab
  <2> QED BY <1>0, <1>4, <2>1, <2>2, <2>3, <2>4, <2>5, <2>6 DEF Panel
<1>5. ASSUME NEW b \in Tabs, Button(b)
      PROVE  TabsOK' /\ CallsOK' /\ clicks' \in 0 .. MaxClicks /\ overlap' \in BOOLEAN
  BY <1>3, <1>5 DEF Button, SaveEdits, Reject, ApproveAndPush, Op
<1>6. ASSUME NEW p \in Sessions, Answer(p)
      PROVE  TabsOK' /\ CallsOK' /\ clicks' \in 0 .. MaxClicks /\ overlap' \in BOOLEAN
  <2>1. calls[p].at # "running"
    BY <1>6 DEF Answer, Failed, Dropped, Saved, Approved, Finished
  <2>2. calls[p].tab \in Tabs \cup {NIL} /\ calls[p].mounted \in BOOLEAN
    BY <1>0 DEF Call
  <2>3. CASE Failed(p) \/ Dropped(p)
    BY <1>0, <2>1, <2>3, DoneEffect DEF Failed, Dropped, Done, TabsOK
  <2>4. CASE Saved(p)
    <3>1. PICK b \in Tabs : b = calls[p].tab
      BY <2>2, <2>4 DEF Saved
    <3>2. (tabs[b].dirty /\ ~calls[p].mounted) \in BOOLEAN
      OBVIOUS
    <3>3. [tabs[b] EXCEPT !.dirty = @ /\ ~calls[p].mounted] \in Tab
      BY <1>0 DEF Tab
    <3> QED BY <1>0, <2>1, <2>4, <3>1, <3>3, DoneEffect, PutTabType DEF Saved, Done
  <2>5. CASE Approved(p)
    <3>1. PICK b \in Tabs : b = calls[p].tab
      BY <2>2, <2>5 DEF Approved
    <3>2. \/ Accept(p, b, "push") /\ Send(p, b, "push", "running", calls[p].mounted)
          \/ UNCHANGED vars /\ Send(p, b, "push", "error", calls[p].mounted)
      BY <2>5, <3>1 DEF Approved, Refused
    <3>3. UNCHANGED <<tabs, clicks>>
      BY <2>5 DEF Approved
    <3>4. "push" \in Op
      BY DEF Op
    <3> QED BY <1>0, <1>2, <2>1, <2>2, <3>2, <3>3, <3>4 DEF TabsOK
  <2>6. CASE Finished(p)
    <3>1. PICK b \in Tabs : b = calls[p].tab
      BY <2>2, <2>6 DEF Finished
    <3>2. [tabs[b] EXCEPT !.open = FALSE] \in Tab
      BY <1>0, TabTypes
    <3>3. calls' = [Unmounted(b) EXCEPT ![p] = NoCall] /\ UNCHANGED <<vars, clicks, overlap>>
      BY <2>6, <3>1 DEF Finished
    <3>4. /\ calls' \in [Sessions -> Call]
          /\ \A q \in Sessions : calls'[q].at # "running" <=> calls[q].at # "running"
      BY <2>1, <3>3, TabTypes, UnmountedEffect
    <3> QED BY <1>0, <1>1, <2>6, <3>1, <3>2, <3>3, <3>4, PutTabType DEF Finished, vars
  <2> QED BY <1>6, <2>3, <2>4, <2>5, <2>6 DEF Answer
<1>7. ASSUME NEW p \in Sessions, Handle(p)
      PROVE  TabsOK' /\ CallsOK' /\ clicks' \in 0 .. MaxClicks /\ overlap' \in BOOLEAN
  <2>1. /\ sess[p].pc # "idle"
        /\ \A q \in Sessions \ {p} : sess'[q] = sess[q]
        /\ UNCHANGED <<tabs, clicks, overlap>>
    BY <1>0, <1>7, HandleEffect
  <2>2. PICK r \in {"ok", "error"} :
           calls' = [calls EXCEPT ![p].at = IF sess'[p].pc # "idle" THEN @ ELSE r]
    BY <1>0, <1>7, HandleEffect
  <2>3. calls \in [Sessions -> Call]
    BY <1>0 DEF CallsOK
  <2>4. calls' \in [Sessions -> Call]
    BY <2>2, <2>3 DEF Call
  <2>5. \A q \in Sessions : calls'[q].at = IF q # p \/ sess'[p].pc # "idle" THEN calls[q].at ELSE r
    BY <2>2, <2>3 DEF Call
  <2>6. \A q \in Sessions : sess'[q].pc = "idle" <=> calls'[q].at # "running"
    BY <1>0, <2>1, <2>5
  <2> QED BY <1>0, <2>1, <2>4, <2>6 DEF CallsOK, TabsOK
<1>8. ASSUME NEW p \in Sessions, AnswerLost(p)
      PROVE  TabsOK' /\ CallsOK' /\ clicks' \in 0 .. MaxClicks /\ overlap' \in BOOLEAN
  <2>1. /\ calls' = [calls EXCEPT ![p].at = "error"] /\ calls[p].at = "ok"
        /\ UNCHANGED <<sess, tabs, clicks, overlap>>
    BY <1>8 DEF AnswerLost
  <2>2. calls \in [Sessions -> Call]
    BY <1>0 DEF CallsOK
  <2>3. /\ calls' \in [Sessions -> Call]
        /\ \A q \in Sessions : calls'[q].at # "running" <=> calls[q].at # "running"
    BY <2>1, <2>2 DEF Call
  <2> QED BY <1>0, <1>1, <2>1, <2>3 DEF TabsOK
<1>9. CASE ServerCrash
  <2>1. /\ \A p \in Sessions : sess'[p].pc = "idle"
        /\ UNCHANGED <<tabs, clicks, overlap>>
    BY <1>9 DEF ServerCrash, Crash, Idle
  <2>2. /\ \A p \in Sessions : [calls[p] EXCEPT !.at = "error"] \in Call
        /\ \A p \in Sessions : [calls[p] EXCEPT !.at = "error"].at = "error"
    BY <1>0 DEF Call
  <2>3. /\ calls' \in [Sessions -> Call]
        /\ \A q \in Sessions : calls'[q].at # "running"
    BY <1>0, <1>9, <2>2 DEF ServerCrash
  <2> QED BY <1>0, <2>1, <2>3 DEF CallsOK, TabsOK
<1>10. CASE UNCHANGED allVars
  BY <1>0, <1>10 DEF allVars, vars, consoleVars, TabsOK, CallsOK
<1> QED
  BY <1>4, <1>5, <1>6, <1>7, <1>8, <1>9, <1>10 DEF ConsoleNext

-----------------------------------------------------------------------------
(* Taking turns *)

\* What a handler of the console does, it does to the draft.
LEMMA HandlersKept ==
    ASSUME ConsoleInv, [ConsoleNext]_allVars, NEW q \in Sessions
    PROVE  HandlerOK(sess'[q])
<1>0. TypeOK /\ HandlerOK(sess[q]) /\ sess[q] \in Session
  BY DEF ConsoleInv, ConsoleTypeOK, TypeOK
<1>1. CASE sess'[q] = sess[q]
  BY <1>0, <1>1
<1>2. CASE sess'[q] = Idle
  BY <1>2 DEF HandlerOK, Idle
<1>3. ASSUME NEW p \in Sessions, NEW b, NEW op, Accept(p, b, op) PROVE HandlerOK(sess'[q])
  <2>1. CASE p = q
    BY <1>0, <1>3, <2>1, AcceptEffect DEF HandlerOK
  <2>2. CASE p # q
    BY <1>0, <1>1, <1>3, <2>2, AcceptEffect
  <2> QED BY <2>1, <2>2
<1>4. ASSUME NEW p \in Sessions, Handle(p) PROVE HandlerOK(sess'[q])
  <2>1. CASE p # q
    BY <1>0, <1>1, <1>4, <2>1, HandleEffect
  <2>2. CASE p = q
    <3>1. ASSUME NEW s, Put(q, s) PROVE sess'[q] = s
      BY <1>0, <3>1, PutFrame
    <3>2. CASE CommitReview(q) \/ LinkTickets(q) \/ CreateKbDraftFails(q) \/ IndexFails(q)
      BY <1>2, <3>1, <3>2 DEF CommitReview, LinkTickets, CreateKbDraftFails, IndexFails
    <3>3. ASSUME NEW k \in KbIds, CreateKbDraft(q, k) PROVE HandlerOK(sess'[q])
      BY <1>0, <3>1, <3>3 DEF CreateKbDraft, HandlerOK, Session
    <3>4. CASE CommitPush(q)
      BY <1>0, <1>2, <3>1, <3>4 DEF CommitPush, HandlerOK, Session
    <3>5. CASE Refresh(q)
      BY <1>0, <3>1, <3>5 DEF Refresh, HandlerOK, Session
    <3>6. CASE IndexArticle(q)
      <4>1. sess[q].op = "push"
        BY <1>0, <3>6 DEF IndexArticle, HandlerOK
      <4> QED BY <1>0, <3>1, <3>6, <4>1 DEF IndexArticle, HandlerOK, Session
    <3> QED BY <1>4, <2>2, <3>2, <3>3, <3>4, <3>5, <3>6 DEF Handle
  <2> QED BY <2>1, <2>2
<1>5. UNCHANGED vars => sess' = sess
  BY DEF vars
<1>6. ASSUME NEW b \in Tabs, Panel(b) \/ Button(b) PROVE HandlerOK(sess'[q])
  <2>1. CASE Panel(b)
    BY <1>1, <1>5, <2>1 DEF Panel, OpenPanel, ClosePanel, LeaveTab, CopyArrives, Type
  <2>2. CASE Button(b)
    BY <1>1, <1>3, <1>5, <2>2
       DEF Button, SaveEdits, Reject, ApproveAndPush, Click, Refused
  <2> QED BY <1>6, <2>1, <2>2
<1>7. ASSUME NEW p \in Sessions, Answer(p) \/ AnswerLost(p) PROVE HandlerOK(sess'[q])
  BY <1>1, <1>3, <1>5, <1>7
     DEF Answer, AnswerLost, Failed, Dropped, Saved, Approved, Finished, Done, Refused
<1>8. ServerCrash => sess'[q] = Idle
  BY DEF ServerCrash, Crash
<1>9. UNCHANGED allVars => sess' = sess
  BY DEF allVars, vars
<1> QED
  BY <1>1, <1>2, <1>4, <1>6, <1>7, <1>8, <1>9 DEF ConsoleNext

\* An item that is created is one more, at most.
LEMMA OneMore ==
    ASSUME IInv, NEW p \in Sessions, sess[p].art \in ArticleIds, NEW k \in KbIds,
           Created(p, k), IsFiniteSet(Made)
    PROVE  /\ IsFiniteSet(Made') /\ Cardinality(Made') <= Cardinality(Made) + 1
           /\ Cardinality(Made) \in Nat /\ Cardinality(Made') \in Nat
<1>1. Made' = Made \cup {k}
  <2> DEFINE i == [made |-> TRUE, ver |-> sess[p].seen.text.ver, by |-> sess[p].art,
                   had |-> {sess[p].seen.text.ver}]
  <2>1. i.by # NIL
    BY NilAssumption
  <2>2. items' = [items EXCEPT ![k] = i] /\ items \in [KbIds -> Item]
    BY DEF Created, IInv, TypeOK
  <2> HIDE DEF i
  <2>3. \A j \in KbIds : items'[j].by # NIL <=> items[j].by # NIL \/ j = k
    BY <2>1, <2>2
  <2> QED BY <2>3 DEF Made
<1>2. IsFiniteSet(Made \cup {k}) /\ Cardinality(Made \cup {k}) <= Cardinality(Made) + 1
      /\ Cardinality(Made) \in Nat /\ Cardinality(Made \cup {k}) \in Nat
  <2>1. Cardinality(Made) \in Nat /\ IsFiniteSet(Made \cup {k})
    BY FS_CardinalityType, FS_AddElement
  <2>2. Cardinality(Made \cup {k}) \in {Cardinality(Made), Cardinality(Made) + 1}
    BY FS_AddElement
  <2> QED BY <2>1, <2>2
<1> QED
  BY <1>1, <1>2

\* The count stays right while the items do, the failures do not get fewer, and
\* the article does not lose what it pays for.
LEMMA CountKept ==
    ASSUME IInv, TurnOK, items' = items, faults' \in Nat, faults <= faults',
           Paying => Paying' \/ faults' = faults + 1
    PROVE  IsFiniteSet(Made') /\ Cardinality(Made') <= faults' + (IF Paying' THEN 1 ELSE 0)
<1>1. Made' = Made
  BY DEF Made
<1>2. /\ Cardinality(Made) \in Nat /\ IsFiniteSet(Made) /\ faults \in Nat
      /\ Cardinality(Made) <= faults + (IF Paying THEN 1 ELSE 0)
  BY FS_CardinalityType DEF TurnOK, IInv, TypeOK
<1> HIDE DEF Paying
<1>3. Cardinality(Made) <= faults' + (IF Paying' THEN 1 ELSE 0)
  BY <1>2
<1> QED
  BY <1>1, <1>2, <1>3

\* While the mutations take turns a handler works alone.
LEMMA HandlersTurn ==
    ASSUME ConsoleInv, TurnOK, NEW p \in Sessions, Handle(p)
    PROVE  TurnOK'
<1>0. /\ IInv /\ TypeOK /\ sess[p] \in Session /\ HandlerOK(sess[p]) /\ SessOK(sess[p])
      /\ Recent(sess[p]) /\ faults \in Nat /\ IsFiniteSet(Made)
      /\ article \in [ArticleIds -> Article] /\ Draft \in ArticleIds
  BY DraftFacts DEF ConsoleInv, IInv, TypeOK, TurnOK
<1>1. /\ sess[p].pc # "idle" /\ sess[p].art = Draft
      /\ \A q \in Sessions \ {p} : sess'[q] = sess[q] /\ sess[q].pc = "idle"
  BY <1>0, HandleEffect DEF TurnOK, Active, HandlerOK
<1>2. ASSUME NEW s, Put(p, s) PROVE sess'[p] = s
  BY <1>0, <1>2, PutFrame
\* What is left to show of a step.
<1>3. ASSUME IsFiniteSet(Made'), Cardinality(Made') <= faults' + (IF Paying' THEN 1 ELSE 0),
             sess'[p].pc \in {"commit", "create", "publish"} =>
                sess'[p].seen = article'[Draft] /\ sess'[p].seen.status # "PUSHED",
             sess'[p].pc = "publish" => KbFree(Draft, sess[p].want.kb)'
      PROVE  TurnOK'
  <2>1. \A q, r \in Active' : q = r
    BY <1>1 DEF Active
  <2>2. \A q \in Sessions : Recent(sess[q])' /\ (sess'[q].pc = "publish" => q = p)
    BY <1>1, <1>3 DEF Recent
  <2>3. \A q \in Sessions : sess'[q].pc = "publish" => KbFree(Draft, sess[q].want.kb)'
    BY <1>3, <2>2 DEF KbFree
  <2> QED BY <1>3, <2>1, <2>2, <2>3 DEF TurnOK
\* The handler has ended or goes on to work that is not counted.
<1>4. ASSUME items' = items, faults' \in Nat, faults <= faults',
             sess'[p].pc \notin {"commit", "create", "publish"},
             Paying => Paying' \/ faults' = faults + 1
      PROVE  TurnOK'
  BY <1>0, <1>3, <1>4, CountKept
<1>5. CASE CommitReview(p)
  <2>1. /\ sess[p].pc = "commit" /\ sess'[p] = Idle /\ items' = items /\ faults' = faults
    BY <1>2, <1>5 DEF CommitReview
  <2>2. ~Paying
    BY <1>0, <1>1, <2>1 DEF Paying, Recent
  <2> QED BY <1>0, <1>4, <2>1, <2>2 DEF Idle
<1>6. CASE LinkTickets(p)
  <2>1. /\ sess[p].pc = "link" /\ sess'[p] = Idle /\ items' = items /\ article' = article
        /\ faults' \in {faults, faults + 1}
    BY <1>2, <1>6 DEF LinkTickets, Link, Fault
  <2>2. Paying => Paying'
    BY <1>1, <2>1 DEF Paying
  <2> QED BY <1>0, <1>4, <2>1, <2>2 DEF Idle
<1>7. ASSUME NEW k \in KbIds, CreateKbDraft(p, k) PROVE TurnOK'
  <2>1. /\ sess[p].pc = "create" /\ NextItem(k) /\ Created(p, k)
        /\ article' = article /\ faults' = faults
    BY <1>7 DEF CreateKbDraft
  <2>2. sess'[p].pc = "publish" /\ sess'[p].seen = sess[p].seen /\ sess'[p].want.kb = k
    <3> DEFINE s == [sess[p] EXCEPT !.pc = "publish", !.want.kb = k,
                                    !.want.status = "PUSHED"]
    <3>1. s.pc = "publish" /\ s.seen = sess[p].seen /\ s.want.kb = k
      BY <1>0 DEF Session, Article
    <3>2. Put(p, s)
      BY <1>7 DEF CreateKbDraft
    <3> HIDE DEF s
    <3> QED BY <1>2, <3>1, <3>2
  <2>3. ~Paying /\ Paying'
    BY <1>0, <1>1, <2>1, <2>2 DEF Paying, Recent
  <2>4. Cardinality(Made) <= faults
    BY <1>0, <2>3 DEF TurnOK
  <2>5. IsFiniteSet(Made') /\ Cardinality(Made') <= faults' + 1
    <3>1. /\ IsFiniteSet(Made') /\ Cardinality(Made') <= Cardinality(Made) + 1
          /\ Cardinality(Made) \in Nat /\ Cardinality(Made') \in Nat
      BY <1>0, <1>1, <2>1, OneMore
    <3>2. faults \in Nat /\ faults' = faults
      BY <1>0, <2>1
    <3> QED BY <2>4, <3>1, <3>2
  <2>6. KbFree(Draft, sess[p].want.kb)'
    <3>1. \A b \in ArticleIds : article[b].kb # k
      BY <1>0, <2>1, NilAssumption DEF IInv, TablesOK, RowOK, NextItem
    <3> QED BY <2>1, <2>2, <3>1 DEF KbFree
  <2> QED BY <1>0, <1>3, <2>1, <2>2, <2>3, <2>5, <2>6 DEF Recent
<1>8. CASE CreateKbDraftFails(p)
  <2>1. sess[p].pc = "create" /\ sess'[p] = Idle /\ article' = article
    BY <1>2, <1>8 DEF CreateKbDraftFails
  <2>2. ~Paying
    BY <1>0, <1>1, <2>1 DEF Paying, Recent
  <2>3. CASE items' = items /\ faults' \in {faults, faults + 1}
    BY <1>0, <1>4, <2>1, <2>2, <2>3 DEF Idle
  <2>4. ASSUME Fault, NEW k \in KbIds, NextItem(k), Created(p, k) PROVE TurnOK'
    <3>1. Cardinality(Made) <= faults /\ faults' = faults + 1
      BY <1>0, <2>2, <2>4 DEF TurnOK, Fault
    <3>2. IsFiniteSet(Made') /\ Cardinality(Made') <= faults' /\ Cardinality(Made') \in Nat
      BY <1>0, <1>1, <2>4, <3>1, OneMore
    <3>3. Cardinality(Made') <= faults' + (IF Paying' THEN 1 ELSE 0)
      <4> HIDE DEF Paying
      <4> QED BY <1>0, <3>1, <3>2
    <3> QED BY <1>3, <2>1, <3>2, <3>3 DEF Idle
  <2> QED BY <1>8, <2>3, <2>4 DEF CreateKbDraftFails, Fault
<1>9. CASE CommitPush(p)
  <2>1. sess[p].pc = "publish" /\ items' = items /\ faults' = faults
    BY <1>9 DEF CommitPush
  <2>2. KbFree(Draft, sess[p].want.kb)
    BY <2>1 DEF TurnOK
  <2>3. /\ article' = [article EXCEPT ![Draft] = Merged(@, sess[p].seen, sess[p].want)]
        /\ sess'[p].pc = "refresh"
    BY <1>0, <1>1, <1>2, <1>9, <2>2 DEF CommitPush, Session
  <2>4. article'[Draft].status = "PUSHED"
    BY <1>0, <2>1, <2>3 DEF Merged, SessOK
  <2> QED BY <1>0, <1>4, <2>1, <2>3, <2>4 DEF Paying
<1>10. CASE Refresh(p)
  <2>1. /\ sess[p].pc = "refresh" /\ sess'[p].pc = "index" /\ items' = items
        /\ article' = article /\ faults' = faults
    BY <1>0, <1>2, <1>10 DEF Refresh, Session
  <2>2. Paying => Paying'
    BY <1>1, <2>1 DEF Paying
  <2> QED BY <1>0, <1>4, <2>1, <2>2
<1>11. CASE IndexArticle(p)
  <2>1. /\ sess[p].pc = "index" /\ sess[p].op = "push" /\ items' = items
        /\ article' = article /\ faults' = faults
    BY <1>0, <1>11 DEF IndexArticle, HandlerOK
  <2>2. sess'[p].pc = "link"
    BY <1>0, <1>2, <1>11, <2>1 DEF IndexArticle, Session
  <2>3. Paying => Paying'
    BY <1>1, <2>1 DEF Paying
  <2> QED BY <1>0, <1>4, <2>1, <2>2, <2>3
<1>12. CASE IndexFails(p)
  <2>1. /\ sess[p].pc = "index" /\ sess'[p] = Idle /\ items' = items
        /\ article' = article /\ faults' = faults + 1
    BY <1>2, <1>12 DEF IndexFails, Fault
  <2> QED BY <1>0, <1>4, <2>1 DEF Idle
<1> QED
  BY <1>5, <1>6, <1>7, <1>8, <1>9, <1>10, <1>11, <1>12 DEF Handle

\* The turns are kept until a mutation is sent while another is in hand.
LEMMA TurnsKept ==
    ASSUME ConsoleInv, [ConsoleNext]_allVars, ~overlap'
    PROVE  TurnOK'
<1>0. IInv /\ ConsoleTypeOK /\ TypeOK /\ faults \in Nat
  BY DEF ConsoleInv, ConsoleTypeOK, TypeOK
<1>1. ASSUME TurnOK, UNCHANGED server, faults' \in {faults, faults + 1} PROVE TurnOK'
  <2>1. UNCHANGED <<article, items, sess>>
    BY <1>1 DEF server
  <2>2. Paying' = Paying
    BY <2>1 DEF Paying
  <2>3. IsFiniteSet(Made') /\ Cardinality(Made') <= faults' + (IF Paying' THEN 1 ELSE 0)
    BY <1>0, <1>1, <2>1, <2>2, CountKept
  <2> QED BY <1>1, <2>1, <2>3 DEF TurnOK, Active, Recent, KbFree
<1>2. ASSUME TurnOK, UNCHANGED vars PROVE TurnOK'
  BY <1>0, <1>1, <1>2 DEF vars, server
<1>3. ASSUME TurnOK, Active = {}, NEW p \in Sessions, NEW b, NEW op, Accept(p, b, op)
      PROVE  TurnOK'
  <2>1. \A q \in Sessions : sess[q].pc = "idle"
    BY <1>3 DEF Active
  <2>2. /\ sess'[p].pc \in {"commit", "create"} /\ sess'[p].seen = article'[Draft]
        /\ sess'[p].seen.status # "PUSHED"
        /\ \A q \in Sessions \ {p} : sess'[q].pc = "idle"
        /\ UNCHANGED <<article, items, faults>>
    BY <1>0, <1>3, <2>1, AcceptEffect
  <2>3. Paying => Paying'
    BY <2>1, <2>2 DEF Paying
  <2>4. IsFiniteSet(Made') /\ Cardinality(Made') <= faults' + (IF Paying' THEN 1 ELSE 0)
    BY <1>0, <1>3, <2>2, <2>3, CountKept
  <2>5. \A q, r \in Active' : q = r
    BY <2>2 DEF Active
  <2>6. \A q \in Sessions : Recent(sess[q])' /\ sess'[q].pc # "publish"
    BY <2>2 DEF Recent
  <2> QED BY <2>4, <2>5, <2>6 DEF TurnOK
\* A mutation that is sent while another is in hand ends the turns.
<1>4. ASSUME NEW p \in Sessions, NEW b, NEW op, NEW at, NEW m, Send(p, b, op, at, m)
      PROVE  TurnOK /\ Active = {}
  BY <1>4 DEF Send, ConsoleInv
<1>5. overlap' = overlap => TurnOK
  BY DEF ConsoleInv
<1>6. ASSUME NEW b \in Tabs, Panel(b) PROVE TurnOK'
  <2>1. overlap' = overlap
    BY <1>6 DEF Panel, OpenPanel, ClosePanel, LeaveTab, CopyArrives, Type
  <2>2. UNCHANGED vars \/ (UNCHANGED server /\ Fault)
    BY <1>6 DEF Panel, OpenPanel, ClosePanel, LeaveTab, CopyArrives, Type, server
  <2> QED BY <1>1, <1>2, <1>5, <2>1, <2>2 DEF Fault
<1>7. ASSUME NEW b \in Tabs, Button(b) PROVE TurnOK'
  BY <1>2, <1>3, <1>4, <1>7 DEF Button, SaveEdits, Reject, ApproveAndPush, Click, Refused
<1>8. ASSUME NEW p \in Sessions, Answer(p) PROVE TurnOK'
  <2>1. CASE Approved(p)
    BY <1>2, <1>3, <1>4, <2>1 DEF Approved, Refused
  <2>2. CASE Failed(p) \/ Dropped(p) \/ Saved(p) \/ Finished(p)
    BY <1>2, <1>5, <2>2 DEF Failed, Dropped, Saved, Finished, Done
  <2> QED BY <1>8, <2>1, <2>2 DEF Answer
<1>9. ASSUME NEW p \in Sessions, Handle(p) PROVE TurnOK'
  BY <1>0, <1>5, <1>9, HandleEffect, HandlersTurn
<1>10. ASSUME NEW p \in Sessions, AnswerLost(p) PROVE TurnOK'
  BY <1>1, <1>5, <1>10 DEF AnswerLost, Fault, server
<1>11. CASE ServerCrash
  <2>1. TurnOK /\ UNCHANGED <<article, items>> /\ faults' = faults + 1
    BY <1>5, <1>11 DEF ServerCrash, Crash, Fault
  <2>2. \A q \in Sessions : sess'[q].pc = "idle"
    BY <1>11 DEF ServerCrash, Crash, Idle
  <2>3. IsFiniteSet(Made') /\ Cardinality(Made') <= faults' + (IF Paying' THEN 1 ELSE 0)
    BY <1>0, <2>1, CountKept
  <2> QED BY <2>2, <2>3 DEF TurnOK, Active, Recent
<1>12. CASE UNCHANGED allVars
  BY <1>2, <1>5, <1>12 DEF allVars, consoleVars
<1> QED
  BY <1>6, <1>7, <1>8, <1>9, <1>10, <1>11, <1>12 DEF ConsoleNext

LEMMA ConsoleInvInit == ConsoleInit => ConsoleInv
<1> SUFFICES ASSUME ConsoleInit PROVE ConsoleInv
  OBVIOUS
<1>1. /\ Init /\ \A p \in Sessions : sess[p].pc = "idle"
      /\ faults = 0
  BY DEF ConsoleInit, Init, Idle
<1>2. Made = {}
  BY <1>1 DEF Init, Made, NoItem
<1>3. IsFiniteSet(Made) /\ Cardinality(Made) = 0
  BY <1>2, FS_EmptySet
<1>4. TurnOK
  BY <1>1, <1>3 DEF TurnOK, Active, Recent, Paying
<1> QED
  BY <1>1, <1>4, InvInit, ConsoleTypeInit DEF ConsoleInv, HandlerOK

LEMMA ConsoleInvStep == ConsoleInv /\ [ConsoleNext]_allVars => ConsoleInv'
<1> SUFFICES ASSUME ConsoleInv, [ConsoleNext]_allVars PROVE ConsoleInv'
  OBVIOUS
<1>1. IInv' /\ ConsoleTypeOK'
  BY ServerKept, ConsoleTypeStep DEF ConsoleInv
<1>2. \A q \in Sessions : HandlerOK(sess[q])'
  BY HandlersKept DEF HandlerOK
<1>3. overlap' \/ TurnOK'
  BY TurnsKept
<1> QED
  BY <1>1, <1>2, <1>3 DEF ConsoleInv

\* The inductive invariant holds in every reachable state.
LEMMA ConsoleInvariance == ConsoleSpec => []ConsoleInv
BY ConsoleInvInit, ConsoleInvStep, PTL DEF ConsoleSpec

\* Only typing changes the text of a panel that is open.
LEMMA TextKept ==
    ASSUME ConsoleTypeOK, [ConsoleNext]_allVars, NEW b \in Tabs,
           Loaded(b), tabs'[b].open, tabs'[b].form # tabs[b].form
    PROVE  tabs'[b].dirty
<1>0. /\ tabs \in [Tabs -> Tab] /\ tabs[b] \in Tab /\ tabs[b].open /\ tabs[b].cache # NIL
  BY DEF ConsoleTypeOK, Loaded
<1>1. tabs' # tabs
  OBVIOUS
<1>2. ASSUME NEW c \in Tabs, NEW t, PutTab(c, t)
      PROVE  tabs'[b] = IF c = b THEN t ELSE tabs[b]
  BY <1>0, <1>2 DEF PutTab
<1>3. ASSUME NEW c \in Tabs, NEW x, PutTab(c, [tabs[c] EXCEPT !.open = x]) PROVE FALSE
  BY <1>0, <1>2, <1>3 DEF Tab
<1>4. ASSUME NEW c \in Tabs, Panel(c) PROVE tabs'[b].dirty
  <2>1. OpenPanel(c) => c # b
    BY <1>0 DEF OpenPanel
  <2>2. CASE OpenPanel(c)
    BY <1>2, <2>1, <2>2 DEF OpenPanel
  <2>3. CASE ClosePanel(c)
    BY <1>3, <2>3 DEF ClosePanel
  <2>4. CASE CopyArrives(c)
    <3>1. PutTab(c, Filled([tabs[c] EXCEPT !.cache = TheCopy], tabs[c].cache))
      BY <2>4 DEF CopyArrives
    <3>2. c = b
      BY <1>2, <3>1
    <3>3. tabs'[b] = [tabs[b] EXCEPT !.cache = TheCopy]
      BY <1>0, <1>2, <3>1, <3>2 DEF Filled
    <3> QED BY <1>0, <3>3 DEF Tab
  <2>5. ASSUME NEW v \in Versions, Type(c, v) PROVE tabs'[b].dirty
    <3>1. c = b /\ tabs'[b] = [tabs[b] EXCEPT !.form = v, !.dirty = TRUE]
      BY <1>0, <1>2, <2>5 DEF Type
    <3>2. tabs'[b].dirty = TRUE
      BY <1>0, <3>1 DEF Tab
    <3> QED BY <3>2
  <2>6. CASE LeaveTab(c)
    <3>1. tabs'[b] = NewTab
      BY <1>2, <2>6 DEF LeaveTab
    <3>2. ~tabs'[b].open
      BY <3>1 DEF NewTab
    <3> QED BY <3>2
  <2> QED BY <1>4, <2>2, <2>3, <2>4, <2>5, <2>6 DEF Panel
<1>5. \A c \in Tabs : ~Button(c)
  BY <1>1 DEF Button, SaveEdits, Reject, ApproveAndPush, Click
<1>6. ASSUME NEW p \in Sessions, Answer(p) PROVE FALSE
  <2>1. calls[p].tab \in Tabs \cup {NIL}
    BY DEF ConsoleTypeOK, Call
  <2>2. CASE Failed(p) \/ Dropped(p) \/ Approved(p)
    BY <1>1, <2>2 DEF Failed, Dropped, Approved
  <2>3. CASE Saved(p)
    BY <1>0, <1>2, <2>1, <2>3 DEF Saved, Tab
  <2>4. CASE Finished(p)
    BY <1>3, <2>1, <2>4 DEF Finished
  <2> QED BY <1>6, <2>2, <2>3, <2>4 DEF Answer
<1>7. /\ \A p \in Sessions : ~Handle(p) /\ ~AnswerLost(p)
      /\ ~ServerCrash /\ ~UNCHANGED allVars
  BY <1>1 DEF Handle, AnswerLost, ServerCrash, allVars, consoleVars
<1> QED
  BY <1>4, <1>5, <1>6, <1>7 DEF ConsoleNext

-----------------------------------------------------------------------------
(* Theorems *)

\* The tabs, the calls and the server's state keep their types, and a call is in
\* hand for as long as the server works on its request.
THEOREM ConsoleTypeCorrect == ConsoleSpec => []ConsoleTypeOK
BY ConsoleInvariance, PTL DEF ConsoleInv

\* However many tabs show however old a copy, while no two mutations are in hand
\* at once "Approve & Push" publishes the article once, and once more per failure
\* at most: push_draft looks at the status of the row, not at the tab's.
THEOREM TurnsPublishOnce == ConsoleSpec => []SequentialClicksPublishOnce
<1>1. ConsoleInv => SequentialClicksPublishOnce
  <2> SUFFICES ASSUME ConsoleInv, ~overlap PROVE Cardinality(Made) <= 1 + faults
    BY DEF SequentialClicksPublishOnce
  <2>1. /\ Cardinality(Made) \in Nat /\ faults \in Nat
        /\ Cardinality(Made) <= faults + (IF Paying THEN 1 ELSE 0)
    BY FS_CardinalityType DEF ConsoleInv, TurnOK, IInv, TypeOK
  <2> HIDE DEF Paying
  <2> QED BY <2>1
<1> QED
  BY <1>1, ConsoleInvariance, PTL

\* A copy that arrives never replaces what was typed and not saved: the effect of
\* DraftReviewPanel fills the form only when another article comes up.
THEOREM TypedTextSurvives == ConsoleSpec => UnsavedEditsSurvive
<1> DEFINE A == \A b \in Tabs :
                   Loaded(b) /\ tabs'[b].open /\ tabs'[b].form # tabs[b].form
                      => tabs'[b].dirty
<1>1. ConsoleInv /\ [ConsoleNext]_allVars => A
  BY TextKept DEF ConsoleInv
<1>2. ConsoleSpec => [][A]_allVars
  <2> HIDE DEF A
  <2> QED BY <1>1, ConsoleInvariance, PTL DEF ConsoleSpec
<1> QED
  BY <1>2 DEF UnsavedEditsSurvive

\* What the server keeps behind the console: what is shown as published is in
\* the ITSM and in the log, however the tabs race.
THEOREM ConsolePublishes == ConsoleSpec => []PublishedHaveItems
<1>1. ConsoleInv => PublishedHaveItems
  BY DEF ConsoleInv, IInv, TablesOK
<1> QED
  BY <1>1, ConsoleInvariance, PTL
=============================================================================
