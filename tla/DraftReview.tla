------------------------------ MODULE DraftReview ------------------------------
(***************************************************************************)
(* The life of an article in kbgen once it exists: reviewers edit, approve *)
(* or reject it (api/drafts.py), a push publishes it in the ITSM, indexes  *)
(* it again and links it to its tickets (pipeline/push.py), and an import  *)
(* copies the ITSM's knowledge base into kb.article (pipeline/importer.py).*)
(*                                                                         *)
(* Each request has a database session of its own.  A handler reads the    *)
(* article, checks its status, awaits, and commits; nothing locks the row  *)
(* in between, and the commit writes only the columns whose new value      *)
(* differs from the one the session had loaded.  A step of this module is  *)
(* what happens between two awaits.                                        *)
(*                                                                         *)
(* Abstractions:                                                           *)
(*   - title, summary, body, tags and category are one text: a version and *)
(*     a form, "md" as kbgen wrote it or "plain" as it comes back from the *)
(*     ITSM, stripped of its HTML;                                         *)
(*   - the chunks of an article are the text they were cut from;           *)
(*   - reviewer, dates and scores are left out;                            *)
(*   - the uuids of articles are numbered in the order they are drawn, as  *)
(*     the ITSM numbers its items;                                         *)
(*   - /admin/reset is in TicketPipeline, not here.                        *)
(***************************************************************************)
EXTENDS Integers, FiniteSets

CONSTANTS
    ArticleIds,     \* ids of rows of kb.article
    Drafts,         \* the articles the pipeline has drafted and indexed
    KbIds,          \* ids of knowledge-base items of the ITSM: a bound
    Foreign,        \* the items that were in the ITSM before kbgen
    Tickets,        \* ids of ITSM tickets
    Source,         \* the ticket a draft was written from
    Sessions,       \* HTTP request slots, each with a session of its own
    NIL,            \* SQL NULL
    Versions,       \* the wordings an article may have
    First,          \* the wording the generator gave
    MaxConcurrent,  \* requests in flight at once
    MaxRows,        \* bound: tickets the pipeline records meanwhile
    MaxFaults       \* bound: failed external calls and crashes

ASSUME NilAssumption == NIL \notin ArticleIds \cup KbIds \cup Tickets
ASSUME IdAssumption == ArticleIds \subseteq Nat /\ KbIds \subseteq Nat
ASSUME DraftAssumption ==
    /\ Drafts \subseteq ArticleIds
    /\ Source \in [Drafts -> Tickets]
    /\ Foreign \subseteq KbIds
    /\ First \in Versions
ASSUME BoundAssumption == {MaxConcurrent, MaxRows, MaxFaults} \subseteq Nat

VARIABLES
    article,  \* table kb.article
    chunks,   \* the text each article's chunks were cut from, NIL if it has none
    log,      \* table kb.push_log: article and item, NIL for a failed push
    pt,       \* table kb.processed_ticket, the rows that name an article
    items,    \* the ITSM's knowledge base
    links,    \* the ITSM's associations of items with tickets
    sess,     \* what each session holds in memory
    faults    \* external failures and crashes so far

vars == <<article, chunks, log, pt, items, links, sess, faults>>

-----------------------------------------------------------------------------
(* Rows, items and sessions *)

Status == {"NONE", "DRAFT", "EDITED", "APPROVED", "PUSHED", "IMPORTED", "REJECTED"}
Text == [ver : Versions, form : {"md", "plain"}]
Article == [status : Status, text : Text, kb : KbIds \cup {NIL}]
NoArticle == [status |-> "NONE", text |-> [ver |-> First, form |-> "md"], kb |-> NIL]

\* An item of the ITSM.  The ITSM does not record the history in it: by names
\* the article a push created it for, NIL for a foreign item, and had holds the
\* wordings it has had.
NoItem == [made |-> FALSE, ver |-> First, by |-> NIL, had |-> {First}]
Item == [made : BOOLEAN, ver : Versions, by : ArticleIds \cup {NIL},
         had : SUBSET Versions]

\* A ticket's row: match is matched_article_id, the article that covers a
\* COVERED ticket and the closest one below the threshold for a DRAFTED one.
\* History: late, the match was already published when the row was recorded.
NoRow == [decision |-> "NONE", match |-> NIL, late |-> FALSE]
Row == [decision : {"NONE", "COVERED", "DRAFTED"},
        match : ArticleIds \cup {NIL}, late : BOOLEAN]

\* What the adapter's listing says of an item.
Listed == [kb : KbIds, ver : Versions]

Op == {"none", "edit", "approve", "reject", "push", "import"}
Pc == {"idle", "commit", "create", "publish", "list", "upsert", "refresh",
       "index", "link"}
Session == [pc   : Pc,
            op   : Op,
            art  : ArticleIds \cup {NIL},
            seen : Article,          \* the row as the ORM loaded it
            want : Article,          \* the row the handler assigns
            text : Text,             \* the text handed to the indexer
            todo : SUBSET Listed]    \* items the import has still to visit
Idle == [pc |-> "idle", op |-> "none", art |-> NIL, seen |-> NoArticle,
         want |-> NoArticle, text |-> NoArticle.text, todo |-> {}]

TypeOK ==
    /\ article \in [ArticleIds -> Article]
    /\ chunks \in [ArticleIds -> Text \cup {NIL}]
    /\ log \subseteq ArticleIds \X (KbIds \cup {NIL})
    /\ pt \in [Tickets -> Row]
    /\ items \in [KbIds -> Item]
    /\ links \subseteq KbIds \X Tickets
    /\ sess \in [Sessions -> Session]
    /\ faults \in Nat

Put(p, s) == sess' = [sess EXCEPT ![p] = s]
Active == {p \in Sessions : sess[p].pc # "idle"}
MayStart(p) == sess[p].pc = "idle" /\ Cardinality(Active) < MaxConcurrent
Fault == faults < MaxFaults /\ faults' = faults + 1

\* The flush writes only the columns that differ from the loaded ones.
Merged(current, seen, want) ==
    [status |-> IF want.status = seen.status THEN current.status ELSE want.status,
     text   |-> IF want.text = seen.text THEN current.text ELSE want.text,
     kb     |-> IF want.kb = seen.kb THEN current.kb ELSE want.kb]

\* kb.article.itsm_kb_id is UNIQUE.
KbFree(a, k) == \A b \in ArticleIds \ {a} : article[b].kb # k

-----------------------------------------------------------------------------
(* The reviewers' requests: load, check the status, assign, commit *)

Request(p, op, a, want) ==
    /\ MayStart(p)
    /\ article[a].status # "NONE"
    /\ Put(p, [Idle EXCEPT !.pc = "commit", !.op = op, !.art = a,
                           !.seen = article[a], !.want = want])
    /\ UNCHANGED <<article, chunks, log, pt, items, links, faults>>

\* Mutant: edits are accepted in any status.
UpdateDraft_AnyStatus(p, a, v) ==
    Request(p, "edit", a,
       [article[a] EXCEPT !.text = [ver |-> v, form |-> "md"],
                          !.status = IF @ = "DRAFT" THEN "EDITED" ELSE @])

UpdateDraft(p, a, v) ==
    /\ article[a].status \notin {"PUSHED", "REJECTED"}
    /\ Request(p, "edit", a,
          [article[a] EXCEPT !.text = [ver |-> v, form |-> "md"],
                             !.status = IF @ = "DRAFT" THEN "EDITED" ELSE @])

\* Mutant: a status outside those the other handlers test for.
ApproveDraft_Unlisted(p, a) ==
    /\ article[a].status \in {"DRAFT", "EDITED"}
    /\ Request(p, "approve", a, [article[a] EXCEPT !.status = "REVIEWED"])

\* Mutant: an article is approved in any status.
ApproveDraft_AnyStatus(p, a) ==
    Request(p, "approve", a, [article[a] EXCEPT !.status = "APPROVED"])

ApproveDraft(p, a) ==
    /\ article[a].status \in {"DRAFT", "EDITED"}
    /\ Request(p, "approve", a, [article[a] EXCEPT !.status = "APPROVED"])

\* Mutant: a pushed article may be rejected.
RejectDraft_Unguarded(p, a) ==
    Request(p, "reject", a, [article[a] EXCEPT !.status = "REJECTED"])

RejectDraft(p, a) ==
    /\ article[a].status # "PUSHED"
    /\ Request(p, "reject", a, [article[a] EXCEPT !.status = "REJECTED"])

CommitReview(p) ==
    LET s == sess[p] IN
    /\ s.pc = "commit"
    /\ article' = [article EXCEPT ![s.art] = Merged(@, s.seen, s.want)]
    /\ Put(p, Idle)
    /\ UNCHANGED <<chunks, log, pt, items, links, faults>>

-----------------------------------------------------------------------------
(* push_draft *)

\* Mutant: a published article may be pushed again.
Pushable_Again == {"DRAFT", "EDITED", "APPROVED", "PUSHED"}
Pushable == {"DRAFT", "EDITED", "APPROVED"}

PushDraft(p, a) ==
    /\ MayStart(p)
    /\ article[a].status \in Pushable
    /\ Put(p, [Idle EXCEPT !.pc = "create", !.op = "push", !.art = a,
                           !.seen = article[a], !.want = article[a]])
    /\ UNCHANGED <<article, chunks, log, pt, items, links, faults>>

Created(p, k) ==
    items' = [items EXCEPT ![k] =
                [made |-> TRUE, ver |-> sess[p].seen.text.ver, by |-> sess[p].art,
                 had |-> {sess[p].seen.text.ver}]]

\* The ITSM numbers its items.
NextItem(k) == ~items[k].made /\ \A j \in KbIds : j < k => items[j].made

CreateKbDraft(p, k) ==
    /\ sess[p].pc = "create"
    /\ NextItem(k)
    /\ Created(p, k)
    /\ Put(p, [sess[p] EXCEPT !.pc = "publish", !.want.kb = k,
                              !.want.status = "PUSHED"])
    /\ UNCHANGED <<article, chunks, log, pt, links, faults>>

\* The call fails, before or after the ITSM created the item; the handler logs
\* the failure and raises.  It fails free of charge when KbIds is used up.
CreateKbDraftFails(p) ==
    /\ sess[p].pc = "create"
    /\ \/ Fault /\ UNCHANGED items
       \/ Fault /\ \E k \in KbIds : NextItem(k) /\ Created(p, k)
       \/ (\A k \in KbIds : items[k].made) /\ UNCHANGED <<items, faults>>
    /\ log' = log \cup {<<sess[p].art, NIL>>}
    /\ Put(p, Idle)
    /\ UNCHANGED <<article, chunks, pt, links>>

\* Mutants: the success is not logged; the pushed article is not indexed again.
CommitPush_Unlogged(p) ==
    LET s == sess[p] IN
    /\ s.pc = "publish"
    /\ \/ /\ KbFree(s.art, s.want.kb)
          /\ article' = [article EXCEPT ![s.art] = Merged(@, s.seen, s.want)]
          /\ Put(p, [s EXCEPT !.pc = "refresh"])
       \/ /\ ~KbFree(s.art, s.want.kb)
          /\ Put(p, Idle)
          /\ UNCHANGED article
    /\ UNCHANGED <<chunks, log, pt, items, links, faults>>
CommitPush_NoReindex(p) ==
    LET s == sess[p] IN
    /\ s.pc = "publish"
    /\ \/ /\ KbFree(s.art, s.want.kb)
          /\ article' = [article EXCEPT ![s.art] = Merged(@, s.seen, s.want)]
          /\ log' = log \cup {<<s.art, s.want.kb>>}
          /\ Put(p, [s EXCEPT !.pc = "link"])
       \/ /\ ~KbFree(s.art, s.want.kb)
          /\ Put(p, Idle)
          /\ UNCHANGED <<article, log>>
    /\ UNCHANGED <<chunks, pt, items, links, faults>>

\* Mutant: the status is tested again, and nothing is written if it has changed.
CommitPush_GivesUp(p) ==
    LET s == sess[p] IN
    /\ s.pc = "publish"
    /\ \/ /\ KbFree(s.art, s.want.kb) /\ article[s.art].status \in Pushable
          /\ article' = [article EXCEPT ![s.art] = Merged(@, s.seen, s.want)]
          /\ log' = log \cup {<<s.art, s.want.kb>>}
          /\ Put(p, [s EXCEPT !.pc = "refresh"])
       \/ /\ ~KbFree(s.art, s.want.kb) \/ article[s.art].status \notin Pushable
          /\ Put(p, Idle)
          /\ UNCHANGED <<article, log>>
    /\ UNCHANGED <<chunks, pt, items, links, faults>>

\* PushLog, itsm_kb_id and status in one transaction.
CommitPush(p) ==
    LET s == sess[p] IN
    /\ s.pc = "publish"
    /\ \/ /\ KbFree(s.art, s.want.kb)
          /\ article' = [article EXCEPT ![s.art] = Merged(@, s.seen, s.want)]
          /\ log' = log \cup {<<s.art, s.want.kb>>}
          /\ Put(p, [s EXCEPT !.pc = "refresh"])
       \/ /\ ~KbFree(s.art, s.want.kb)
          /\ Put(p, Idle)
          /\ UNCHANGED <<article, log>>
    /\ UNCHANGED <<chunks, pt, items, links, faults>>

\* Shared with the import: the session reads the row back and indexes that.
Refresh(p) ==
    /\ sess[p].pc = "refresh"
    /\ Put(p, [sess[p] EXCEPT !.pc = "index", !.text = article[sess[p].art].text])
    /\ UNCHANGED <<article, chunks, log, pt, items, links, faults>>

AfterImport(s) ==
    IF s.todo = {} THEN Idle
    ELSE [Idle EXCEPT !.pc = "list", !.op = "import", !.todo = s.todo]

IndexArticle(p) ==
    LET s == sess[p] IN
    /\ s.pc = "index"
    /\ chunks' = [chunks EXCEPT ![s.art] = s.text]
    /\ Put(p, IF s.op = "push" THEN [s EXCEPT !.pc = "link"] ELSE AfterImport(s))
    /\ UNCHANGED <<article, log, pt, items, links, faults>>

\* The tickets the push links: the one the article was written from and those
\* whose rows name it, whatever their decision.
LinkTargets(a) ==
    {t \in Tickets : pt[t].match = a \/ (a \in Drafts /\ Source[a] = t)}

\* Each link is attempted and a failed one is only logged.
Link(L) ==
    \E failed \in SUBSET L :
        /\ links' = links \cup (L \ failed)
        /\ IF failed = {} THEN UNCHANGED faults ELSE Fault

\* Mutant: only the ticket the article was written from is linked.
LinkTickets_SourceOnly(p) ==
    LET s == sess[p] IN
    /\ s.pc = "link"
    /\ Link({s.want.kb} \X {Source[a] : a \in Drafts \cap {s.art}})
    /\ Put(p, Idle)
    /\ UNCHANGED <<article, chunks, log, pt, items>>

LinkTickets(p) ==
    LET s == sess[p] IN
    /\ s.pc = "link"
    /\ Link({s.want.kb} \X LinkTargets(s.art))
    /\ Put(p, Idle)
    /\ UNCHANGED <<article, chunks, log, pt, items>>

\* POST /admin/relink-kb; its calls are idempotent, so one step stands for
\* the whole loop.
RelinkKbToTickets ==
    /\ Link(UNION {{article[a].kb} \X LinkTargets(a) :
                      a \in {b \in ArticleIds : article[b].status = "PUSHED"}})
    /\ UNCHANGED <<article, chunks, log, pt, items, sess>>

-----------------------------------------------------------------------------
(* import_from_itsm *)

Listing == {[kb |-> k, ver |-> items[k].ver] : k \in {j \in KbIds : items[j].made}}

ImportFromItsm(p) ==
    /\ MayStart(p)
    /\ Listing # {}
    /\ Put(p, [Idle EXCEPT !.pc = "list", !.op = "import", !.todo = Listing])
    /\ UNCHANGED <<article, chunks, log, pt, items, links, faults>>

\* get_by_itsm_kb_id, then the assignments: an existing row keeps its status,
\* a new one is IMPORTED.
ReadByKbId(p, i) ==
    LET rows == {a \in ArticleIds : article[a].kb = i.kb}
        text == [ver |-> i.ver, form |-> "plain"]
        s == [sess[p] EXCEPT !.pc = "upsert", !.todo = @ \ {i}]
    IN
    /\ sess[p].pc = "list"
    /\ i \in sess[p].todo
    /\ \/ \E a \in rows :
             Put(p, [s EXCEPT !.art = a, !.seen = article[a],
                              !.want = [article[a] EXCEPT !.text = text]])
       \/ /\ rows = {}
          /\ Put(p, [s EXCEPT !.want =
                        [status |-> "IMPORTED", text |-> text, kb |-> i.kb]])
    /\ UNCHANGED <<article, chunks, log, pt, items, links, faults>>

UpdateImported(p) ==
    LET s == sess[p] IN
    /\ s.pc = "upsert"
    /\ s.art # NIL
    /\ article' = [article EXCEPT ![s.art] = Merged(@, s.seen, s.want)]
    /\ Put(p, [s EXCEPT !.pc = "refresh"])
    /\ UNCHANGED <<chunks, log, pt, items, links, faults>>

\* A violated constraint ends the whole import.  So does, in this model, the
\* lack of an unused id.
InsertImported(p, a) ==
    LET s == sess[p] IN
    /\ s.pc = "upsert"
    /\ s.art = NIL
    /\ \/ /\ article[a].status = "NONE"
          /\ \A b \in ArticleIds : b < a => article[b].status # "NONE"
          /\ KbFree(a, s.want.kb)
          /\ article' = [article EXCEPT ![a] = s.want]
          /\ Put(p, [s EXCEPT !.pc = "refresh", !.art = a])
       \/ /\ \/ ~KbFree(a, s.want.kb)
             \/ \A b \in ArticleIds : article[b].status # "NONE"
          /\ Put(p, Idle)
          /\ UNCHANGED article
    /\ UNCHANGED <<chunks, log, pt, items, links, faults>>

-----------------------------------------------------------------------------
(* Failures and the outside *)

\* Embedding the chunks fails: the request ends, what it committed stays.
IndexFails(p) ==
    /\ sess[p].pc = "index"
    /\ Fault
    /\ Put(p, Idle)
    /\ UNCHANGED <<article, chunks, log, pt, items, links>>

Crash ==
    /\ Active # {}
    /\ Fault
    /\ sess' = [p \in Sessions |-> Idle]
    /\ UNCHANGED <<article, chunks, log, pt, items, links>>

\* The poll cycle records ticket t: article a, which its search has found,
\* covers it, or comes closest to it without covering it, so that another
\* article is drafted for t.  That one is not followed here.
RecordTicket(t, a, decision) ==
    /\ article[a].status \notin {"NONE", "REJECTED"}
    /\ chunks[a] # NIL
    /\ pt[t] = NoRow
    /\ Cardinality({u \in Tickets : pt[u] # NoRow}) < MaxRows
    /\ a \in Drafts => Source[a] # t
    /\ pt' = [pt EXCEPT ![t] = [decision |-> decision, match |-> a,
                                late |-> article[a].status = "PUSHED"]]
    /\ UNCHANGED <<article, chunks, log, items, links, sess, faults>>

\* Somebody edits an item in the ITSM, as the console tells the reviewers of a
\* published article to do.
EditInItsm(k, v) ==
    /\ items[k].made
    /\ items' = [items EXCEPT ![k].ver = v, ![k].had = @ \cup {v}]
    /\ UNCHANGED <<article, chunks, log, pt, links, sess, faults>>

-----------------------------------------------------------------------------
(* Specification *)

Init ==
    /\ article = [a \in ArticleIds |->
          IF a \in Drafts THEN [NoArticle EXCEPT !.status = "DRAFT"] ELSE NoArticle]
    /\ chunks = [a \in ArticleIds |-> IF a \in Drafts THEN NoArticle.text ELSE NIL]
    /\ log = {}
    /\ pt = [t \in Tickets |-> NoRow]
    /\ items = [k \in KbIds |-> [NoItem EXCEPT !.made = k \in Foreign]]
    /\ links = {}
    /\ sess = [p \in Sessions |-> Idle]
    /\ faults = 0

Review(p) ==
    \/ \E a \in ArticleIds :
          \/ \E v \in Versions : UpdateDraft(p, a, v)
          \/ ApproveDraft(p, a) \/ RejectDraft(p, a)
    \/ CommitReview(p)

Push(p) ==
    \/ \E a \in ArticleIds : PushDraft(p, a)
    \/ \E k \in KbIds : CreateKbDraft(p, k)
    \/ CreateKbDraftFails(p)
    \/ CommitPush(p)
    \/ LinkTickets(p)

Import(p) ==
    \/ ImportFromItsm(p)
    \/ \E i \in Listed : ReadByKbId(p, i)
    \/ UpdateImported(p)
    \/ \E a \in ArticleIds : InsertImported(p, a)

Environment ==
    \/ Crash
    \/ \E t \in Tickets, a \in ArticleIds, d \in {"COVERED", "DRAFTED"} :
          RecordTicket(t, a, d)
    \/ \E k \in KbIds, v \in Versions : EditInItsm(k, v)

Next ==
    \/ \E p \in Sessions : \/ Review(p) \/ Push(p) \/ Import(p)
                           \/ Refresh(p) \/ IndexArticle(p) \/ IndexFails(p)
    \/ RelinkKbToTickets
    \/ Environment

Spec == Init /\ [][Next]_vars
-----------------------------------------------------------------------------
(* Properties *)

\* What kbgen shows as published is in the ITSM: a PUSHED or IMPORTED article
\* names an item that exists, and a PUSHED one has the push log entry for it,
\* whatever other requests and crashes came between the ITSM's answer and the
\* commit.
PublishedHaveItems ==
    \A a \in ArticleIds :
        /\ article[a].status \in {"PUSHED", "IMPORTED"} =>
              article[a].kb # NIL /\ items[article[a].kb].made
        /\ article[a].status = "PUSHED" => <<a, article[a].kb>> \in log

\* An import may list an item whose push is still to be committed, and insert
\* a row for it on which the commit of the push then fails; a push may be
\* committed over another push, a rejection or an edit.  Unless a call failed
\* or the process died, kbgen knows every item its pushes created, by its log
\* or by a row.
PushesLeaveTraces ==
    faults = 0 =>
        \A k \in KbIds : items[k].by # NIL =>
            \/ \E a \in ArticleIds : <<a, k>> \in log \/ article[a].kb = k
            \/ \E p \in Sessions : sess[p].pc = "publish" /\ sess[p].want.kb = k

\* The tickets an article answers: the one it was written from and those the
\* dedup found covered by it.
Answers(a) ==
    {t \in Tickets : \/ a \in Drafts /\ Source[a] = t
                     \/ pt[t].decision = "COVERED" /\ pt[t].match = a}

\* "Link the KB article to every ticket it answers - master + covered
\* siblings": a ticket's knowledge-base tab lists no other items.
LinksAreAnswers ==
    \A l \in links : \E a \in ArticleIds : <<a, l[1]>> \in log /\ l[2] \in Answers(a)

\* A push of the article's item that has yet to make its links.
Linking(a) ==
    \E p \in Sessions : /\ sess[p].op = "push" /\ sess[p].art = a
                        /\ sess[p].pc \in {"refresh", "index", "link"}
                        /\ sess[p].want.kb = article[a].kb
\* Published articles that the tab of a ticket they answer does not list,
\* although the ticket was decided before the publication.
Unlinked ==
    {a \in ArticleIds :
        /\ article[a].status = "PUSHED"
        /\ ~Linking(a)
        /\ \E t \in Answers(a) :
              /\ pt[t].match = a => ~pt[t].late
              /\ <<article[a].kb, t>> \notin links}

\* One request at a time: every ticket that is answered when an article is
\* published gets its link, unless the call for the link failed or a failure
\* or a crash ended the push before it, one article per failure.
MissingLinksNeedFaults == Cardinality(Unlinked) <= faults

InHand(a) == \E p \in Sessions : sess[p].art = a
\* Items a push created that no article refers to.
LostItems ==
    {k \in KbIds : items[k].by # NIL /\ article[items[k].by].kb # k
                                    /\ ~InHand(items[k].by)}

\* One request at a time: an article reaches the ITSM once, and only a failed
\* call or a crash between the ITSM's answer and the commit leaves an item
\* behind, one per failure.
LostItemsNeedFaults == Cardinality(LostItems) <= faults

\* One request at a time: the text that kbgen shows for a published article is
\* one its item has had, the text it was published with or one that somebody
\* gave it in the ITSM and an import brought back.  No wording of a published
\* article is kbgen's alone.
PushedTextPublished ==
    \A a \in ArticleIds :
        article[a].status = "PUSHED" => article[a].text.ver \in items[article[a].kb].had

\* One request at a time: once a request is over, the search finds a pushed
\* article by its present text, unless a failure hit its indexing.
PushedIndexFresh ==
    Cardinality({a \in ArticleIds : /\ article[a].status = "PUSHED"
                                    /\ chunks[a] # article[a].text
                                    /\ ~InHand(a)}) <= faults

\* PUSHED and REJECTED are final, as the handlers' tests have it and the
\* console's buttons say of both: "no further action from here".  (Its banner
\* on a published article offers to reject it, which no handler does.)
FinalStatus ==
    [][\A a \in ArticleIds :
          article[a].status \in {"PUSHED", "REJECTED"}
             => article'[a].status = article[a].status]_vars

\* The abstract life of an article, one status change at a time.  It has no
\* rejection of a published article, which the console's banner speaks of and
\* reject_draft refuses.
Life == INSTANCE ArticleLifecycle WITH status <- [a \in ArticleIds |-> article[a].status]
LifeSpec == Life!Spec
=============================================================================
