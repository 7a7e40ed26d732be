------------------------------- MODULE ReadModels -------------------------------
(***************************************************************************)
(* What kbgen shows: the dashboard's counts (api/stats.py), the status of  *)
(* each topic (api/topics.py), the search over articles and tickets        *)
(* (retrieval/searcher.py), and the backfill of the vectors the search     *)
(* reads (/admin/reindex-tickets, api/admin.py).                           *)
(*                                                                         *)
(* Each is a request of several queries at READ COMMITTED: a query sees    *)
(* what is committed when it runs, and the writers of modules              *)
(* TicketPipeline and DraftReview commit between any two of them.  Here a  *)
(* writer is what one of its commits leaves behind.                        *)
(*                                                                         *)
(* Abstractions: one request at a time, since reads do not disturb each    *)
(* other; a ticket's text, and the vector of it, is a version number; the  *)
(* window, the previews and the index counts are left out; an article of   *)
(* the ITSM appears with the commit of its chunks.                         *)
(***************************************************************************)
EXTENDS Integers, FiniteSets

CONSTANTS
    ArticleIds,
    Tickets,
    Legacy,        \* tickets recorded before rows had vectors
    Categories,
    Topic,         \* the topic of each ticket, a category
    Relevance,     \* of each article and ticket to the query
    Limits,        \* values of the search's limit parameter
    Overshoot,     \* the least the search takes of a corpus, 10 in the code
    BatchSize,     \* batch_size of /admin/reindex-tickets, 64 in the code
    NIL,           \* SQL NULL, and a parameter that is not given
    MaxNotes,      \* bound: versions of a ticket's text
    MaxWrites,     \* bound: commits of the writers
    MaxFaults      \* bound: failed embedding calls

ASSUME ReadAssumption ==
    /\ Legacy \subseteq Tickets
    /\ Topic \in [Tickets -> Categories]
    /\ Relevance \in [ArticleIds \cup Tickets -> Nat]
    /\ ArticleIds \cap Tickets = {}
    /\ Limits \subseteq Int
    /\ IsFiniteSet(ArticleIds \cup Tickets)
    /\ Overshoot \in Nat /\ BatchSize \in Nat \ {0}
    /\ {MaxWrites, MaxFaults} \subseteq Nat
    /\ MaxNotes \in Nat \ {0}
    /\ NIL \notin Categories \cup ArticleIds \cup (1 .. MaxNotes)

VARIABLES
    article,   \* table kb.article, and in it the chunks of the articles
    ticket,    \* table kb.processed_ticket
    drafting,  \* drafts that are committed while their tickets' rows are not yet
    notes,     \* the version of each ticket's text in the ITSM
    req,       \* the request that reads
    crossed,   \* history: tickets recorded while a backfill had them in hand
    writes, faults

tables == <<article, ticket, drafting, notes>>
vars == <<tables, req, crossed, writes, faults>>

Status == {"NONE", "DRAFT", "EDITED", "APPROVED", "PUSHED", "IMPORTED", "REJECTED"}
Workflow == {"DRAFT", "EDITED", "APPROVED", "PUSHED"}
Published == {"PUSHED", "IMPORTED", "APPROVED"}

Article == [status : Status, category : Categories \cup {NIL}]
NoArticle == [status |-> "NONE", category |-> NIL]
Version == 1 .. MaxNotes
Row == [decision : {"NONE", "SKIPPED", "COVERED", "DRAFTED"},
        draft : ArticleIds \cup {NIL},
        text : Version \cup {NIL}, vec : Version \cup {NIL}]
NoRow == [decision |-> "NONE", draft |-> NIL, text |-> NIL, vec |-> NIL]

With(statuses) == {a \in ArticleIds : article[a].status \in statuses}
Rows == {t \in Tickets : ticket[t].decision # "NONE"}
Lesser(x, y) == IF x < y THEN x ELSE y
Greater(x, y) == IF x < y THEN y ELSE x

Pc == {"idle", "tickets", "pending", "approved", "pushed", "articles",
       "embed", "commit", "done"}
Idle == [pc |-> "idle", op |-> "none",
         category |-> NIL, kind |-> NIL, limit |-> 0,  \* parameters of the search
         counted |-> 0,       \* articles counted by stats
         rows |-> {},         \* tickets read by topics, or not yet embedded
         texts |-> {},        \* the loaded objects of a backfill
         batch |-> {}, failed |-> {},
         hits |-> {},
         read |-> {},         \* categories and statuses read by topics
         live |-> {}]         \* history: what has been in place ever since

Request == [pc : Pc, op : {"none", "stats", "topics", "search", "reindex"},
            category : Categories \cup {NIL}, kind : {NIL, "kb", "ticket"},
            limit : Limits \cup {0}, counted : Nat, rows : SUBSET Tickets,
            texts : SUBSET (Tickets \X Version),
            batch : SUBSET Tickets, failed : SUBSET Tickets,
            hits : SUBSET (ArticleIds \cup Tickets),
            read : SUBSET (Categories \X Status),
            live : SUBSET (ArticleIds \cup Tickets)]

TypeOK ==
    /\ article \in [ArticleIds -> Article]
    /\ ticket \in [Tickets -> Row]
    /\ \A t \in Rows : ticket[t].text # NIL
    /\ \A t \in Tickets : (ticket[t].draft # NIL) = (ticket[t].decision = "DRAFTED")
    /\ drafting \in [Tickets -> ArticleIds \cup {NIL}]
    /\ notes \in [Tickets -> Version]
    /\ req \in Request
    /\ crossed \subseteq Tickets
    /\ writes \in 0 .. MaxWrites /\ faults \in 0 .. MaxFaults

-----------------------------------------------------------------------------
(* What the other modules commit *)

\* What a search may find, and what the counts are about.
Searchable == With(Published) \cup {t \in Rows : ticket[t].vec # NIL}
InWorkflow == With(Workflow)

\* A row that a backfill has loaded is recorded meanwhile.
Crosses(t) == crossed' = IF t \in {x[1] : x \in req.texts} THEN crossed \cup {t} ELSE crossed

\* The draft has the category the generator names, or else the ticket's topic.
CommitDraft(t, a, k) ==
    /\ article[a].status = "NONE"
    /\ ticket[t].decision \in {"NONE", "SKIPPED"}
    /\ drafting[t] = NIL
    /\ article' = [article EXCEPT ![a] = [status |-> "DRAFT", category |-> k]]
    /\ drafting' = [drafting EXCEPT ![t] = a]
    /\ UNCHANGED <<ticket, notes, crossed>>

\* record(): the poll stores the vector of the text it stores; a gap draft
\* leaves the vector as it is.
RecordDraft(t) ==
    /\ drafting[t] # NIL
    /\ \E vec \in {notes[t], ticket[t].vec} :
          ticket' = [ticket EXCEPT ![t] =
              [decision |-> "DRAFTED", draft |-> drafting[t], vec |-> vec,
               text |-> IF vec = notes[t] \/ @.text = NIL THEN notes[t] ELSE @.text]]
    /\ drafting' = [drafting EXCEPT ![t] = NIL]
    /\ Crosses(t)
    /\ UNCHANGED <<article, notes>>

\* Mutant: the vector is stored only if there is none.
RecordOther_KeepsVector(t) ==
    /\ ticket[t].decision \in {"NONE", "SKIPPED"}
    /\ drafting[t] = NIL
    /\ ticket' = [ticket EXCEPT ![t] =
          [decision |-> "SKIPPED", draft |-> NIL, text |-> notes[t],
           vec |-> IF @.vec = NIL THEN notes[t] ELSE @.vec]]
    /\ Crosses(t)
    /\ UNCHANGED <<article, drafting, notes>>

RecordOther(t) ==
    /\ ticket[t].decision \in {"NONE", "SKIPPED"}
    /\ drafting[t] = NIL
    /\ \E d \in {"SKIPPED", "COVERED"} :
          /\ d = "COVERED" => With(Status \ {"NONE", "REJECTED"}) # {}
          /\ ticket' = [ticket EXCEPT ![t] =
                [decision |-> d, draft |-> NIL, text |-> notes[t], vec |-> notes[t]]]
    /\ Crosses(t)
    /\ UNCHANGED <<article, drafting, notes>>

CompleteNotes(t) ==
    /\ notes[t] < MaxNotes
    /\ notes' = [notes EXCEPT ![t] = @ + 1]
    /\ UNCHANGED <<article, ticket, drafting, crossed>>

Forward == {<<"DRAFT", "EDITED">>, <<"DRAFT", "APPROVED">>, <<"EDITED", "APPROVED">>,
            <<"DRAFT", "PUSHED">>, <<"EDITED", "PUSHED">>, <<"APPROVED", "PUSHED">>,
            <<"DRAFT", "REJECTED">>, <<"EDITED", "REJECTED">>, <<"APPROVED", "REJECTED">>,
            <<"IMPORTED", "REJECTED">>}

\* A request that was accepted before another one committed and commits after
\* it puts its own status over the other's: an edit or an approval over a push,
\* and any of them over a rejection.
Backward == {<<"APPROVED", "EDITED">>, <<"PUSHED", "EDITED">>, <<"PUSHED", "APPROVED">>}
Over == Backward \cup {<<"PUSHED", "REJECTED">>, <<"REJECTED", "EDITED">>,
                       <<"REJECTED", "APPROVED">>, <<"REJECTED", "PUSHED">>}

MoveArticle(a) ==
    /\ \E s \in Status :
          /\ <<article[a].status, s>> \in Forward \cup Over
          /\ article' = [article EXCEPT ![a].status = s]
    /\ UNCHANGED <<ticket, drafting, notes, crossed>>

ImportArticle(a, k) ==
    /\ article[a].status = "NONE"
    /\ article' = [article EXCEPT ![a] = [status |-> "IMPORTED", category |-> k]]
    /\ UNCHANGED <<ticket, drafting, notes, crossed>>

\* The rows of drafts that are gone cannot be recorded any more.
ResetState ==
    /\ With(Status \ {"NONE"}) \cup Rows # {}
    /\ article' = [a \in ArticleIds |-> NoArticle]
    /\ ticket' = [t \in Tickets |-> NoRow]
    /\ drafting' = [t \in Tickets |-> NIL]
    /\ UNCHANGED <<notes, crossed>>

SteppedBack ==
    {a \in ArticleIds : <<article[a].status, article'[a].status>> \in Backward}

\* What a request's live is about, and keeps being about.
StillLive == CASE req.op = "search" -> Searchable'
               [] req.op = "stats"  -> InWorkflow' \ SteppedBack
               [] OTHER             -> InWorkflow'

Write ==
    /\ writes < MaxWrites
    /\ writes' = writes + 1
    /\ \/ \E t \in Tickets, a \in ArticleIds, k \in Categories : CommitDraft(t, a, k)
       \/ \E t \in Tickets : RecordDraft(t) \/ RecordOther(t) \/ CompleteNotes(t)
       \/ \E a \in ArticleIds, k \in Categories : MoveArticle(a) \/ ImportArticle(a, k)
       \/ ResetState
    /\ req' = [req EXCEPT !.live = @ \cap StillLive]
    /\ UNCHANGED faults

-----------------------------------------------------------------------------
(* GET /stats *)

Put(r) == req' = r
Reads == UNCHANGED <<tables, crossed, writes, faults>>
At(op, pc) == req.op = op /\ req.pc = pc

Stats ==
    /\ req.pc = "idle"
    /\ Put([Idle EXCEPT !.op = "stats", !.pc = "pending", !.live = InWorkflow])
    /\ Reads

Count(from, statuses, to) ==
    /\ At("stats", from)
    /\ Put([req EXCEPT !.pc = to, !.counted = @ + Cardinality(With(statuses))])
    /\ Reads

\* Mutant: the published articles are counted first.
CountDrafts_PushedFirst ==
    \/ Count("pending", {"PUSHED"}, "approved")
    \/ Count("approved", {"APPROVED"}, "pushed")
    \/ Count("pushed", {"DRAFT", "EDITED"}, "done")

\* Three queries, in this order.
CountDrafts ==
    \/ Count("pending", {"DRAFT", "EDITED"}, "approved")
    \/ Count("approved", {"APPROVED"}, "pushed")
    \/ Count("pushed", {"PUSHED"}, "done")

-----------------------------------------------------------------------------
(* GET /topics *)

Topics ==
    /\ req.pc = "idle"
    /\ Put([Idle EXCEPT !.op = "topics", !.pc = "tickets"])
    /\ Reads

\* The topics of the tickets; the history are the drafts that were made for
\* them and are in the workflow at this moment.
QueryTickets(from, to) ==
    /\ At("topics", from)
    /\ Put([req EXCEPT !.rows = Rows, !.pc = to,
                       !.live = InWorkflow \cap {ticket[t].draft : t \in Rows}])
    /\ Reads

QueryArticles(from, to) ==
    /\ At("topics", from)
    /\ Put([req EXCEPT !.pc = to,
                       !.read = {<<article[a].category, article[a].status>> :
                                   a \in {b \in ArticleIds : article[b].category # NIL}}])
    /\ Reads

\* Mutant: the articles are read before the tickets.
ReadTopics_ArticlesFirst ==
    \/ QueryArticles("tickets", "articles")
    \/ QueryTickets("articles", "done")

\* Two queries, in this order.
ReadTopics ==
    \/ QueryTickets("tickets", "articles")
    \/ QueryArticles("articles", "done")

\* The answer's status of a topic, out of what the queries returned.
kb_status(k) ==
    LET statuses == {x[2] : x \in {y \in req.read : y[1] = k}}
    IN  IF statuses \cap Published # {} THEN "covered"
        ELSE IF statuses \cap {"DRAFT", "EDITED"} # {} THEN "draft-pending"
        ELSE "gap"

-----------------------------------------------------------------------------
(* GET /search *)

Search ==
    /\ req.pc = "idle"
    /\ \E k \in Categories \cup {NIL}, kind \in {NIL, "kb", "ticket"}, n \in Limits :
          Put([Idle EXCEPT !.op = "search", !.category = k, !.kind = kind, !.limit = n,
                           !.pc = IF kind = "ticket" THEN "tickets" ELSE "articles",
                           !.live = {x \in Searchable :
                               /\ kind = "kb" => x \in ArticleIds
                               /\ kind = "ticket" => x \in Tickets
                               /\ k # NIL => k = IF x \in Tickets THEN Topic[x]
                                                  ELSE article[x].category}])
    /\ Reads

\* The sort of the merged hits is stable and the articles come first; two hits
\* of one corpus tie in any order.
SortsBefore(x, y) ==
    \/ Relevance[x] > Relevance[y]
    \/ Relevance[x] = Relevance[y] /\ x \in ArticleIds /\ y \in Tickets

\* The n best of a set.
Best(S, n) ==
    {X \in SUBSET S : /\ Cardinality(X) = Lesser(n, Cardinality(S))
                      /\ \A x \in X, y \in S \ X : ~SortsBefore(y, x)}

\* Mutant: each corpus gives half of the hits.
PerSource_Half == Greater(req.limit \div 2, 0)
PerSource == Greater(req.limit, Overshoot)

SearchArticles ==
    /\ At("search", "articles")
    /\ \E hits \in Best({a \in With(Published) : req.category \in {NIL, article[a].category}},
                        PerSource) :
          Put([req EXCEPT !.hits = hits, !.pc = IF req.kind = "kb" THEN "done" ELSE "tickets"])
    /\ Reads

SearchTickets ==
    /\ At("search", "tickets")
    /\ \E hits \in Best({t \in Rows : /\ ticket[t].vec # NIL
                                      /\ req.category \in {NIL, Topic[t]}},
                        PerSource) :
          Put([req EXCEPT !.hits = @ \cup hits, !.pc = "done"])
    /\ Reads

\* hits[:limit] of the sorted hits: a negative limit drops from the end.
Trimmed(hits, n) ==
    Best(hits, IF n >= 0 THEN n ELSE Greater(0, Cardinality(hits) + n))

-----------------------------------------------------------------------------
(* POST /admin/reindex-tickets *)

ReindexTickets ==
    LET rows == {t \in Rows : ticket[t].vec = NIL} IN
    /\ req.pc = "idle"
    /\ rows # {}
    /\ Put([Idle EXCEPT !.op = "reindex", !.pc = "embed", !.rows = rows,
                        !.texts = {<<t, ticket[t].text>> : t \in rows}])
    /\ Reads

\* The rows that are left, once batch is done with.
NextBatch(batch) ==
    [req EXCEPT !.rows = @ \ batch, !.batch = {},
                !.pc = IF req.rows \subseteq batch THEN "done" ELSE "embed"]

\* Mutant: a failed batch ends the loop.
EmbedBatch_Break ==
    /\ At("reindex", "embed")
    /\ \E batch \in SUBSET req.rows :
          /\ Cardinality(batch) = Lesser(BatchSize, Cardinality(req.rows))
          /\ \/ Put([req EXCEPT !.pc = "commit", !.batch = batch]) /\ UNCHANGED faults
             \/ /\ faults < MaxFaults /\ faults' = faults + 1
                /\ Put([req EXCEPT !.failed = @ \cup batch, !.pc = "done"])
    /\ UNCHANGED <<tables, crossed, writes>>

\* The rows come in no order.  A batch that cannot be embedded is passed over.
EmbedBatch ==
    /\ At("reindex", "embed")
    /\ \E batch \in SUBSET req.rows :
          /\ Cardinality(batch) = Lesser(BatchSize, Cardinality(req.rows))
          /\ \/ Put([req EXCEPT !.pc = "commit", !.batch = batch]) /\ UNCHANGED faults
             \/ /\ faults < MaxFaults /\ faults' = faults + 1
                /\ Put([NextBatch(batch) EXCEPT !.failed = @ \cup batch])
    /\ UNCHANGED <<tables, crossed, writes>>

LoadedText(t) == CHOOSE v \in Version : <<t, v>> \in req.texts

\* Only the vectors are written, of the texts that were loaded; of rows that
\* are gone the driver may or may not complain.
CommitBatch ==
    LET there == req.batch \cap Rows IN
    /\ At("reindex", "commit")
    /\ \/ /\ ticket' = [t \in Tickets |->
                IF t \in there THEN [ticket[t] EXCEPT !.vec = LoadedText(t)] ELSE ticket[t]]
          /\ Put(NextBatch(req.batch))
       \/ /\ there # req.batch
          /\ Put(Idle)
          /\ UNCHANGED ticket
    /\ UNCHANGED <<article, drafting, notes, crossed, writes, faults>>

Answer ==
    /\ req.pc = "done"
    /\ Put(Idle)
    /\ Reads

-----------------------------------------------------------------------------
(* Specification *)

Init ==
    /\ article = [a \in ArticleIds |-> NoArticle]
    /\ ticket = [t \in Tickets |->
          IF t \in Legacy THEN [NoRow EXCEPT !.decision = "SKIPPED", !.text = 1] ELSE NoRow]
    /\ drafting = [t \in Tickets |-> NIL]
    /\ notes = [t \in Tickets |-> 1]
    /\ req = Idle
    /\ crossed = {}
    /\ writes = 0 /\ faults = 0

Read ==
    \/ Stats \/ CountDrafts
    \/ Topics \/ ReadTopics
    \/ Search \/ SearchArticles \/ SearchTickets
    \/ ReindexTickets \/ EmbedBatch \/ CommitBatch
    \/ Answer

Next == Write \/ Read
Spec == Init /\ [][Next]_vars

-----------------------------------------------------------------------------
(* Properties *)

\* The dashboard's three counts are of three moments, yet no article that is
\* in the workflow throughout is missing from all of them, unless a request
\* that was accepted earlier puts it back meanwhile: PUSHED to APPROVED between
\* the second count and the third is in none.
StatsMissNothing ==
    At("stats", "done") => req.counted >= Cardinality(req.live)

\* A topic is not shown as a gap when it has a draft that was there when its
\* ticket's row was read, however shortly before, and that was neither rejected
\* nor deleted meanwhile: the articles are read after the tickets.
DraftedTopicsAreNoGaps ==
    At("topics", "done") =>
        \A a \in req.live, t \in req.rows :
            Topic[t] = article[a].category => kb_status(Topic[t]) # "gap"

\* The search finds the best of both corpora: what may be found from its
\* start to its end is a hit, unless limit others are at least as relevant.
SearchFindsTheBest ==
    At("search", "done") /\ req.limit >= 0 =>
        \A hits \in Trimmed(req.hits, req.limit) :
            \A x \in req.live \ hits :
                /\ Cardinality(hits) = req.limit
                /\ \A y \in hits : Relevance[y] >= Relevance[x]

\* The vector of a row is of the row's text, unless a poll recorded the row
\* anew while a backfill had loaded it.
VectorsMatchTexts ==
    \A t \in Rows \ crossed : ticket[t].vec \in {NIL, ticket[t].text}

\* A backfill that ends has embedded every row it loaded that is still there,
\* but for the batches that failed.
BackfillIsComplete ==
    At("reindex", "done") =>
        \A x \in req.texts :
            x[1] \in Rows /\ ticket[x[1]].vec = NIL => x[1] \in req.failed \cup crossed
=============================================================================
