# kbgen in TLA+

kbgen turns resolved ITSM tickets into knowledge-base articles: a poll cycle
decides for every resolved ticket whether an existing article covers it, drafts
an article when none does, and reviewers edit, approve and push the drafts to
the ITSM. It is one asyncio process (FastAPI and APScheduler) over Postgres
with pgvector, an ITSM reached by HTTP, and OpenAI.

These modules model the parts of it in which order matters: what happens
between two `await`s is a step, and everything else may happen in between.

## The system

| Component | State | Operations | Source |
|---|---|---|---|
| Generation pipeline | none of its own; holds a ticket and its row across awaits | `run_cycle`, `generate_for_ticket_id`, `process_ticket`, `check_duplicate` | `src/src/pipeline/generate.py`, `dedup.py`, `src/src/api/pipeline.py`, `src/src/scheduler.py` |
| Gap drafting | the same | `draft_for_gap`, `fetch_neighbours` | `src/src/api/tickets.py`, `src/src/retrieval/neighbours.py` |
| Ticket ledger | `kb.processed_ticket`, one row per ticket | `get`, `record` | `src/src/storage/tickets.py` |
| Review workflow | `kb.article.status` and the text | edit, approve, reject, push | `src/src/api/drafts.py` |
| Push | `kb.push_log`, `itsm_kb_id`, the ITSM's items and links | `push_draft` | `src/src/pipeline/push.py` |
| Import | articles of the ITSM | `import_from_itsm`, `upsert_imported` | `src/src/pipeline/importer.py`, `src/src/storage/articles.py` |
| Indexer and chunker | `kb.chunk` | `index_article`, `chunk_article` | `src/src/indexing/` |
| Retrieval | none | dedup, neighbour and `/search` queries | `src/src/retrieval/` |
| Admin | all tables | reset, relink, reindex, seed | `src/src/api/admin.py` |
| ITSM adapters | the ITSM's tickets, items, links; a cache of category names | list page by page, get, create, link | `src/src/itsm/` |
| Application, bootstrap | the scheduler, the first-boot seeding | `lifespan`, `run_bootstrap` | `src/src/main.py`, `bootstrap.py` |
| Seeding script, fixture packs | the next pack's number | purge, seed, `next_pack` | `src/scripts/seed_glpi_healthcare.py`, `src/src/demo/` |
| Settings and health score | `kb.settings`, one row | `PATCH /settings`, `score` | `src/src/api/settings.py`, `src/src/scoring/` |
| Read models | none | `/stats`, `/topics`, `/search` | `src/src/api/`, `src/src/retrieval/searcher.py` |
| Review console | cached queries, an unsaved edit | approve-then-push, save, reject | `src/ui/src/` |
| LLM client | none | embed, generate | `src/src/llm/` |

How they interact:

* The scheduler's job and the HTTP handlers run in one event loop, each with a
  database session of its own (`get_session`, `_poll_job`). `max_instances=1`
  keeps two *scheduled* cycles apart; nothing keeps a cycle apart from
  `/poll/run`, `/generate`, `/gap-draft` or a push.
* They share the tables. Postgres runs at READ COMMITTED, no handler locks a
  row, and a session writes only the columns whose value differs from the one
  it loaded (`expire_on_commit=False`, the identity map). So a handler acts on
  what it read several awaits ago, and its commit is mixed with what others
  committed since.
* The pipeline reads the articles the review workflow changes (a `REJECTED`
  article leaves the dedup search), and a push reads the rows the pipeline
  writes (the tickets whose row names the article).
* The draft, its chunks and its ticket's row are three commits; the ITSM item,
  the article's status, its chunks and the links are four effects.
* The bootstrap is a task of the same process and seeds GLPI while the scheduler
  already polls it; a ticket is created by three calls, and a poll reads GLPI in
  pages, one call each.
* The console decides on a cached copy what it offers, the server on the row it
  has loaded, and neither knows which version the other saw.
* A handler loads the settings row once and uses it across its calls of the
  models; a `PATCH` may commit in between.

What is hard here: overlapping sessions on one ticket or one article, stale
reads, a crash or a failed call between two of several commits, a lost answer
of the ITSM followed by a retry, a reset under a running cycle, and the
obligation that every ticket is decided in the end. `PROJECT.json` lists these
hazards at the lines where they bite, each with the properties that watch it.

## The modules

### TicketPipeline

The ledger's life of a ticket: `itsm` (the ITSM's tickets), `article`, `indexed`
(articles with chunks), `pt` (`kb.processed_ticket`), and `sess`, what each
session holds in memory. A session is the scheduler's or a request's; its `pc`
names the await it has reached:

    next -> embed -> record -> commit            thin notes, or covered
    next -> embed -> generate -> index -> record -> commit
    ground -> generate -> index -> record -> commit      gap-draft

* `BeginTicket` keeps the row it read in `loaded`; `RecordRead` selects it again
  (and gets the same object back unless there was none); `RecordCommit` merges
  the columns (`Merged`), or fails on a key (`FlushSucceeds`) and leaves the
  session unusable for the rest of its cycle (`Poisoned`).
* `CheckDuplicate` runs the LIMIT 2 query with its ties (`TopHits`), removes the
  ticket's own drafts (`Candidates`) and compares with the threshold.
* `CallFails` is an embedding or a generation that fails for good, `Crash` the
  end of the process, `ResetState` is `/admin/reset`, `RejectDraft` a reviewer.
* Similarity is a rank, `Relevance[t, u]`, of ticket t against the articles
  written from ticket u; texts and vectors are not modelled. The four statuses
  the dedup search treats alike are one (`DRAFT`).

### DraftReview and ArticleLifecycle

The life of an article once it exists. A request loads the article (`seen`),
computes what it assigns (`want`), and commits the difference; `push_draft` is
`PushDraft`, `CreateKbDraft` (or its failure, before or after the ITSM created
the item), `CommitPush`, `Refresh`, `IndexArticle`, `LinkTickets`;
`import_from_itsm` is `ImportFromItsm` and, per item, `ReadByKbId`,
`UpdateImported` or `InsertImported`, `Refresh`, `IndexArticle`. `RecordTicket`
stands for the pipeline: it writes a row whose `matched_article_id` is the article
that covers the ticket or, for a ticket that gets a draft, the closest one that
does not; a push links either (`LinkTargets`). `EditInItsm` stands for people who
edit any item in the ITSM, published ones included. `by` and `had` of an item
(the article it was created for, its wordings so far) and `late` of a row (its
article was published already) are history that only the properties read.

`ArticleLifecycle` says what the workflow promises of a status alone;
`LifeSpec` is the claim that DraftReview implements it.

### ReviewConsole

`EXTENDS DraftReview`: the browser over the server's handlers. A tab has its
panel, the cached copy, the text in the editor and whether it is dirty; `calls`
says which mutation each server session was started for and what its answer is.
`SaveEdits`, `Reject` and `ApproveAndPush` are the buttons, guarded by the copy
and by `isPending` as the component guards them; `Handle` lets a step of
DraftReview run; `Saved`, `Approved`, `Finished` and `Failed` are the callbacks,
of which `Approved` sends the push of the chain. A button's `isPending` is that
of the mutation its present mount sent last: a panel that was closed and opened
again does not see what an earlier mount sends (`mounted`, `observed`).
`Dropped` is an answer for a tab that has gone, `AnswerLost` one that never
comes. A copy may arrive at any time (`CopyArrives`), so one tab stands for tabs
with copies of every age; an invalidation only makes a copy come sooner and is
not a step.

### Glpi and Seeding

`Glpi` is the adapter's reading side over GLPI's rows: `_paginate` one page a
step, the hydration of each ticket of a page, `get_ticket`. `Seeding` EXTENDS it
with everything that writes tickets: the bootstrap (inventory, then the script's
body if it found none), the script on the command line (with its purge), and
`/admin/seed-demo` with `create_resolved_ticket`, whose three calls are
`CreateTicket`, `PostSolution`, `CloseTicket`. Every call has four outcomes
(`Outcome`): success, an error status, a failure before GLPI saw it, and a call
that was carried out though its answer was lost. `seen` and `shifts` are
history: the rows a walk should find, and how many were purged under it.

### ReadModels

The dashboard's counts, the topics, the search and the backfill of vectors, one
query or commit a step, over the two tables they read. The writers are the
commits of TicketPipeline and DraftReview (`Write`), each any number of times
between two queries; with `Over` a request that was accepted earlier puts its
status over a publication or a rejection, as overlapping sessions of DraftReview
do. `live` is the history of a request: what was in place at its start (for the
topics: the drafts that were there when the tickets' rows were read) and has
been ever since; an article that a stale commit puts back in the workflow leaves
it for the counts. `crossed` are the rows recorded while a backfill had them loaded.

### Chunker

`chunk_article` as a state machine over token positions, one loop iteration a
step. A chunk is the window it was cut from and its token count.

### Scoring

The settings row, `score()` in whole percents, and the judgement of one ticket
by `process_ticket` or `draft_for_gap`, with a `PATCH` at each await. Of the
row's columns four are read by the program; the others are only shown. `x or d`
is `Or`: a zero counts as missing. A weight may be missing (`NIL`) or given as
something that cannot be multiplied (`NaN`: `PATCH` takes any dict); the latter
raises in `score` and fails the ticket (`NoScore`).

### Indexer and AtomicIndex

`index_article` from the reading of the text to the commit: `Begin`,
`SelectExisting`, one `EmbedBatch` or `EmbedFails` per request to the model,
`StartDelete` and `FinishDelete` (the DELETE takes what was committed when it
started and waits for whoever deleted it already), `InsertChunks` (waits, or
fails on `uq_chunk_article_idx`), `CommitChunks`. Any number of calls may work
on one article. Rows carry no id: when a call commits, the rows it deleted leave
the set the others wait to delete (`dead`). `AtomicIndex` is what the handlers
count on: a call replaces the chunks in one step or not at all. TicketPipeline
and DraftReview take that step for it.

### MC and proof modules

`MCTicketPipeline`, `MCDraftReview`, `MCReviewConsole`, `MCIndexer`,
`MCChunker`, `MCSeeding` and `MCReadModels` give the constants that a .cfg cannot
write. `MCChunker` also joins `Scoring`, the other part that only computes: a
behaviour is the one's or the other's. The modules named
`...Proofs` hold the theorems about the module they are named for;
`ReviewConsoleProofs` builds on `DraftReviewProofs` as `ReviewConsole` does on
`DraftReview`.

## What the runs show

| Run | Instance | Result |
|---|---|---|
| `pipeline_serial` | 2 similar tickets, 1 imported article, 4 ids, one session at a time, 1 failure, 1 reset; 483 k states | `OrphansNeedFaults`, `OneMasterPerTopic`, `DecidedIsFinal` hold |
| `pipeline_live` | 1 ticket, the scheduler and a request at once, 1 failure, 5 ids; 357 k states | `TypeOK`, `NoSelfCover`, `DraftIsOwnAndIndexed`, `FullTicketsDecided`, `ThinTicketsFlagged` hold |
| `pipeline_one_master` | 2 tickets, two sessions | `OneMasterPerTopic` fails |
| `review_serial` | 1 draft, 1 foreign item, 3 item ids, 2 tickets of which 1 gets a row meanwhile, 2 wordings, one request at a time, 1 failure; 5.1 M states | `LostItemsNeedFaults`, `MissingLinksNeedFaults`, `PushedTextPublished`, `PushedIndexFresh`, `LifeSpec` hold |
| `review_overlap` | 1 draft, 2 article ids, 2 item ids, 1 ticket, two requests at once; 3.9 M states | `TypeOK`, `PublishedHaveItems`, `PushesLeaveTraces` hold |
| `review_drafted_links` | 1 draft, 2 tickets, 2 item ids, one request at a time | `LinksAreAnswers` fails |
| `console` | 1 article, 1 tab, two requests at once, 3 clicks, 1 fault, 2 wordings, 3 item ids; 1.1 M states | `ConsoleTypeOK`, `SequentialClicksPublishOnce`, `ApprovalPublishes`, `UnsavedEditsSurvive` hold |
| `console_double_click` | no fault, 2 clicks | `OneItem` fails |
| `index_overlap` | 1 article, 3 texts that share chunks, two calls at once, batches of 2, 2 attempts; 30 k states | `TypeOK`, `EmbeddingsMatch`, `IndexedAtomically`, `IndexingsEnd` hold |
| `chunker` | up to 16 tokens, windows of 0 to 5, overlaps of -1 to 5, titles of 0 and 2; 8 rows of settings, 108 tickets; 114 k states | `NothingCut`, `EachChunkAdds`, `ScoringTypeOK`, `JudgedByOneRow`, `FullerNotesNeverHurt` hold |
| `seeding` | a seeding of 2 tickets and 1 article, a pack of 2, pages of 2, a cap of 3 rows, 1 failure or crash, 1 demo or script, two calls in flight; 788 k states | `WalkNeverRepeats`, `WalkMissesOnlyPurged`, `HollowNotesNeedFaults`, `BootstrapSeedsOnce`, `CategoryCopiesBounded`, `FirstBootSeeds` hold |
| `reads` | 2 articles, 2 tickets of one topic, drafts of two categories, one ticket recorded before vectors, limits of 1 and 2, an overshoot of 1, batches of 1, 4 commits of writers, 1 failure; 2.5 M states | `StatsMissNothing`, `DraftedTopicsAreNoGaps`, `SearchFindsTheBest`, `VectorsMatchTexts`, `BackfillIsComplete` hold |

Some properties that fail with two sessions hold with one: the serial runs check
`OneMasterPerTopic`, and `LifeSpec`, which implies `FinalStatus`. Each failing
run is a disagreement of the code with a comment or a message of its own, quoted
under `findings`:

* two tickets of a topic that are processed at once both get a draft
  (`dedup.py:30`);
* a push is linked to tickets that the article does not answer: the rows of
  drafted tickets name the closest article below the threshold, and the query for
  the links does not look at the decision (`push.py:77`, `admin.py:68`);
* a double click on *Approve & Push* publishes an article twice: the button
  is disabled while a push is pending, not while the approval before it is, and
  the second approval may be read before the first commits.

The modelling turned up more that a reader should know of; these have no run of
their own:

* With two sessions `DecidedIsFinal` fails too: a cycle that fetched a ticket
  with thin notes overwrites the decision of a request that saw them completed
  (`generate.py:42`).
* Two clicks on a gap give two drafts, because the check of `tickets.py:91` is
  made long before the commit.
* A ticket that is covered by an article already published is linked only by
  the next `/admin/relink-kb` (`push.py:77`); `MissingLinksNeedFaults` is about
  the tickets that were recorded before the publication.
* A rejection that is committed while a push waits for the ITSM is overwritten and
  the rejected article published (`push.py:69`), although the panel says "no
  further action from here" (`DraftReviewPanel.tsx:57`): with two sessions
  `FinalStatus` fails.
* The banner on a published article tells its reviewers to "reject this draft to
  archive it" (`DraftReviewPanel.tsx:192`). The server refuses every rejection of a
  published article (`drafts.py:198`), the panel disables the button, and its
  tooltip says "no further action from here". `ArticleLifecycle` follows the
  server.
* The wording kbgen shows for a published article may differ from its item's: the
  banner (`DraftReviewPanel.tsx:191`) sends reviewers to edit the ITSM's record,
  which kbgen sees at the next import only. `PushedTextPublished` says that what
  kbgen shows is a wording the item has had.
* An edit or an approval that was accepted before a publication or a rejection and
  is committed after it puts the status back to `EDITED` or `APPROVED`
  (`drafts.py:166`, `:182`); the article may then be published a second time.
  `ApprovalPublishes` therefore promises a publication that lasts only when
  mutations took turns, and `StatsMissNothing` leaves out the articles that are
  put back between two counts.
* `api/drafts.py:118` excludes a draft's own ticket from its coverage; by
  `NoSelfCover` it is never there.
* *Approve & Push* whose push fails, or whose tab is closed between its two calls,
  leaves the article `APPROVED`. `Workspace.tsx:45` calls that "ready to push", but
  the button approves first, which is refused (`drafts.py:180`), and saving an edit
  changes nothing (`drafts.py:166` turns only `DRAFT` into `EDITED`): the console
  can only reject the article. `ApprovalPublishes` speaks of runs without a fault.
* The button pushes what is saved, not what is typed; what is typed while a save
  is on its way is shown as saved; a push or a rejection that finishes closes
  whatever panel is open by then.
* "Second boot is a no-op" (`bootstrap.py`) also holds of a boot that died half
  way: one resolved ticket is taken for a complete seeding, and if it died
  before the first, its articles are created again (`BootstrapSeedsOnce` allows
  one more per fault).
* A demo ticket whose fixture has no notes gets an empty solution, and the
  pipeline flags it as a gap; the bootstrap's tickets that lose their second call
  are closed all the same and look alike.
* The purge of the script repeats for as long as GLPI refuses a deletion.
* `coverage_percent` divides articles by tickets and can exceed 100, and it
  counts `PUSHED` only. A draft's category is the model's, a ticket's topic the
  ITSM's: when they differ, the drafted topic is shown as a gap.
* A negative `limit` of `/search` slices from the end; a `batch_size` of 0 is an
  error and a negative one embeds nothing and says so to nobody.
* A backfill may overwrite the vector of a row that was recorded meanwhile with
  one of its old text, and no later backfill repairs it, since it looks for
  missing vectors only (`VectorsMatchTexts` excludes `crossed`).
* A `0` in `min_resolution_chars` or `thinness_threshold_chars` means the
  default; a `null` `dedup_threshold` fails every ticket until the next PATCH, a
  `null` weight in `score_weights` every ticket that is to be drafted;
  of the settings that `config.py:30` calls overridable at runtime only four are
  read after start.

Bounds. Every one is a constant of a .cfg or of an MC module. Two sessions are
enough for each read-then-commit race the code has: they are between one handler
and one other. Two tickets are one topic with a master and a sibling.
`ArticleIds` allows one draft per ticket and one or two more; a generation that
finds no unused id ends as a failed one does. `MaxFaults = 1` puts a failure or
a crash at any step once, `MaxResets = 1` a reset; the properties that count
(`OrphansNeedFaults`, `LostItemsNeedFaults`, `MissingLinksNeedFaults`,
`PushedIndexFresh`, `SequentialClicksPublishOnce`, `HollowNotesNeedFaults`,
`BootstrapSeedsOnce`, `CategoryCopiesBounded`) compare with what happened, not
with the bound. `pipeline_live` has one ticket and no reset, which would use up
the ids; that its three invariants hold with any number of tickets and resets is
proved. In `review_serial` the second article id goes to the foreign item or to
the item a lost answer left behind, whichever the import lists first. Its
`MaxRows = 1` lets the pipeline record one of the two tickets, the draft's own
or the other, while the run lasts. Three clicks in `console` are a click, its
retry and one that competes with it. A page of 2 rows with a cap of 3 puts the
cap inside the second page, and both kinds of last page occur; calls that were
sent before a crash and reach GLPI after it are not modelled. Four commits in
`reads` are enough for one before a request and one between any two of its
queries. A chunker window of 5 tokens against 16 gives up to 16 chunks and every
remainder. The rows of settings hold zeros, negative numbers, NULLs, and weights
that are partial, unbalanced, negative and null; two rows in force during one
job are the one it loaded and another.

The code's batch is 100 texts and its attempts 3; 2 and 2 already give a full
batch followed by a short one, and a retry that succeeds and one that does not.
The code's pages are of 200 rows and its cap 2000.

Fairness in `pipeline_live`: `WF(RunCycle(Scheduler))`: the interval trigger
of `scheduler.py` fires again and again, and `max_instances=1` skips it only
while the job runs. `WF(Step(p))`: asyncio resumes every handler whose await is
done, and the clients have timeouts, so a call ends in an answer or an error.
No fairness is assumed of people, requests, faults or resets.
`MaxConcurrent = 2` is the number of sessions, so it never holds the scheduler
back.

In `index_overlap`, `WF(Step(p))` is the same claim about the event loop,
and strong fairness of `FinishDelete` and `InsertChunks` says that PostgreSQL
wakes whoever waits for a transaction whenever one ends, and does not let the same
call lose that race for ever. In `console`, `WF(Handle(p) \/ Answer(p))`: the
server's handlers run on and a response that was sent arrives, unless the fault
budget loses it; nothing is assumed of the reviewer. In `seeding`, `WF(Start)`
and `WF(Step(Boot))`: the container is restarted and the bootstrap task runs on;
nothing is assumed of polls, demos or scripts. Deadlock is checked in every run.

## What is proved

For every value of the constants, under the assumptions the modules name:

* `TypeCorrect`, `NeverSelfCovered`, `DraftsFound` (TicketPipelineProofs):
  `TypeOK`, `NoSelfCover` and `DraftIsOwnAndIndexed` are invariants of `Spec`.
  Neither of the last two is inductive: they speak of committed rows, while a
  session commits what it planned several awaits earlier. `IInv` adds
  `MatchOK` (a match is with an article that exists, or existed, and was written
  from another ticket) for the rows and, for every session, `PlanOK`: the
  article a plan drafts was written from the ticket in hand, and once the plan
  is past indexing it has chunks unless a reset removed it. The merge of two
  rows keeps both, since each column comes from one of them. One lemma per
  group of actions; the flush is a lemma of its own.
* `ReviewTypeCorrect`, `PublishedExist` (DraftReviewProofs): `TypeOK` and
  `PublishedHaveItems` are invariants of `Spec`, with any number of requests,
  failures and crashes. What a request commits was decided before its last
  awaits, so `IInv` adds `SessOK`, what a session may rely on meanwhile: a
  review or an update by the import does not touch the item and never
  publishes (`KeepsItem`); a push that waits to commit holds an item that was
  created and differs from the one its row had, so the flush does write it; a
  push past its commit is in the log. No step takes an item or a log entry
  away (`Grow`), which is why the others' steps do not disturb a session
  (`SessKept`), and a commit changes one row (`RowChange`). One lemma per group
  of actions.
* `PushesTraced` (DraftReviewProofs): `PushesLeaveTraces`, with any number of
  overlapping requests. Only the pipeline's drafts are
  ever pushed, so `TraceInv` adds that an imported row keeps the item it was
  inserted for and that the item of a draft is in the log (`RowTraced`), whatever
  the sessions hold (`TraceHeld`). The commit of a push fails only when an import has
  inserted a row for the item, which is then its trace.
* `DecidedFinal`, `OrphansPaidFor`, `OneMaster` (TicketPipelineProofs): if
  `MaxConcurrent = 1`, `DecidedIsFinal` and `OrphansNeedFaults` hold, and
  `OneMasterPerTopic` does while `faults <= 1`, with any number of tickets,
  resets and rejections. `SerialInv` says that the one session at work knows its
  row as it is. Orphans are counted together with the draft that is about to
  become one, so that each is paid for when it is left behind. For one master
  the search must show the sibling's master to a ticket before it is drafted;
  it looks at two hits and drops the ticket's own drafts afterwards, so one own
  orphan leaves room for the master and two do not. The bound is sharp: with
  two crashes while a gap is drafted, TLC finds a topic with two masters. That
  is the hazard of `dedup.py:33`, not a defect of the proof.
* `LifeImplemented`, `FinalWhenAlone` (DraftReviewProofs): if `MaxConcurrent = 1`,
  DraftReview implements `ArticleLifecycle` under the map that keeps the status
  of every row, and `FinalStatus` holds. `Solo` says that at most one session is
  active and that the row it read (`seen`) is still the row it will commit to, so
  the status its guard tested is the one it changes; only the four commits write
  rows, and each makes an `Allowed` change. With two requests
  `FinalStatus` fails, as told above.
* `PublishedAsShown`, `ItemsPaidFor`, `IndexPaidFor`, `LinksPaidFor`
  (DraftReviewProofs): if `MaxConcurrent = 1`, `PushedTextPublished`,
  `LostItemsNeedFaults`, `PushedIndexFresh` and `MissingLinksNeedFaults` hold,
  imports, edits in the ITSM, failures and crashes included. `SerialInv` adds that
  what an import has listed or is about to write are wordings their items have
  had, that an item is lost, an index stale or a link missing only once its
  failure was counted, and that a request in hand accounts for at most the one it
  is about to make good. A push that is over has linked every ticket whose row
  names its article; a row recorded later is `late`.
* `ConsoleTypeCorrect`, `TurnsPublishOnce`, `TypedTextSurvives`,
  `ConsolePublishes` (ReviewConsoleProofs): `ConsoleTypeOK`,
  `SequentialClicksPublishOnce` and `UnsavedEditsSurvive` hold for any number
  of tabs, copies, clicks and requests; and so does `PublishedHaveItems`, behind
  the console. The server's part of a step is a step
  of DraftReview, or a failure that the server does not see (`ServerSteps`), so
  the `IInv` of DraftReviewProofs is inherited. `TurnOK` holds until a mutation
  is sent while another is in hand: the handler at work has the row as it is, so
  an item is only created for an article that is not published, and the count of
  items stays within the failures, plus one once the article is `PUSHED` or
  about to be (`Paying`).
* `ReplacedAtomically` (IndexerProofs): Indexer implements `AtomicIndex`, with
  `handed` the article and text of a running call and `indexed` the text whose
  chunks an article's rows are. The invariant: a chunk set is that of one text
  (`Whole`); a waiting DELETE holds all of it or nothing; who is about to commit
  has deleted all of it (else the row with the first index would have clashed)
  and is alone. So the commit leaves exactly the new rows. The proof rests on
  what the module says of PostgreSQL's DELETE, INSERT and UNIQUE.
* `TypeCorrect`, `VectorsMatch` (IndexerProofs): `TypeOK` and
  `EmbeddingsMatch` for any texts, batch size, attempts and overlapping calls.
  `ToEmbed` is the list of the new chunks by rank; `Ranks` shows that the ranks
  in a finite set of n numbers are 0 to n - 1, each once (a rank is an injection
  between sets of one size), hence `ToEmbedFacts`. A call's vectors are those of
  a prefix of that list (`Prefix`), the whole of it when it deletes (`VecOK`), so
  `VectorRight`: a chunk finds its own vector, among the new or the old ones.
* `NothingIsCut`, `ChunksAdvance` (ChunkerProofs): `NothingCut` and
  `EachChunkAdds` for every length, window and overlap. `IInv` says of the loop
  that every position before `i` is done and that the last chunk ends where the
  next window's overlap does.
* `ScoresAreShares`, `OneRowJudges` (ScoringProofs): `ScoringTypeOK`, which
  says that every score is a share, and `JudgedByOneRow`, for any thresholds,
  weights, tickets and number of PATCHes. The invariant ties a job to what its
  row has already decided (thin notes, a cover) at the await it has reached, and
  says that its row is in `inForce`. A row whose weights cannot be multiplied
  gives no score (`Scorable`).
* `FullerNotesPay` (ScoringProofs): `FullerNotesNeverHurt`. `QuotientOrder` says
  that a quotient grows with its dividend, by which the penalty of thin notes
  falls with their length (`PenaltyFalls`) and the clipped sum rises
  (`OverallRises`); the thresholds may be anything, the weights must not be
  negative.
* `TypeCorrect`, `StatsComplete`, `NoFalseGaps`, `SearchSound`, `VectorsSound`,
  `BackfillEnds` (ReadModelsProofs): every invariant of `reads`, for any tables,
  limits, batches and number of commits between two queries. `LiveInv` keeps
  what was in place since the request began to what is in place; `StatsInv`
  counts the live articles with a status that was counted already: only a commit
  of `Backward` takes one out of them, and the article then leaves `live`;
  `SearchInv` says of each corpus that the hits are its best (`BestOf`), from
  which the cut list is the best of both; `BackfillInv` says which rows are
  embedded, failed, crossed or still to do. The ids are assumed to be finitely
  many (`ReadAssumption`): a count of rows has no meaning otherwise.
* `NeverTwice`, `MissesPaidFor`, `CategoriesBounded`, `HollowPaidFor`,
  `SeedsOnce` (SeedingProofs): every invariant of `seeding`, for any page size,
  cap, fixtures and callers. `WalkInv` says that GLPI's lists ascend
  (`StoreOK`) and of each walk that every id it has met is below every id it has
  yet to ask for (`InOrder`, for what it hands over is then new) and that what it
  should find is met, still ahead, or counted in `shifts` (`Thorough`). An
  appended row gets the largest id; a purged one moves one row at most past the
  walk's place (`PurgeOK`). `Control` says which job may be where, so that the
  writers disturb no walk. `CategoryInv` adds the callers that are about to
  create a category (`Pending`) to those that did: none is added once it exists.
  `NotesInv` counts, beside what a walk handed over, the tickets that are
  resolved or about to be closed without their notes (`Bare`) and the rows of
  its page that were purged (`Gone`): a failed call adds one to the first, a
  purge one to the second. It needs that the fixtures' titles differ
  (`TitleAssumption`, true of every pack).
  `SeedInv` says that, as long as the bootstrap does not seed, a ticket of it is
  resolved or the articles of the next seeding are paid for (`BootOK`), that what
  a running one has in hand is not there yet (`Unseeded`), and that an empty
  inventory is the truth. The last needs that open tickets, which faults leave
  behind (`Lost`, one for each caller when the process ends), do not fill the
  listing: `SeedsOnce` assumes `MaxTotal > MaxFaults * (1 + Cardinality(Admin))`.
  The cap is 2000 in the code, and `seeding` meets it (3 > 2). Some such bound is
  needed: with a cap of one row and two faults TLC finds a boot that sees only an
  abandoned ticket and seeds again.

Every inductive invariant was checked by TLC as an invariant, with up to two
faults, before it was proved. Chunker's `TypeOK` is a part of its `IInv`.

Only model-checked: the liveness properties (`FullTicketsDecided`,
`ThinTicketsFlagged`, `IndexingsEnd`, `ApprovalPublishes`, `FirstBootSeeds`),
which the prover cannot do. `TypeOK` of Seeding documents its variables; it
holds on the instance of `seeding`, whose budget goes to the other properties.

## What is not modelled, and the plan

In this order:

1. The composition of TicketPipeline and DraftReview: a rejected master, whose
   covered tickets stay `COVERED` for good (`generate.py:45`), and covered
   tickets and their links.
2. `TicketLedger`, the abstract life of a ticket's row (undecided, gap, decided),
   implemented by TicketPipeline with one session; proved there.

Left out: the pings of `/health`; the listings of drafts and tickets (one query
each); the OpenAI client, which is an answer or a failure in the other modules,
and the wording of its prompts; the in-memory mock of the ITSM; GLPI's login, and
`search_kb`, which nothing calls; HTML and markdown layout, logging, migrations
(their result is the schema the modules use), and the UI's pages that only show.
