-------------------------------- MODULE Seeding --------------------------------
(***************************************************************************)
(* Everything of kbgen that writes tickets into GLPI, beside the polls     *)
(* and imports that list them:                                             *)
(*                                                                         *)
(*   - the bootstrap, started with the process and not waited for: it      *)
(*     lists the resolved tickets and, if there are none, runs the body    *)
(*     of scripts/seed_glpi_healthcare.py (bootstrap.py);                  *)
(*   - that script on the command line, which purges GLPI first;           *)
(*   - POST /admin/seed-demo, which drops the next fixture pack            *)
(*     (api/admin.py, demo/ticket_fixtures.py) with the adapter's          *)
(*     create_resolved_ticket.                                             *)
(*                                                                         *)
(* A ticket takes three calls: created, given a solution, closed.          *)
(*                                                                         *)
(* Abstractions: a fixture is a name, a category and whether it has        *)
(* resolution notes; every category fits the one page that is listed; the  *)
(* closing dates are left out.                                             *)
(***************************************************************************)
EXTENDS Glpi

CONSTANTS
    Boot,          \* the caller of the bootstrap task
    Poll,          \* the caller of the scheduler's and the importer's walks
    Admin,         \* callers of /admin/seed-demo
    Cli,           \* the script on the command line, a process of its own
    SeedTickets,   \* build_tickets: the script's tickets, in order
    KbArticles,    \* names of the script's articles, in order
    Packs,         \* the fixture packs, each a sequence of tickets
    Categories,
    MaxWrites,     \* bound: calls of /admin/seed-demo and runs of the script
    MaxInFlight    \* bound: calls in flight at once

Fixture == [name : Names, category : Categories, notes : Text]

ASSUME CallerAssumption ==
    /\ Callers = {Boot, Poll, Cli} \cup Admin
    /\ Boot # Poll /\ Boot # Cli /\ Poll # Cli
    /\ Admin \cap {Boot, Poll, Cli} = {}
    /\ IsFiniteSet(Admin)
ASSUME FixtureAssumption ==
    /\ SeedTickets \in Seq(Fixture) \ {<<>>}
    /\ KbArticles \in Seq(Names) \ {<<>>}
    /\ Packs \in Seq(Seq(Fixture) \ {<<>>}) \ {<<>>}

Fixtures ==
    {SeedTickets[i] : i \in DOMAIN SeedTickets}
        \cup UNION {{Packs[p][i] : i \in DOMAIN Packs[p]} : p \in DOMAIN Packs}
\* No two tickets and no two articles have the same title.
ASSUME TitleAssumption ==
    /\ \A f, g \in Fixtures : f.name = g.name => f = g
    /\ \A i, j \in DOMAIN SeedTickets : SeedTickets[i] = SeedTickets[j] => i = j
    /\ \A p \in DOMAIN Packs : \A i \in DOMAIN Packs[p], j \in DOMAIN SeedTickets :
          Packs[p][i] # SeedTickets[j]
    /\ \A i, j \in DOMAIN KbArticles : KbArticles[i] = KbArticles[j] => i = j

VARIABLES
    categories,  \* how many ITIL categories of each name GLPI has
    cat_cache,   \* the names in the adapter's _cat_cache
    call_count,  \* calls of next_pack in this process
    up,          \* the process runs, and has started its bootstrap
    nextId,      \* the id GLPI gives out next
    demos, scripts

seedVars == <<categories, cat_cache, call_count, up, nextId, demos, scripts>>
vars == <<glpi, calls, faults, seedVars>>

Session == [pc : Pc, job : Job, endpoint : Endpoint,
            offset : Nat, page : SUBSET Row, short : BOOLEAN,
            out : Seq(Handed), seen : SUBSET Nat, shifts : Nat,
            tickets : Seq(Fixture), articles : Seq(Names),
            missing : SUBSET Categories, tid : Nat]

TypeOK ==
    /\ glpi \in [Endpoint -> Seq(Row)]
    /\ calls \in [Callers -> Session]
    /\ \A c \in Callers :
          /\ calls[c].pc \in {"category", "ticket", "solution", "close"} =>
                calls[c].tickets # <<>>
          /\ calls[c].pc \in {"rows", "delete"} => calls[c].page # {}
    /\ faults \in 0 .. MaxFaults
    /\ categories \in [Categories -> Nat]
    /\ cat_cache \subseteq Categories
    /\ call_count \in Nat
    /\ up \in BOOLEAN
    /\ nextId \in Nat
    /\ demos \in Nat /\ scripts \in Nat

Free(c) ==
    /\ calls[c].pc = "idle"
    /\ Cardinality({d \in Callers : calls[d].pc # "idle"}) < MaxInFlight

-----------------------------------------------------------------------------
(* Callers of the walk *)

StartWalk(job, e) ==
    /\ up
    /\ Free(Poll)
    /\ Put(Poll, Walk(job, e))
    /\ UNCHANGED <<glpi, faults, seedVars>>
PollOrImport == StartWalk("poll", "Ticket") \/ StartWalk("import", "KnowbaseItem")
GetOneTicket(i) ==
    /\ up
    /\ Free(Poll)
    /\ GetTicket(Poll, i)
    /\ UNCHANGED seedVars
ContinueWalk(c) == WalkStep(c) /\ UNCHANGED seedVars

\* main: of the script, after the purge if there is one.
Script(job, pc) ==
    [Idle EXCEPT !.pc = pc, !.job = job,
                 !.tickets = SeedTickets, !.articles = KbArticles,
                 !.missing = {SeedTickets[i].category : i \in DOMAIN SeedTickets}]

\* Mutants: the inventory does not stop the seeding; an empty GLPI does.
AfterInventory_Inverted(s) == IF s.out # <<>> THEN Script("seed", "categories") ELSE Idle
AfterInventory_Seeds(s) == Script("seed", "categories")
\* Tickets are there: the bootstrap is skipped.
AfterInventory(s) == IF s.out = <<>> THEN Script("seed", "categories") ELSE Idle

Deliver(c) ==
    /\ calls[c].pc = "listed"
    /\ Put(c, IF calls[c].job = "inventory" THEN AfterInventory(calls[c]) ELSE Idle)
    /\ UNCHANGED <<glpi, faults, seedVars>>

-----------------------------------------------------------------------------
(* The process *)

Start ==
    /\ ~up
    /\ up' = TRUE
    /\ Put(Boot, Walk("inventory", "Ticket"))
    /\ UNCHANGED <<glpi, faults, categories, cat_cache, call_count, nextId,
                   demos, scripts>>

\* What the process keeps in memory is gone; the script's process goes on.
Crash ==
    /\ up
    /\ Charge("raised")
    /\ up' = FALSE
    /\ calls' = [c \in Callers |-> IF c = Cli THEN calls[c] ELSE Idle]
    /\ cat_cache' = {}
    /\ call_count' = 0
    /\ UNCHANGED <<glpi, categories, nextId, demos, scripts>>

next_pack == Packs[(call_count % Len(Packs)) + 1]

SeedDemo(c) ==
    /\ up
    /\ c \in Admin
    /\ demos + scripts < MaxWrites
    /\ Free(c)
    /\ Put(c, [Idle EXCEPT !.pc = "category", !.job = "demo", !.tickets = next_pack])
    /\ call_count' = call_count + 1
    /\ demos' = demos + 1
    /\ UNCHANGED <<glpi, faults, categories, cat_cache, up, nextId, scripts>>

RunScript ==
    /\ demos + scripts < MaxWrites
    /\ Free(Cli)
    /\ Put(Cli, Script("script", "purge"))
    /\ scripts' = scripts + 1
    /\ UNCHANGED <<glpi, faults, categories, cat_cache, call_count, up, nextId, demos>>

-----------------------------------------------------------------------------
(* _purge_all *)

\* Nothing more to purge here, or no listing: on to the articles, then on.
PurgeDone(s) ==
    IF s.endpoint = "Ticket"
    THEN [s EXCEPT !.pc = "purge", !.endpoint = "KnowbaseItem"]
    ELSE [s EXCEPT !.pc = "categories", !.endpoint = "Ticket"]

PurgeList(c) ==
    LET s == calls[c]
        all == glpi[s.endpoint]
        rows == SubSeq(all, 1, Lesser(PageSize, Len(all)))
    IN
    /\ s.pc = "purge"
    /\ \E o \in Outcome :
          /\ Charge(o)
          /\ Put(c, IF ~Answered(o) THEN Idle
                    ELSE IF o = "refused" \/ rows = <<>> THEN PurgeDone(s)
                    ELSE [s EXCEPT !.pc = "delete", !.page = Members(rows)])
    /\ UNCHANGED <<glpi, seedVars>>

\* Rows without the one with that id, if there is one.
Without(rows, id) ==
    IF id \in Ids(rows)
    THEN LET i == CHOOSE j \in DOMAIN rows : rows[j].id = id
         IN  SubSeq(rows, 1, i - 1) \o SubSeq(rows, i + 1, Len(rows))
    ELSE rows

\* The answer is not looked at: a row that stays is listed again.  A purged
\* row shifts the ones behind it under the walks that are on their way.
DeleteRow(c) ==
    LET s == calls[c]
        e == s.endpoint
        rest == [s EXCEPT !.page = @ \ {First(@)},
                          !.pc = IF s.page = {First(s.page)} THEN "purge" ELSE "delete"]
    IN
    /\ s.pc = "delete"
    /\ \E o \in Outcome :
          /\ Charge(o)
          /\ glpi' = IF Applied(o) THEN [glpi EXCEPT ![e] = Without(@, First(s.page).id)]
                                   ELSE glpi
          /\ calls' = [d \in Callers |->
                IF d = c THEN IF Answered(o) THEN rest ELSE Idle
                ELSE IF Applied(o) /\ calls[d].pc \in {"page", "rows"}
                        /\ calls[d].endpoint = e
                THEN [calls[d] EXCEPT !.shifts = @ + 1]
                ELSE calls[d]]
    /\ UNCHANGED seedVars

-----------------------------------------------------------------------------
(* Categories *)

\* Mutant: the categories that exist are not looked at.
Exists_Unlisted(k) == FALSE
Exists(k) == categories[k] > 0

\* _ensure_categories: the one listing of the script.
ListCategories(c) ==
    LET s == calls[c]
        missing == {k \in s.missing : ~Exists(k)} IN
    /\ s.pc = "categories"
    /\ \E o \in {"ok", "refused"} :
          /\ Charge(o)
          /\ Put(c, IF o = "ok"
                    THEN [s EXCEPT !.missing = missing,
                                   !.pc = IF missing = {} THEN "article" ELSE "newcategory"]
                    ELSE Idle)
    /\ UNCHANGED <<glpi, seedVars>>

\* _ensure_category_id, up to the creation: any failure leaves the ticket
\* without a category.
EnsureCategory(c) ==
    LET s == calls[c]
        k == Head(s.tickets).category IN
    /\ s.pc = "category"
    /\ \/ /\ k \in cat_cache
          /\ Put(c, [s EXCEPT !.pc = "ticket"])
          /\ UNCHANGED <<faults, cat_cache>>
       \/ /\ k \notin cat_cache
          /\ \E o \in {"ok", "refused"} :
                /\ Charge(o)
                /\ cat_cache' = IF o = "ok" /\ Exists(k) THEN cat_cache \cup {k} ELSE cat_cache
                /\ Put(c, IF o = "ok" /\ ~Exists(k)
                          THEN [s EXCEPT !.pc = "newcategory", !.missing = {k}]
                          ELSE [s EXCEPT !.pc = "ticket"])
    /\ UNCHANGED <<glpi, categories, call_count, up, nextId, demos, scripts>>

\* Both create a missing category the same way; only the adapter keeps its id
\* and swallows an exception.
CreateCategory(c, k) ==
    LET s == calls[c]
        rest == s.missing \ {k} IN
    /\ s.pc = "newcategory"
    /\ k \in s.missing
    /\ \E o \in Outcome :
          /\ Charge(o)
          /\ categories' = IF Applied(o) THEN [categories EXCEPT ![k] = @ + 1] ELSE categories
          /\ cat_cache' = IF o = "ok" /\ s.job = "demo" THEN cat_cache \cup {k} ELSE cat_cache
          /\ Put(c, CASE s.job = "demo" -> [s EXCEPT !.pc = "ticket", !.missing = {}]
                      [] s.job # "demo" /\ Answered(o) ->
                            [s EXCEPT !.missing = rest,
                                      !.pc = IF rest = {} THEN "article" ELSE "newcategory"]
                      [] OTHER -> Idle)
    /\ UNCHANGED <<glpi, call_count, up, nextId, demos, scripts>>

-----------------------------------------------------------------------------
(* Articles and tickets *)

NewRow(name, status) ==
    [id |-> nextId, name |-> name, status |-> status, solution |-> "none"]

\* The script gives up at the first article that fails.
CreateArticle(c) ==
    LET s == calls[c]
        rest == [s EXCEPT !.articles = Tail(@),
                          !.pc = IF Len(s.articles) = 1 THEN "ticket" ELSE "article"]
    IN
    /\ s.pc = "article"
    /\ \E o \in Outcome :
          /\ Charge(o)
          /\ glpi' = IF Applied(o)
                     THEN [glpi EXCEPT !["KnowbaseItem"] = Append(@, NewRow(Head(s.articles), 0))]
                     ELSE glpi
          /\ nextId' = IF Applied(o) THEN nextId + 1 ELSE nextId
          /\ Put(c, IF o = "ok" THEN rest ELSE Idle)
    /\ UNCHANGED <<categories, cat_cache, call_count, up, demos, scripts>>

\* The ticket in hand is done with.  The bootstrap ends with a second
\* inventory, which is only logged.
NextTicket(s) ==
    IF Len(s.tickets) > 1
    THEN [s EXCEPT !.tickets = Tail(@), !.tid = 0,
                   !.pc = IF s.job = "demo" THEN "category" ELSE "ticket"]
    ELSE IF s.job = "seed" THEN Walk("report", "Ticket") ELSE Idle

\* An exception: /admin/seed-demo notes it and takes the next ticket, the
\* script dies.
Raised(s) == IF s.job = "demo" THEN NextTicket(s) ELSE Idle

\* Mutant: a ticket is closed right after it was created.
AfterCreate_Close(s) == "close"
\* The adapter posts a solution whatever its text, the script only if it has one.
AfterCreate(s) ==
    IF s.job = "demo" \/ Head(s.tickets).notes = "given" THEN "solution" ELSE "close"

CreateTicket(c) ==
    LET s == calls[c] IN
    /\ s.pc = "ticket"
    /\ \E o \in Outcome :
          /\ Charge(o)
          /\ glpi' = IF Applied(o)
                     THEN [glpi EXCEPT !["Ticket"] =
                              Append(@, NewRow(Head(s.tickets).name, INCOMING))]
                     ELSE glpi
          /\ nextId' = IF Applied(o) THEN nextId + 1 ELSE nextId
          /\ Put(c, CASE o = "ok" -> [s EXCEPT !.pc = AfterCreate(s), !.tid = nextId]
                      [] o = "refused" -> NextTicket(s)
                      [] OTHER -> Raised(s))
    /\ UNCHANGED <<categories, cat_cache, call_count, up, demos, scripts>>

\* GLPI with ticket id changed; nothing changes when it is gone.
Update(id, status, solution) ==
    [glpi EXCEPT !["Ticket"] = [i \in DOMAIN @ |->
        IF @[i].id = id THEN [@[i] EXCEPT !.status = status, !.solution = solution]
                        ELSE @[i]]]

\* GLPI moves a ticket that is given a solution to SOLVED by itself.
PostSolution(c) ==
    LET s == calls[c] IN
    /\ s.pc = "solution"
    /\ \E o \in Outcome :
          /\ Charge(o)
          /\ glpi' = IF Applied(o) THEN Update(s.tid, SOLVED, Head(s.tickets).notes) ELSE glpi
          /\ Put(c, IF Answered(o) THEN [s EXCEPT !.pc = "close"] ELSE Raised(s))
    /\ UNCHANGED seedVars

CloseTicket(c) ==
    LET s == calls[c] IN
    /\ s.pc = "close"
    /\ \E o \in Outcome :
          /\ Charge(o)
          /\ glpi' = IF Applied(o) THEN Update(s.tid, CLOSED, SolutionOf(s.tid)) ELSE glpi
          /\ Put(c, IF Answered(o) THEN NextTicket(s) ELSE Raised(s))
    /\ UNCHANGED seedVars

-----------------------------------------------------------------------------
(* Specification *)

Init ==
    /\ glpi = [e \in Endpoint |-> <<>>]
    /\ calls = [c \in Callers |-> Idle]
    /\ faults = 0
    /\ categories = [k \in Categories |-> 0]
    /\ cat_cache = {}
    /\ call_count = 0
    /\ up = FALSE
    /\ nextId = 1
    /\ demos = 0 /\ scripts = 0

\* The steps of a call that has started.
Step(c) ==
    \/ ContinueWalk(c) \/ Deliver(c)
    \/ PurgeList(c) \/ DeleteRow(c)
    \/ ListCategories(c) \/ EnsureCategory(c)
    \/ \E k \in Categories : CreateCategory(c, k)
    \/ CreateArticle(c)
    \/ CreateTicket(c) \/ PostSolution(c) \/ CloseTicket(c)

Next ==
    \/ Start \/ Crash
    \/ PollOrImport
    \/ \E i \in DOMAIN glpi["Ticket"] : GetOneTicket(i)
    \/ \E c \in Callers : SeedDemo(c) \/ Step(c)
    \/ RunScript

Spec == Init /\ [][Next]_vars

\* The process is started and runs its bootstrap, which no other call blocks.
Fairness == WF_vars(Start) /\ WF_vars(Step(Boot))
FairSpec == Spec /\ Fairness

-----------------------------------------------------------------------------
(* Properties *)

\* A walk hands no row over twice, whatever is created and purged between its
\* pages: a poll never processes a ticket twice in one cycle.
WalkNeverRepeats ==
    \A c \in Callers : LET out == calls[c].out IN
        \A i, j \in DOMAIN out : out[i].id = out[j].id => i = j

\* A walk that ends normally has found every ticket that was resolved when it
\* began and stood within the cap, but for one at most per row that was
\* purged meanwhile: rows that are added, or change, cost none.
WalkMissesOnlyPurged ==
    \A c \in Callers :
        calls[c].pc = "listed" =>
            Cardinality(calls[c].seen \ Ids(calls[c].out)) <= calls[c].shifts

WithNotes == {f.name : f \in {g \in Fixtures : g.notes = "given"}}

\* A list of resolved tickets shows a ticket without the notes it was seeded
\* with, which the pipeline would flag as a gap, only after a failed call or
\* a purge: a poll beside the seeding sees no ticket between its creation
\* and its solution.
HollowNotesNeedFaults ==
    \A c \in Callers :
        LET s == calls[c]
            hollow == {i \in DOMAIN s.out : /\ s.out[i].name \in WithNotes
                                            /\ s.out[i].solution = "none"}
        IN  s.endpoint = "Ticket" /\ s.job # "get" =>
                Cardinality(hollow) <= faults + s.shifts

Copies(e, name, Test(_)) ==
    Cardinality({i \in DOMAIN glpi[e] : glpi[e][i].name = name /\ Test(glpi[e][i])})
IsRow(row) == TRUE

\* "Second boot is a no-op": however often the process ends and starts again
\* in the middle of its bootstrap, no ticket of it is there twice and
\* resolved, so no poll drafts it twice, and an article of it is there once
\* more per interruption at most.
BootstrapSeedsOnce ==
    scripts = 0 =>
        /\ \A i \in DOMAIN SeedTickets : Copies("Ticket", SeedTickets[i].name, Resolved) <= 1
        /\ \A i \in DOMAIN KbArticles : Copies("KnowbaseItem", KbArticles[i], IsRow) <= 1 + faults

\* Callers that look a category up at the same time may each create it, but
\* nobody creates it again later: not after an answer that was lost, nor
\* after a restart that emptied the cache.
CategoryCopiesBounded ==
    \A k \in Categories :
        categories[k] <= Lesser(Cardinality(Callers \ {Poll}), 1 + demos + scripts)

\* The first boot seeds everything, if nothing fails and nobody else writes.
FirstBootSeeds ==
    <>(\/ faults > 0 \/ demos > 0 \/ scripts > 0
       \/ \A i \in DOMAIN SeedTickets : Copies("Ticket", SeedTickets[i].name, Resolved) = 1)
=============================================================================
