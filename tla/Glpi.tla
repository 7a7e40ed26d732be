--------------------------------- MODULE Glpi ---------------------------------
(***************************************************************************)
(* GLPI as kbgen sees it, and the reading side of its adapter              *)
(* (itsm/glpi.py): the walk over the pages of a list endpoint, the         *)
(* hydration of each ticket of a page with its solution, and the look-up   *)
(* of one ticket.  GLPI lists rows in the order of their ids, appends new  *)
(* ones, and closes the gap when one is purged.  A step is what happens    *)
(* between two awaits; the writing callers are in module Seeding.          *)
(*                                                                         *)
(* Abstractions: the text of a solution is "given" or "none"; followups,   *)
(* titles, dates and the GLPI session of a call are left out.              *)
(***************************************************************************)
EXTENDS Integers, Sequences, FiniteSets

CONSTANTS
    Callers,    \* one per call in flight: the scheduler's, a request's, ...
    Names,      \* of tickets and articles
    PageSize,   \* page_size of _paginate, 200 in the code
    MaxTotal,   \* max_total of _paginate, 2000 in the code
    MaxFaults   \* bound: failed HTTP calls and ends of the process

ASSUME PageAssumption ==
    /\ PageSize \in Nat \ {0}
    /\ MaxTotal \in Nat \ {0}
    /\ MaxFaults \in Nat

VARIABLES
    glpi,    \* the rows of each list endpoint
    calls,   \* what each caller holds in memory
    faults   \* failed calls and ends of the process so far

Endpoint == {"Ticket", "KnowbaseItem"}
Text == {"given", "none"}
\* Ticket statuses; an article has none.
INCOMING == 1
SOLVED == 5
CLOSED == 6
RESOLVED_STATUSES == {SOLVED, CLOSED}
Row == [id : Nat, name : Names, status : {0, INCOMING, SOLVED, CLOSED}, solution : Text]

\* A ticket, or an article, as the adapter hands it over.
Handed == [id : Nat, name : Names, solution : Text]
HandedOver(row, solution) ==
    [id |-> row.id, name |-> row.name, solution |-> solution]

Job == {"none", "poll", "import", "get", "inventory", "report",
        "seed", "script", "demo"}
Pc == {"idle", "page", "rows", "listed", "purge", "delete", "categories",
       "category", "newcategory", "article", "ticket", "solution", "close"}

\* A call at rest.  The first three fields after endpoint are the walk's
\* locals; seen and shifts are history: what a walk should find, and how many
\* rows have been purged under it; the last four belong to module Seeding.
Idle == [pc |-> "idle", job |-> "none", endpoint |-> "Ticket",
         offset |-> 0, page |-> {}, short |-> FALSE,
         out |-> <<>>, seen |-> {}, shifts |-> 0,
         tickets |-> <<>>, articles |-> <<>>, missing |-> {}, tid |-> 0]

Put(c, s) == calls' = [calls EXCEPT ![c] = s]
Ids(rows) == {rows[i].id : i \in DOMAIN rows}
Members(rows) == {rows[i] : i \in DOMAIN rows}
\* The rows of a page are taken in the order they were listed in.
First(page) == CHOOSE row \in page : \A other \in page : row.id <= other.id
Resolved(row) == row.status \in RESOLVED_STATUSES
Lesser(x, y) == IF x < y THEN x ELSE y

-----------------------------------------------------------------------------
(* The outcome of one HTTP call *)

\* Answered with success, answered with an error status, failed before GLPI
\* saw it, or carried out and the answer lost.
Outcome == {"ok", "refused", "raised", "unanswered"}
Applied(o) == o \in {"ok", "unanswered"}
Answered(o) == o \in {"ok", "refused"}
Charge(o) ==
    IF o = "ok" THEN UNCHANGED faults
                ELSE faults < MaxFaults /\ faults' = faults + 1

-----------------------------------------------------------------------------
(* list_resolved_tickets and list_kb_articles *)

Wanted(e) ==
    {glpi[e][i].id : i \in {j \in DOMAIN glpi[e] :
                              j <= MaxTotal /\ (e = "Ticket" => Resolved(glpi[e][j]))}}

Walk(job, e) == [Idle EXCEPT !.pc = "page", !.job = job, !.endpoint = e,
                             !.seen = Wanted(e)]
\* The walk is over and its caller has the list.
Listed(s) == [s EXCEPT !.pc = "listed", !.page = {}, !.offset = 0]

\* Mutant: the next page starts at the last row of this one.
NextOffset_Overlapping(s) == s.offset + PageSize - 1
NextOffset(s) == s.offset + PageSize

\* Mutant: a full page is taken for the last one.
PageEnd_FullIsLast(s) == IF s.page = {} THEN Listed(s) ELSE s
\* After a row of the page: the next row, the next page, or the end, at a
\* short page or when as many rows as the cap, all in full pages, were seen.
PageEnd(s) ==
    IF s.page # {} THEN s
    ELSE IF s.short \/ s.offset + PageSize >= MaxTotal THEN Listed(s)
    ELSE [s EXCEPT !.pc = "page", !.offset = NextOffset(s)]

PageAt(all, offset) == SubSeq(all, offset + 1, Lesser(offset + PageSize, Len(all)))

\* Of a page of tickets the resolved ones are hydrated one by one; articles
\* need no other call.
Read(s, rows) ==
    LET read == [s EXCEPT !.pc = "rows", !.short = Len(rows) < PageSize] IN
    IF s.endpoint = "Ticket"
    THEN [read EXCEPT !.page = {row \in Members(rows) : Resolved(row)}]
    ELSE [read EXCEPT !.out = @ \o [i \in DOMAIN rows |-> HandedOver(rows[i], "none")]]

GetPage(c) ==
    LET s == calls[c] IN
    /\ s.pc = "page"
    /\ Put(c, PageEnd(Read(s, PageAt(glpi[s.endpoint], s.offset))))
    /\ UNCHANGED <<glpi, faults>>

\* The page cannot be had: the exception ends the walk and its caller.
GetPageFails(c) ==
    /\ calls[c].pc = "page"
    /\ Charge("raised")
    /\ Put(c, Idle)
    /\ UNCHANGED glpi

\* The solutions GLPI has for a ticket now; none once the ticket is gone.
SolutionOf(id) ==
    IF \E i \in DOMAIN glpi["Ticket"] :
          glpi["Ticket"][i].id = id /\ glpi["Ticket"][i].solution = "given"
    THEN "given" ELSE "none"

\* The row is as the page had it, the solution as it is now; a failed fetch
\* of the solution is swallowed.
HydrateTicket(c) ==
    LET s == calls[c]
        row == First(s.page)
    IN
    /\ s.pc = "rows"
    /\ \E o \in Outcome :
          /\ Charge(o)
          /\ Put(c, PageEnd([s EXCEPT !.page = @ \ {row}, !.out = Append(@,
                HandedOver(row, IF o = "ok" THEN SolutionOf(row.id) ELSE "none"))]))
    /\ UNCHANGED glpi

\* get_ticket: the row by its id, whatever its status, and its solution.
GetTicket(c, i) ==
    /\ i \in DOMAIN glpi["Ticket"]
    /\ Put(c, [Idle EXCEPT !.pc = "rows", !.job = "get", !.short = TRUE,
                           !.page = {glpi["Ticket"][i]}])
    /\ UNCHANGED <<glpi, faults>>

WalkStep(c) ==
    GetPage(c) \/ GetPageFails(c) \/ HydrateTicket(c)
=============================================================================
