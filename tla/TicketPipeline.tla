---------------------------- MODULE TicketPipeline ----------------------------
(***************************************************************************)
(* The generation pipeline of kbgen: a resolved ITSM ticket becomes either *)
(* a gap (SKIPPED), a ticket COVERED by an article that exists already, or *)
(* a DRAFTED article of its own.  Three entry points run it, each in a     *)
(* database session of its own and all in one asyncio process:             *)
(*                                                                         *)
(*   - the scheduler's poll cycle (scheduler.py, max_instances=1);         *)
(*   - the HTTP requests /poll/run and /generate (api/pipeline.py);        *)
(*   - the HTTP request /tickets/{id}/gap-draft (api/tickets.py).          *)
(*                                                                         *)
(* Postgres runs them at READ COMMITTED, nothing is locked across an       *)
(* await, so a step of this module is what happens between two awaits of   *)
(* a handler: one read, or one commit.                                     *)
(*                                                                         *)
(* Abstractions:                                                           *)
(*   - texts, embeddings and cosine similarity are a relevance rank of a   *)
(*     ticket against the articles written from a given ticket;            *)
(*   - the notes of a ticket are "full" or "thin" (shorter than            *)
(*     min_resolution_chars);                                              *)
(*   - DRAFT stands for DRAFT, EDITED, APPROVED and PUSHED, which the      *)
(*     dedup search treats alike; module DraftReview tells them apart;     *)
(*   - a poll visits its tickets in any order;                             *)
(*   - the dedup search and the look-up of the source of each of its hits  *)
(*     are one step;                                                       *)
(*   - the uuids of articles are numbered in the order they are drawn.     *)
(***************************************************************************)
EXTENDS Integers, FiniteSets

CONSTANTS
    Tickets,         \* ids of ITSM tickets
    ArticleIds,      \* the ids kb.article may draw: a bound
    Imported,        \* articles /import/kb brought in before the start
    Scheduler,       \* the session of the APScheduler job
    Requests,        \* HTTP request slots, each with a session of its own
    NIL,             \* SQL NULL
    Relevance,       \* rank of a ticket against the articles of a ticket
    DedupThreshold,  \* kb.settings.dedup_threshold
    NeighbourFloor,  \* min_relevance of fetch_neighbours
    MaxConcurrent,   \* sessions in flight at once
    MaxFaults,       \* bound: failed external calls and crashes
    MaxResets        \* bound: calls of /admin/reset

Sessions == Requests \cup {Scheduler}

ASSUME NilAssumption == NIL \notin Tickets \cup ArticleIds
ASSUME ArticleIdAssumption == ArticleIds \subseteq Nat /\ Imported \subseteq ArticleIds
ASSUME RankAssumption ==
    /\ Relevance \in [Tickets \X (Tickets \cup {NIL}) -> Nat]
    /\ DedupThreshold \in Nat
    /\ NeighbourFloor \in Nat
ASSUME BoundAssumption ==
    MaxConcurrent \in Nat /\ MaxFaults \in Nat /\ MaxResets \in Nat

VARIABLES
    itsm,      \* the ITSM's tickets: "open", or resolved with thin or full notes
    article,   \* table kb.article
    indexed,   \* the articles that have rows in kb.chunk
    pt,        \* table kb.processed_ticket
    sess,      \* what each session holds in memory
    faults,    \* external failures and crashes so far
    resets     \* resets so far

vars == <<itsm, article, indexed, pt, sess, faults, resets>>

-----------------------------------------------------------------------------
(* Rows and sessions *)

ArticleStatus == {"NONE", "DRAFT", "IMPORTED", "REJECTED", "DELETED"}
Source == {"generated", "gap-rag", "imported_from_itsm"}
Article == [status : ArticleStatus, src : Tickets \cup {NIL}, source : Source]

Decision == {"NONE", "SKIPPED", "COVERED", "DRAFTED"}
Row == [decision : Decision,
        matched  : ArticleIds \cup {NIL},
        draft    : ArticleIds \cup {NIL}]

\* A ticket without a row in kb.processed_ticket.
NoRow == [decision |-> "NONE", matched |-> NIL, draft |-> NIL]
\* Mutant: a decision outside the three values the readers know.
Skipped_Unlisted == [decision |-> "GAP", matched |-> NIL, draft |-> NIL]
Skipped == [decision |-> "SKIPPED", matched |-> NIL, draft |-> NIL]
Drafting(m) == [decision |-> "DRAFTED", matched |-> m, draft |-> NIL]
Covered(m) == [decision |-> "COVERED", matched |-> m, draft |-> NIL]

Notes == {"thin", "full"}
\* A ticket as the adapter returned it: its notes are those of the fetch.
Fetched == [id : Tickets, notes : Notes]

Pc == {"idle", "next", "embed", "ground", "generate", "index", "record", "commit"}
Session == [pc     : Pc,
            todo   : SUBSET Fetched,       \* tickets the cycle has still to visit
            tkt    : Tickets \cup {NIL},   \* the ticket in hand
            notes  : Notes,
            loaded : Row,                  \* the row as the ORM loaded it
            row    : Row,                  \* the row the handler is to record
            source : Source]
Idle == [pc |-> "idle", todo |-> {}, tkt |-> NIL, notes |-> "thin",
         loaded |-> NoRow, row |-> NoRow, source |-> "generated"]

TypeOK ==
    /\ itsm \in [Tickets -> {"open"} \cup Notes]
    /\ article \in [ArticleIds -> Article]
    /\ indexed \subseteq ArticleIds
    /\ pt \in [Tickets -> Row]
    /\ sess \in [Sessions -> Session]
    /\ faults \in Nat
    /\ resets \in Nat

Exists(a) == article[a].status \notin {"NONE", "DELETED"}
Decided(row) == row.decision \in {"DRAFTED", "COVERED"}
Active == {p \in Sessions : sess[p].pc # "idle"}

-----------------------------------------------------------------------------
(* Retrieval *)

\* The articles the dedup and the neighbour queries join chunks with.
Searchable == {a \in indexed : article[a].status \in {"DRAFT", "IMPORTED"}}
Rank(t, a) == Relevance[t, article[a].src]

DedupLimit == 2
\* The results the LIMIT-ed query may return; ties are broken either way.
TopHits(t) ==
    {H \in SUBSET Searchable :
        /\ Cardinality(H) <= DedupLimit
        /\ Cardinality(H) < DedupLimit => H = Searchable
        /\ \A a \in H, b \in Searchable \ H : Rank(t, a) >= Rank(t, b)}

\* Mutant: no self-match filter.
Candidates_WithSelf(t, H) == H
\* The hits of H that are not drafts of the ticket itself.
Candidates(t, H) == {a \in H : article[a].src # t}

\* Mutant: relevance equal to the threshold does not cover.
Verdicts_Strict(t, H) ==
    LET C == Candidates(t, H)
        Top == {a \in C : \A b \in C : Rank(t, a) >= Rank(t, b)}
    IN  IF C = {} THEN {Drafting(NIL)}
        ELSE {IF Rank(t, a) > DedupThreshold THEN Covered(a) ELSE Drafting(a)
                : a \in Top}

\* The row check_duplicate leads to, for one result of the query.
Verdicts(t, H) ==
    LET C == Candidates(t, H)
        Top == {a \in C : \A b \in C : Rank(t, a) >= Rank(t, b)}
    IN  IF C = {} THEN {Drafting(NIL)}
        ELSE {IF Rank(t, a) >= DedupThreshold THEN Covered(a) ELSE Drafting(a)
                : a \in Top}

HasNeighbour(t) == \E a \in Searchable : Rank(t, a) >= NeighbourFloor

-----------------------------------------------------------------------------
(* The ITSM, external to kbgen *)

ResolveTicket(t, notes) ==
    /\ itsm[t] = "open" \/ (itsm[t] = "thin" /\ notes = "full")
    /\ itsm' = [itsm EXCEPT ![t] = notes]
    /\ UNCHANGED <<article, indexed, pt, sess, faults, resets>>

NotesOf(t) == IF itsm[t] = "full" THEN "full" ELSE "thin"
ResolvedTickets ==
    {[id |-> t, notes |-> NotesOf(t)] : t \in {u \in Tickets : itsm[u] # "open"}}

-----------------------------------------------------------------------------
(* Sessions *)

Put(p, s) == sess' = [sess EXCEPT ![p] = s]

\* The handler is done with the ticket in hand; a cycle goes on with the rest.
AfterTicket(s) ==
    [Idle EXCEPT !.pc = IF s.todo = {} THEN "idle" ELSE "next", !.todo = s.todo]

\* A failed flush leaves the session in need of a rollback nobody performs:
\* every ticket left in the cycle fails at its first statement.
Poisoned == Idle

MayStart(p) == sess[p].pc = "idle" /\ Cardinality(Active) < MaxConcurrent

RunCycle(p) ==
    /\ MayStart(p)
    /\ ResolvedTickets # {}
    /\ Put(p, [Idle EXCEPT !.pc = "next", !.todo = ResolvedTickets])
    /\ UNCHANGED <<itsm, article, indexed, pt, faults, resets>>

GenerateForTicketId(p, t) ==
    /\ p \in Requests
    /\ MayStart(p)
    /\ Put(p, [Idle EXCEPT !.pc = "next",
                           !.todo = {[id |-> t, notes |-> NotesOf(t)]}])
    /\ UNCHANGED <<itsm, article, indexed, pt, faults, resets>>

-----------------------------------------------------------------------------
(* process_ticket *)

\* Mutants: a drafted ticket is processed again; a gap is never retried.
AlreadyDecided_CoveredOnly(row) == row.decision = "COVERED"
AlreadyDecided_AnyRow(row) == row # NoRow
AlreadyDecided(row) == Decided(row)

ExitIdempotently(p, k) ==
    /\ sess[p].pc = "next"
    /\ k \in sess[p].todo
    /\ AlreadyDecided(pt[k.id])
    /\ Put(p, AfterTicket([sess[p] EXCEPT !.todo = @ \ {k}]))
    /\ UNCHANGED <<itsm, article, indexed, pt, faults, resets>>

BeginTicket(p, k) ==
    /\ sess[p].pc = "next"
    /\ k \in sess[p].todo
    /\ ~AlreadyDecided(pt[k.id])
    /\ Put(p, [sess[p] EXCEPT !.pc = "embed", !.todo = @ \ {k}, !.tkt = k.id,
                              !.notes = k.notes, !.loaded = pt[k.id]])
    /\ UNCHANGED <<itsm, article, indexed, pt, faults, resets>>

\* Mutant: a thin ticket is passed over without a row.
FlagThin_NotRecorded(p) ==
    /\ sess[p].pc = "embed"
    /\ sess[p].notes = "thin"
    /\ Put(p, AfterTicket(sess[p]))
    /\ UNCHANGED <<itsm, article, indexed, pt, faults, resets>>

FlagThin(p) ==
    /\ sess[p].pc = "embed"
    /\ sess[p].notes = "thin"
    /\ Put(p, [sess[p] EXCEPT !.pc = "record", !.row = Skipped])
    /\ UNCHANGED <<itsm, article, indexed, pt, faults, resets>>

CheckDuplicate(p) ==
    /\ sess[p].pc = "embed"
    /\ sess[p].notes = "full"
    /\ \E H \in TopHits(sess[p].tkt) : \E v \in Verdicts(sess[p].tkt, H) :
          Put(p, [sess[p] EXCEPT
                    !.pc = IF v.decision = "COVERED" THEN "record" ELSE "generate",
                    !.row = v])
    /\ UNCHANGED <<itsm, article, indexed, pt, faults, resets>>

-----------------------------------------------------------------------------
(* draft_for_gap *)

\* Mutant: any ticket without a draft may be gap-drafted.
IsGap_AnyDecision(row) == row # NoRow /\ row.draft = NIL
IsGap(row) == row.decision = "SKIPPED" /\ row.draft = NIL

OpenGap(p, t) ==
    /\ p \in Requests
    /\ MayStart(p)
    /\ IsGap(pt[t])
    /\ Put(p, [Idle EXCEPT !.pc = "ground", !.tkt = t, !.loaded = pt[t],
                           !.source = "gap-rag"])
    /\ UNCHANGED <<itsm, article, indexed, pt, faults, resets>>

FetchNeighbours(p) ==
    /\ sess[p].pc = "ground"
    /\ Put(p, IF HasNeighbour(sess[p].tkt)
              THEN [sess[p] EXCEPT !.pc = "generate", !.row = Drafting(NIL)]
              ELSE Idle)
    /\ UNCHANGED <<itsm, article, indexed, pt, faults, resets>>

-----------------------------------------------------------------------------
(* Generation, indexing and recording, shared by both *)

Unused == {a \in ArticleIds : article[a].status = "NONE"}

\* Mutant: the ticket's row is recorded before the draft is indexed.
CreateDraft_RecordedFirst(p, a) ==
    /\ sess[p].pc = "generate"
    /\ a \in Unused
    /\ \A b \in Unused : a <= b
    /\ article' = [article EXCEPT ![a] =
          [status |-> "DRAFT", src |-> sess[p].tkt, source |-> sess[p].source]]
    /\ Put(p, [sess[p] EXCEPT !.pc = "record", !.row.draft = a])
    /\ UNCHANGED <<itsm, indexed, pt, faults, resets>>

CreateDraft(p, a) ==
    /\ sess[p].pc = "generate"
    /\ a \in Unused
    /\ \A b \in Unused : a <= b
    /\ article' = [article EXCEPT ![a] =
          [status |-> "DRAFT", src |-> sess[p].tkt, source |-> sess[p].source]]
    /\ Put(p, [sess[p] EXCEPT !.pc = "index", !.row.draft = a])
    /\ UNCHANGED <<itsm, indexed, pt, faults, resets>>

\* A chunk of an article that a reset deleted violates the foreign key.
IndexDraft(p) ==
    LET a == sess[p].row.draft IN
    /\ sess[p].pc = "index"
    /\ \/ /\ Exists(a)
          /\ indexed' = indexed \cup {a}
          /\ Put(p, [sess[p] EXCEPT !.pc = "record"])
       \/ /\ ~Exists(a)
          /\ Put(p, Poisoned)
          /\ UNCHANGED indexed
    /\ UNCHANGED <<itsm, article, pt, faults, resets>>

\* record() selects the row again: a row that was absent before is read
\* afresh, one the session holds already keeps the attributes loaded then, and
\* one that a reset removed is inserted anew.
RecordRead(p) ==
    LET current == pt[sess[p].tkt] IN
    /\ sess[p].pc = "record"
    /\ Put(p, [sess[p] EXCEPT !.pc = "commit",
                              !.loaded = IF NoRow \in {@, current} THEN current ELSE @])
    /\ UNCHANGED <<itsm, article, indexed, pt, faults, resets>>

\* The flush writes only the attributes that differ from the loaded ones.
Merged(current, loaded, row) ==
    [decision |-> IF row.decision = loaded.decision THEN current.decision
                                                    ELSE row.decision,
     matched  |-> IF row.matched = loaded.matched THEN current.matched
                                                  ELSE row.matched,
     draft    |-> IF row.draft = loaded.draft THEN current.draft
                                              ELSE row.draft]

\* INSERT needs the key to be free, UPDATE needs the row to be there, and a
\* reference that is written needs its article.
FlushSucceeds(s) ==
    /\ (s.loaded = NoRow) <=> (pt[s.tkt] = NoRow)
    /\ s.row.matched \notin {s.loaded.matched, NIL} => Exists(s.row.matched)
    /\ s.row.draft \notin {s.loaded.draft, NIL} => Exists(s.row.draft)

RecordCommit(p) ==
    LET s == sess[p] IN
    /\ s.pc = "commit"
    /\ \/ /\ FlushSucceeds(s)
          /\ pt' = [pt EXCEPT ![s.tkt] = Merged(@, s.loaded, s.row)]
          /\ Put(p, AfterTicket(s))
       \/ /\ ~FlushSucceeds(s)
          /\ Put(p, Poisoned)
          /\ UNCHANGED pt
    /\ UNCHANGED <<itsm, article, indexed, faults, resets>>

-----------------------------------------------------------------------------
(* Failures and the other handlers that change these tables *)

\* An embedding or a generation call that fails for good: the ticket is left
\* as it is and the cycle goes on.  A generation also ends this way, free of
\* charge, once ArticleIds is used up.
CallFails(p) ==
    /\ sess[p].pc \in {"embed", "ground", "generate", "index"}
    /\ \/ faults < MaxFaults /\ faults' = faults + 1
       \/ /\ sess[p].pc = "generate"
          /\ Unused = {}
          /\ UNCHANGED faults
    /\ Put(p, AfterTicket(sess[p]))
    /\ UNCHANGED <<itsm, article, indexed, pt, resets>>

Crash ==
    /\ Active # {}
    /\ faults < MaxFaults
    /\ faults' = faults + 1
    /\ sess' = [p \in Sessions |-> Idle]
    /\ UNCHANGED <<itsm, article, indexed, pt, resets>>

RejectDraft(a) ==
    /\ article[a].status \in {"DRAFT", "IMPORTED"}
    /\ article' = [article EXCEPT ![a].status = "REJECTED"]
    /\ UNCHANGED <<itsm, indexed, pt, sess, faults, resets>>

ResetState ==
    /\ resets < MaxResets
    /\ resets' = resets + 1
    /\ article' = [a \in ArticleIds |->
          IF Exists(a) THEN [article[a] EXCEPT !.status = "DELETED"] ELSE article[a]]
    /\ indexed' = {}
    /\ pt' = [t \in Tickets |-> NoRow]
    /\ UNCHANGED <<itsm, sess, faults>>

-----------------------------------------------------------------------------
(* Specification *)

Init ==
    /\ itsm = [t \in Tickets |-> "open"]
    /\ article = [a \in ArticleIds |->
          [status |-> IF a \in Imported THEN "IMPORTED" ELSE "NONE",
           src |-> NIL, source |-> "imported_from_itsm"]]
    /\ indexed = Imported
    /\ pt = [t \in Tickets |-> NoRow]
    /\ sess = [p \in Sessions |-> Idle]
    /\ faults = 0
    /\ resets = 0

\* The steps of a session that has started, one per await of its handler.
Step(p) ==
    \/ \E k \in Fetched : ExitIdempotently(p, k) \/ BeginTicket(p, k)
    \/ FlagThin(p)
    \/ CheckDuplicate(p)
    \/ FetchNeighbours(p)
    \/ \E a \in ArticleIds : CreateDraft(p, a)
    \/ IndexDraft(p)
    \/ RecordRead(p)
    \/ RecordCommit(p)

Start(p) ==
    \/ RunCycle(p)
    \/ \E t \in Tickets : GenerateForTicketId(p, t) \/ OpenGap(p, t)

Environment ==
    \/ \E t \in Tickets, n \in Notes : ResolveTicket(t, n)
    \/ \E p \in Sessions : CallFails(p)
    \/ Crash
    \/ \E a \in ArticleIds : RejectDraft(a)
    \/ ResetState

Next == (\E p \in Sessions : Start(p) \/ Step(p)) \/ Environment

Spec == Init /\ [][Next]_vars

\* The interval trigger keeps firing, and the event loop keeps running every
\* handler that has started.  Nothing obliges an operator, the ITSM or a
\* fault to act.
Fairness ==
    /\ WF_vars(RunCycle(Scheduler))
    /\ \A p \in Sessions : WF_vars(Step(p))
FairSpec == Spec /\ Fairness

-----------------------------------------------------------------------------
(* Properties *)

\* No ticket is matched with an article that was drafted from it, whatever
\* drafts earlier, interrupted or overlapping passes left behind: the case
\* the self-match filter of check_duplicate exists for.
NoSelfCover ==
    \A t \in Tickets :
        pt[t].matched # NIL => article[pt[t].matched].src # t

\* The draft a ticket points at was written from that ticket and can be found
\* by the search: the article and its chunks are committed before the row,
\* so neither a crash nor an overlapping session leaves a row that points at
\* an article the dedup of the next ticket cannot see.
DraftIsOwnAndIndexed ==
    \A t \in Tickets :
        LET d == pt[t].draft IN
        d # NIL => /\ article[d].src = t
                   /\ article[d].status \in {"DRAFT", "REJECTED"}
                   /\ d \in indexed

InFlight(a) == \E p \in Sessions : sess[p].row.draft = a
\* Drafts no row of kb.processed_ticket refers to and no handler still holds.
Orphans ==
    {a \in ArticleIds : /\ Exists(a)
                        /\ article[a].source # "imported_from_itsm"
                        /\ pt[article[a].src].draft # a
                        /\ ~InFlight(a)}

\* One session at a time: a draft is lost only to a failed call or a crash
\* between its commit and the commit of the ticket's row, or to a reset in
\* that window, and each of these costs at most one draft.
OrphansNeedFaults == Cardinality(Orphans) <= faults + resets

Similar(t, u) ==
    Relevance[t, u] >= DedupThreshold /\ Relevance[u, t] >= DedupThreshold

\* The first ticket of a topic produces the master draft and later ones roll
\* up as COVERED by it: two generated articles the search offers at the same
\* time never come from two tickets that each cover the other.
OneMasterPerTopic ==
    \A a, b \in Searchable :
        /\ article[a].source = "generated"
        /\ article[b].source = "generated"
        /\ article[a].src # article[b].src
        => ~Similar(article[a].src, article[b].src)

\* A ticket whose row says DRAFTED or COVERED is left alone: no session
\* changes its row again; only a reset removes it.
DecidedIsFinal ==
    [][\A t \in Tickets :
          Decided(pt[t]) => pt'[t] = pt[t] \/ resets' # resets]_vars

\* The scheduler's polling gets every ticket with usable notes decided, even
\* when calls fail, sessions overlap or the process restarts.
FullTicketsDecided ==
    \A t \in Tickets : itsm[t] = "full" ~> Decided(pt[t])

\* And it flags every resolved ticket with thin notes as a gap, unless its
\* notes are completed or it is drafted first.
ThinTicketsFlagged ==
    \A t \in Tickets : itsm[t] = "thin" ~> pt[t] # NoRow
=============================================================================
