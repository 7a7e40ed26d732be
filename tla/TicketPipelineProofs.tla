------------------------- MODULE TicketPipelineProofs -------------------------
(* Proofs about TicketPipeline, for every value of its constants. *)
EXTENDS TicketPipeline, FiniteSetTheorems, TLAPS

USE NilAssumption

\* Every row a handler may plan to record is a row.
LEMMA PlannedRows ==
    /\ NoRow \in Row
    /\ Skipped \in Row
    /\ \A m \in ArticleIds \cup {NIL} : Drafting(m) \in Row /\ Covered(m) \in Row
BY DEF NoRow, Skipped, Drafting, Covered, Row, Decision

\* A session that has not begun is typed.
LEMMA IdleSession == Idle \in Session
BY PlannedRows DEF Idle, Session, Pc, Notes, Source

\* After a ticket the session is idle or at the next ticket of its cycle.
LEMMA AfterTicketType ==
    ASSUME NEW s \in Session
    PROVE  AfterTicket(s) \in Session
BY IdleSession DEF AfterTicket, Idle, Session, Pc

\* A flush mixes attributes of two rows, so it yields a row.
LEMMA MergedType ==
    ASSUME NEW c \in Row, NEW l \in Row, NEW r \in Row
    PROVE  Merged(c, l, r) \in Row
BY DEF Merged, Row

\* The verdict of the dedup step names an article the search returned that
\* was not drafted from the ticket, or none.
LEMMA VerdictSound ==
    ASSUME NEW t \in Tickets, NEW H \in TopHits(t), NEW v \in Verdicts(t, H)
    PROVE  /\ v.draft = NIL
           /\ v.decision \in {"COVERED", "DRAFTED"}
           /\ v.matched \in {NIL} \cup {a \in Searchable : article[a].src # t}
           /\ v = Covered(v.matched) \/ v = Drafting(v.matched)
BY DEF TopHits, Verdicts, Candidates, Covered, Drafting

-----------------------------------------------------------------------------
(* The inductive invariant.  NoSelfCover and DraftIsOwnAndIndexed speak of   *)
(* committed rows, but what gets committed was planned several awaits ago:   *)
(* the strengthening says what every session's plan may rely on meanwhile.   *)

\* A match is with an article that was really created, from another ticket.
MatchOK(t, row) ==
    row.matched # NIL => /\ article[row.matched].status # "NONE"
                         /\ article[row.matched].src # t

PlanOK(s) ==
    /\ s.pc = "next" => s.row = NoRow
    /\ s.pc = "index" => s.row.draft \in ArticleIds
    /\ s.pc \notin {"idle", "next"} => s.tkt \in Tickets
    /\ MatchOK(s.tkt, s.row)
    /\ s.row.draft # NIL =>
          /\ article[s.row.draft].src = s.tkt
          /\ article[s.row.draft].status \in {"DRAFT", "REJECTED", "DELETED"}
          /\ s.pc \in {"record", "commit"} /\ Exists(s.row.draft)
                => s.row.draft \in indexed

IInv ==
    /\ TypeOK
    /\ \A t \in Tickets : MatchOK(t, pt[t])
    /\ DraftIsOwnAndIndexed
    /\ \A p \in Sessions : PlanOK(sess[p])

-----------------------------------------------------------------------------
(* Type correctness *)

\* Every variable keeps its type.
LEMMA TypeInit == Init => TypeOK
BY ArticleIdAssumption, BoundAssumption, PlannedRows, IdleSession
   DEF Init, TypeOK, Article, ArticleStatus, Source

\* The types are preserved by a step of a session: it replaces its own record
\* by a session record, and the tables by tables.
LEMMA PutType ==
    ASSUME TypeOK, NEW p \in Sessions, NEW s \in Session, Put(p, s)
    PROVE  sess' \in [Sessions -> Session]
BY DEF TypeOK, Put

\* Every step preserves the types; IndexDraft needs to know that the session
\* planned an article before it, hence IInv and not TypeOK alone.
LEMMA TypeStep == IInv /\ [Next]_vars => TypeOK'
<1> SUFFICES ASSUME IInv, [Next]_vars PROVE TypeOK'
  OBVIOUS
<1>0. TypeOK
  BY DEF IInv
<1> USE <1>0 DEF TypeOK
<1>1. ASSUME NEW p \in Sessions, RunCycle(p) PROVE TypeOK'
  <2>1. ResolvedTickets \subseteq Fetched
    BY DEF ResolvedTickets, NotesOf, Fetched, Notes
  <2>2. [Idle EXCEPT !.pc = "next", !.todo = ResolvedTickets] \in Session
    BY <2>1, IdleSession DEF Idle, Session, Pc
  <2> QED BY <1>1, <2>2, PutType DEF RunCycle
<1>2. ASSUME NEW p \in Sessions, NEW t \in Tickets, GenerateForTicketId(p, t)
      PROVE  TypeOK'
  <2>1. {[id |-> t, notes |-> NotesOf(t)]} \subseteq Fetched
    BY DEF NotesOf, Fetched, Notes
  <2>2. [Idle EXCEPT !.pc = "next", !.todo = {[id |-> t, notes |-> NotesOf(t)]}]
           \in Session
    BY <2>1, IdleSession DEF Idle, Session, Pc
  <2> QED BY <1>2, <2>2, PutType DEF GenerateForTicketId
<1>3. ASSUME NEW p \in Sessions, NEW t \in Tickets, OpenGap(p, t) PROVE TypeOK'
  <2>1. [Idle EXCEPT !.pc = "ground", !.tkt = t, !.loaded = pt[t],
                     !.source = "gap-rag"] \in Session
    BY IdleSession DEF Idle, Session, Pc, Source
  <2> QED BY <1>3, <2>1, PutType DEF OpenGap
<1>4. ASSUME NEW p \in Sessions, NEW k \in Fetched, ExitIdempotently(p, k)
      PROVE  TypeOK'
  <2>1. [sess[p] EXCEPT !.todo = @ \ {k}] \in Session
    BY DEF Session
  <2> QED BY <1>4, <2>1, AfterTicketType, PutType DEF ExitIdempotently
<1>5. ASSUME NEW p \in Sessions, NEW k \in Fetched, BeginTicket(p, k)
      PROVE  TypeOK'
  <2>1. [sess[p] EXCEPT !.pc = "embed", !.todo = @ \ {k}, !.tkt = k.id,
                        !.notes = k.notes, !.loaded = pt[k.id]] \in Session
    BY DEF Session, Fetched, Pc
  <2> QED BY <1>5, <2>1, PutType DEF BeginTicket
<1>6. ASSUME NEW p \in Sessions, FlagThin(p) PROVE TypeOK'
  <2>1. [sess[p] EXCEPT !.pc = "record", !.row = Skipped] \in Session
    BY PlannedRows DEF Session, Pc
  <2> QED BY <1>6, <2>1, PutType DEF FlagThin
<1>7. ASSUME NEW p \in Sessions, CheckDuplicate(p) PROVE TypeOK'
  <2>1. PICK H \in TopHits(sess[p].tkt) : \E v \in Verdicts(sess[p].tkt, H) :
          Put(p, [sess[p] EXCEPT
                    !.pc = IF v.decision = "COVERED" THEN "record" ELSE "generate",
                    !.row = v])
    BY <1>7 DEF CheckDuplicate
  <2>2. PICK v \in Verdicts(sess[p].tkt, H) :
          Put(p, [sess[p] EXCEPT
                    !.pc = IF v.decision = "COVERED" THEN "record" ELSE "generate",
                    !.row = v])
    BY <2>1
  <2>3. v \in Row
    <3>1. H \subseteq ArticleIds
      BY DEF TopHits, Searchable
    <3> QED BY <3>1, PlannedRows DEF Verdicts, Candidates
  <2>4. [sess[p] EXCEPT
            !.pc = IF v.decision = "COVERED" THEN "record" ELSE "generate",
            !.row = v] \in Session
    BY <2>3 DEF Session, Pc
  <2> QED BY <1>7, <2>2, <2>4, PutType DEF CheckDuplicate
<1>8. ASSUME NEW p \in Sessions, FetchNeighbours(p) PROVE TypeOK'
  <2>1. [sess[p] EXCEPT !.pc = "generate", !.row = Drafting(NIL)] \in Session
    BY PlannedRows DEF Session, Pc
  <2> QED BY <1>8, <2>1, IdleSession, PutType DEF FetchNeighbours
<1>9. ASSUME NEW p \in Sessions, NEW a \in ArticleIds, CreateDraft(p, a)
      PROVE  TypeOK'
  <2>1. [sess[p] EXCEPT !.pc = "index", !.row.draft = a] \in Session
    BY DEF Session, Pc, Row
  <2>2. [status |-> "DRAFT", src |-> sess[p].tkt, source |-> sess[p].source]
           \in Article
    BY DEF Session, Article, ArticleStatus
  <2> QED BY <1>9, <2>1, <2>2, PutType DEF CreateDraft
<1>10. ASSUME NEW p \in Sessions, IndexDraft(p) PROVE TypeOK'
  <2>1. [sess[p] EXCEPT !.pc = "record"] \in Session
    BY DEF Session, Pc
  <2>2. sess[p].pc = "index" /\ sess[p].row.draft \in ArticleIds
    BY <1>10 DEF IndexDraft, IInv, PlanOK
  <2> QED BY <1>10, <2>1, <2>2, IdleSession, PutType DEF IndexDraft, Poisoned
<1>11. ASSUME NEW p \in Sessions, RecordRead(p) PROVE TypeOK'
  <2>1. sess[p].tkt \in Tickets
    BY <1>11 DEF IInv, PlanOK, RecordRead
  <2>2. [sess[p] EXCEPT !.pc = "commit",
           !.loaded = IF NoRow \in {@, pt[sess[p].tkt]} THEN pt[sess[p].tkt]
                                                        ELSE @] \in Session
    BY <2>1 DEF Session, Pc
  <2> QED BY <1>11, <2>2, PutType DEF RecordRead
<1>12. ASSUME NEW p \in Sessions, RecordCommit(p) PROVE TypeOK'
  <2>1. sess[p].tkt \in Tickets => Merged(pt[sess[p].tkt], sess[p].loaded, sess[p].row) \in Row
    BY MergedType DEF Session
  <2>2. Idle \in Session /\ AfterTicket(sess[p]) \in Session
    BY IdleSession, AfterTicketType
  <2>3. sess' \in [Sessions -> Session]
    BY <1>12, <2>2, PutType DEF RecordCommit, Poisoned
  <2>4. pt' \in [Tickets -> Row]
    BY <1>12, <2>1 DEF RecordCommit
  <2> QED BY <1>12, <2>3, <2>4 DEF RecordCommit
<1>13. ASSUME NEW p \in Sessions, CallFails(p) PROVE TypeOK'
  BY <1>13, AfterTicketType, PutType DEF CallFails
<1>14. CASE Crash
  BY <1>14, IdleSession DEF Crash
<1>15. ASSUME NEW a \in ArticleIds, RejectDraft(a) PROVE TypeOK'
  BY <1>15 DEF RejectDraft, Article, ArticleStatus
<1>16. CASE ResetState
  BY <1>16, PlannedRows DEF ResetState, Article, ArticleStatus
<1>17. ASSUME NEW t \in Tickets, NEW n \in Notes, ResolveTicket(t, n) PROVE TypeOK'
  BY <1>17 DEF ResolveTicket
<1>18. CASE UNCHANGED vars
  BY <1>18 DEF vars
<1> QED
  BY <1>1, <1>2, <1>3, <1>4, <1>5, <1>6, <1>7, <1>8, <1>9, <1>10, <1>11, <1>12,
     <1>13, <1>14, <1>15, <1>16, <1>17, <1>18
  DEF Next, Start, Step, Environment

-----------------------------------------------------------------------------
(* The invariant is inductive *)

\* The empty tables satisfy the inductive invariant.
LEMMA InvInit == Init => IInv
<1> SUFFICES ASSUME Init PROVE IInv
  OBVIOUS
<1>1. TypeOK
  BY TypeInit
<1>2. \A p \in Sessions : PlanOK(sess[p])
  BY DEF Init, PlanOK, MatchOK, Idle, NoRow
<1> QED
  BY <1>1, <1>2 DEF Init, IInv, MatchOK, DraftIsOwnAndIndexed, NoRow

\* A plan without article or match relies on nothing.
LEMMA EmptyPlan ==
    ASSUME NEW s \in Session, s.row = NoRow,
           s.pc # "index", s.pc \notin {"idle", "next"} => s.tkt \in Tickets
    PROVE  PlanOK(s) /\ PlanOK(s)'
BY DEF PlanOK, MatchOK, NoRow

\* A session that is done with a ticket plans no row.
LEMMA AfterTicketPlan ==
    ASSUME NEW s \in Session
    PROVE  PlanOK(AfterTicket(s)) /\ PlanOK(AfterTicket(s))'
<1>1. AfterTicket(s) \in Session
  BY AfterTicketType
<1>2. AfterTicket(s).row = NoRow /\ AfterTicket(s).pc \in {"idle", "next"}
  BY DEF AfterTicket, Idle
<1> QED
  BY <1>1, <1>2, EmptyPlan

\* A step that leaves the articles and the tickets' rows alone and removes no
\* chunk keeps the invariant if the plan of its session is sound after it.
LEMMA PutPlan ==
    ASSUME IInv, TypeOK', NEW p \in Sessions,
           \A q \in Sessions \ {p} : sess'[q] = sess[q],
           UNCHANGED <<article, pt>>, indexed \subseteq indexed',
           PlanOK(sess[p])'
    PROVE  IInv'
<1>1. ASSUME NEW t \in Tickets PROVE MatchOK(t, pt[t])'
  BY DEF IInv, MatchOK
<1>2. DraftIsOwnAndIndexed'
  BY DEF IInv, DraftIsOwnAndIndexed
<1>3. ASSUME NEW q \in Sessions \ {p} PROVE PlanOK(sess[q])'
  <2>1. PlanOK(sess[q]) /\ sess'[q] = sess[q]
    BY DEF IInv
  <2> QED BY <2>1 DEF PlanOK, MatchOK, Exists
<1> QED
  BY <1>1, <1>2, <1>3 DEF IInv

\* In particular a session may always drop its plan, or start without one.
LEMMA EmptyPutPlan ==
    ASSUME IInv, TypeOK', NEW p \in Sessions,
           \A q \in Sessions \ {p} : sess'[q] = sess[q],
           UNCHANGED <<article, pt>>, indexed \subseteq indexed',
           sess'[p].row = NoRow,
           \/ sess'[p].pc \in {"idle", "next"}
           \/ sess'[p].pc \in {"embed", "ground"} /\ sess'[p].tkt \in Tickets
    PROVE  IInv'
<1>1. sess'[p] \in Session
  BY DEF TypeOK
<1>2. PlanOK(sess[p])'
  BY <1>1, EmptyPlan
<1> QED
  BY <1>2, PutPlan

\* The inductive invariant survives every step: one case per action.
LEMMA InvStep == IInv /\ [Next]_vars => IInv'
<1> SUFFICES ASSUME IInv, [Next]_vars PROVE IInv'
  OBVIOUS
<1>0. TypeOK /\ TypeOK'
  BY TypeStep DEF IInv
<1> USE <1>0
<1>1. ASSUME NEW p \in Sessions, RunCycle(p) PROVE IInv'
  BY <1>1, EmptyPutPlan DEF RunCycle, Put, TypeOK, Idle
<1>2. ASSUME NEW p \in Sessions, NEW t \in Tickets, GenerateForTicketId(p, t)
      PROVE  IInv'
  BY <1>2, EmptyPutPlan DEF GenerateForTicketId, Put, TypeOK, Idle
<1>3. ASSUME NEW p \in Sessions, NEW t \in Tickets, OpenGap(p, t) PROVE IInv'
  BY <1>3, EmptyPutPlan DEF OpenGap, Put, TypeOK, Idle
<1>4. ASSUME NEW p \in Sessions, NEW k \in Fetched, ExitIdempotently(p, k)
      PROVE  IInv'
  BY <1>4, EmptyPutPlan DEF ExitIdempotently, AfterTicket, Put, TypeOK, Idle
<1>5. ASSUME NEW p \in Sessions, NEW k \in Fetched, BeginTicket(p, k)
      PROVE  IInv'
  <2>1. sess[p].row = NoRow
    BY <1>5 DEF BeginTicket, IInv, PlanOK
  <2>2. /\ sess'[p].row = NoRow /\ sess'[p].pc = "embed"
        /\ sess'[p].tkt \in Tickets
    BY <1>5, <2>1 DEF BeginTicket, Put, TypeOK, Session, Fetched
  <2> QED BY <1>5, <2>2, EmptyPutPlan DEF BeginTicket, Put, TypeOK
<1>6. ASSUME NEW p \in Sessions, FlagThin(p) PROVE IInv'
  <2>1. sess[p].tkt \in Tickets
    BY <1>6 DEF FlagThin, IInv, PlanOK
  <2>2. PlanOK(sess[p])'
    BY <1>6, <2>1 DEF FlagThin, Put, TypeOK, Session, PlanOK, MatchOK, Skipped
  <2> QED BY <1>6, <2>2, PutPlan DEF FlagThin, Put, TypeOK
<1>7. ASSUME NEW p \in Sessions, CheckDuplicate(p) PROVE IInv'
  <2> DEFINE t == sess[p].tkt
  <2>1. t \in Tickets
    BY <1>7 DEF CheckDuplicate, IInv, PlanOK
  <2>2. PICK H \in TopHits(t) : \E v \in Verdicts(t, H) :
          Put(p, [sess[p] EXCEPT
                    !.pc = IF v.decision = "COVERED" THEN "record" ELSE "generate",
                    !.row = v])
    BY <1>7 DEF CheckDuplicate
  <2>3. PICK v \in Verdicts(t, H) :
          Put(p, [sess[p] EXCEPT
                    !.pc = IF v.decision = "COVERED" THEN "record" ELSE "generate",
                    !.row = v])
    BY <2>2
  <2>4. /\ sess'[p].row = v
        /\ sess'[p].pc \in {"record", "generate"}
        /\ sess'[p].tkt = t
    BY <2>3 DEF Put, TypeOK, Session
  <2>5. v.draft = NIL /\ MatchOK(t, v)
    BY <2>1, VerdictSound DEF MatchOK, Searchable
  <2>6. UNCHANGED <<article, pt, indexed>>
    BY <1>7 DEF CheckDuplicate
  <2>7. PlanOK(sess[p])'
    BY <2>1, <2>4, <2>5, <2>6 DEF PlanOK, MatchOK
  <2> QED BY <2>3, <2>6, <2>7, PutPlan DEF Put, TypeOK
<1>8. ASSUME NEW p \in Sessions, FetchNeighbours(p) PROVE IInv'
  <2>1. CASE HasNeighbour(sess[p].tkt)
    <3>1. PlanOK(sess[p])'
      BY <1>8, <2>1
      DEF FetchNeighbours, Put, TypeOK, Session, IInv, PlanOK, MatchOK, Drafting
    <3> QED BY <1>8, <3>1, PutPlan DEF FetchNeighbours, Put, TypeOK
  <2>2. CASE ~HasNeighbour(sess[p].tkt)
    BY <1>8, <2>2, EmptyPutPlan DEF FetchNeighbours, Put, TypeOK, Idle
  <2> QED BY <2>1, <2>2
<1>9. ASSUME NEW p \in Sessions, NEW a \in ArticleIds, CreateDraft(p, a)
      PROVE  IInv'
  \* The new article was nobody's match and nobody's draft.
  <2>1. article[a].status = "NONE" /\ UNCHANGED <<pt, indexed>>
    BY <1>9 DEF CreateDraft, Unused
  <2>2. /\ article'[a].status = "DRAFT" /\ article'[a].src = sess[p].tkt
        /\ \A b \in ArticleIds \ {a} : article'[b] = article[b]
    BY <1>9 DEF CreateDraft, TypeOK
  <2>3. ASSUME NEW t \in Tickets \cup {NIL}, NEW r \in Row, MatchOK(t, r)
        PROVE  r.matched # NIL => /\ article'[r.matched].status # "NONE"
                                  /\ article'[r.matched].src # t
    BY <2>1, <2>2, <2>3 DEF MatchOK, Row
  <2>4. ASSUME NEW t \in Tickets PROVE MatchOK(t, pt[t])'
    BY <2>1, <2>3 DEF IInv, TypeOK, MatchOK
  <2>5. DraftIsOwnAndIndexed'
    BY <2>1, <2>2 DEF IInv, TypeOK, DraftIsOwnAndIndexed, Row
  <2>6. ASSUME NEW q \in Sessions \ {p} PROVE PlanOK(sess[q])'
    <3>1. sess'[q] = sess[q] /\ PlanOK(sess[q])
      BY <1>9 DEF CreateDraft, Put, TypeOK, IInv
    <3>2. sess[q].row \in Row /\ sess[q].tkt \in Tickets \cup {NIL}
      BY DEF TypeOK, Session
    <3> QED BY <2>1, <2>2, <2>3, <3>1, <3>2 DEF PlanOK, MatchOK, Row, Exists
  <2>7. PlanOK(sess[p])'
    <3>1. /\ sess'[p].pc = "index" /\ sess'[p].tkt = sess[p].tkt
          /\ sess'[p].row.draft = a /\ sess'[p].row.matched = sess[p].row.matched
      BY <1>9 DEF CreateDraft, Put, TypeOK, Session, Row
    <3>2. /\ sess[p].row \in Row /\ sess[p].tkt \in Tickets
          /\ MatchOK(sess[p].tkt, sess[p].row)
      BY <1>9 DEF CreateDraft, TypeOK, Session, IInv, PlanOK
    <3> QED BY <2>2, <2>3, <3>1, <3>2 DEF PlanOK, MatchOK
  <2> QED BY <2>4, <2>5, <2>6, <2>7 DEF IInv
<1>10. ASSUME NEW p \in Sessions, IndexDraft(p) PROVE IInv'
  <2>1. CASE Exists(sess[p].row.draft)
    <3>1. /\ sess'[p] = [sess[p] EXCEPT !.pc = "record"]
          /\ indexed' = indexed \cup {sess[p].row.draft}
          /\ UNCHANGED <<article, pt>>
      BY <1>10, <2>1 DEF IndexDraft, Put, TypeOK
    <3>2. PlanOK(sess[p])'
      BY <1>10, <3>1 DEF IndexDraft, TypeOK, Session, IInv, PlanOK, MatchOK
    <3> QED BY <1>10, <2>1, <3>1, <3>2, PutPlan DEF IndexDraft, Put, TypeOK
  <2>2. CASE ~Exists(sess[p].row.draft)
    BY <1>10, <2>2, EmptyPutPlan DEF IndexDraft, Poisoned, Put, TypeOK, Idle
  <2> QED BY <2>1, <2>2
<1>11. ASSUME NEW p \in Sessions, RecordRead(p) PROVE IInv'
  <2>1. /\ sess'[p].pc = "commit" /\ sess'[p].tkt = sess[p].tkt
        /\ sess'[p].row = sess[p].row
    BY <1>11 DEF RecordRead, Put, TypeOK, Session
  <2>2. PlanOK(sess[p])'
    BY <1>11, <2>1 DEF RecordRead, IInv, PlanOK, MatchOK, Exists
  <2> QED BY <1>11, <2>2, PutPlan DEF RecordRead, Put, TypeOK
<1>12. ASSUME NEW p \in Sessions, RecordCommit(p) PROVE IInv'
  <2> DEFINE s == sess[p]
  <2>1. /\ s.pc = "commit" /\ s.tkt \in Tickets /\ PlanOK(s)
        /\ s.row \in Row /\ s.loaded \in Row
    BY <1>12 DEF RecordCommit, TypeOK, Session, IInv, PlanOK
  <2>2. CASE ~FlushSucceeds(s)
    BY <1>12, <2>2, EmptyPutPlan DEF RecordCommit, Poisoned, Put, TypeOK, Idle
  <2>3. CASE FlushSucceeds(s)
    <3> DEFINE r == Merged(pt[s.tkt], s.loaded, s.row)
    <3>1. /\ pt' = [pt EXCEPT ![s.tkt] = r]
          /\ sess' = [sess EXCEPT ![p] = AfterTicket(s)]
          /\ UNCHANGED <<article, indexed>>
      BY <1>12, <2>3 DEF RecordCommit, Put
    <3>2. MatchOK(s.tkt, r)
      BY <2>1 DEF IInv, PlanOK, MatchOK, Merged
    <3>3. ASSUME NEW t \in Tickets PROVE MatchOK(t, pt[t])'
      BY <2>1, <3>1, <3>2 DEF IInv, TypeOK, MatchOK
    <3>4. r.draft # NIL => /\ article[r.draft].src = s.tkt
                           /\ article[r.draft].status \in {"DRAFT", "REJECTED"}
                           /\ r.draft \in indexed
      BY <2>1, <2>3
      DEF IInv, PlanOK, Merged, FlushSucceeds, Exists, DraftIsOwnAndIndexed
    <3>5. DraftIsOwnAndIndexed'
      BY <2>1, <3>1, <3>4 DEF IInv, TypeOK, DraftIsOwnAndIndexed
    <3>6. ASSUME NEW q \in Sessions PROVE PlanOK(sess[q])'
      <4>1. CASE q = p
        BY <2>1, <3>1, <4>1, AfterTicketPlan DEF TypeOK, PlanOK, MatchOK
      <4>2. CASE q # p
        BY <3>1, <4>2 DEF IInv, TypeOK, PlanOK, MatchOK, Exists
      <4> QED BY <4>1, <4>2
    <3> QED BY <3>3, <3>5, <3>6 DEF IInv
  <2> QED BY <2>2, <2>3
<1>13. ASSUME NEW p \in Sessions, CallFails(p) PROVE IInv'
  BY <1>13, EmptyPutPlan DEF CallFails, AfterTicket, Put, TypeOK, Idle
<1>14. CASE Crash
  <2>1. ASSUME NEW q \in Sessions PROVE PlanOK(sess[q])'
    BY <1>14, IdleSession, EmptyPlan DEF Crash, Idle
  <2> QED BY <1>14, <2>1 DEF Crash, IInv, MatchOK, DraftIsOwnAndIndexed
<1>15. ASSUME NEW a \in ArticleIds, RejectDraft(a) PROVE IInv'
  <2>1. /\ article[a].status \in {"DRAFT", "IMPORTED"}
        /\ article'[a].status = "REJECTED" /\ article'[a].src = article[a].src
        /\ \A b \in ArticleIds \ {a} : article'[b] = article[b]
        /\ UNCHANGED <<pt, indexed, sess>>
    BY <1>15 DEF RejectDraft, TypeOK, Article
  <2>2. ASSUME NEW t \in Tickets PROVE MatchOK(t, pt[t])'
    BY <2>1 DEF IInv, TypeOK, MatchOK, Row
  <2>3. DraftIsOwnAndIndexed'
    BY <2>1 DEF IInv, TypeOK, DraftIsOwnAndIndexed, Row
  <2>4. ASSUME NEW q \in Sessions PROVE PlanOK(sess[q])'
    <3>1. PlanOK(sess[q]) /\ sess[q].row \in Row
      BY DEF IInv, TypeOK, Session
    <3> QED BY <2>1, <3>1 DEF PlanOK, MatchOK, Row, Exists
  <2> QED BY <2>2, <2>3, <2>4 DEF IInv
<1>16. CASE ResetState
  <2>1. /\ \A b \in ArticleIds :
               /\ article'[b].src = article[b].src
               /\ article'[b].status \in {"NONE", "DELETED"}
               /\ article'[b].status = "NONE" <=> article[b].status = "NONE"
        /\ indexed' = {} /\ pt' = [t \in Tickets |-> NoRow]
        /\ UNCHANGED sess
    BY <1>16 DEF ResetState, TypeOK, Article, Exists
  <2>2. ASSUME NEW q \in Sessions PROVE PlanOK(sess[q])'
    <3>1. PlanOK(sess[q]) /\ sess[q].row \in Row
      BY DEF IInv, TypeOK, Session
    <3> QED BY <2>1, <3>1 DEF PlanOK, MatchOK, Row, Exists
  <2> QED BY <2>1, <2>2 DEF IInv, MatchOK, DraftIsOwnAndIndexed, NoRow
<1>17. ASSUME NEW t \in Tickets, NEW n \in Notes, ResolveTicket(t, n) PROVE IInv'
  BY <1>17 DEF ResolveTicket, IInv, MatchOK, DraftIsOwnAndIndexed, PlanOK, Exists
<1>18. CASE UNCHANGED vars
  BY <1>18 DEF vars, IInv, MatchOK, DraftIsOwnAndIndexed, PlanOK, Exists
<1> QED
  BY <1>1, <1>2, <1>3, <1>4, <1>5, <1>6, <1>7, <1>8, <1>9, <1>10, <1>11, <1>12,
     <1>13, <1>14, <1>15, <1>16, <1>17, <1>18
  DEF Next, Start, Step, Environment

-----------------------------------------------------------------------------
(* Theorems *)

\* The inductive invariant holds in every reachable state.
LEMMA Invariance == Spec => []IInv
BY InvInit, InvStep, PTL DEF Spec

\* The tables and the sessions' records keep their types.
THEOREM TypeCorrect == Spec => []TypeOK
<1>1. IInv => TypeOK
  BY DEF IInv
<1> QED
  BY Invariance, <1>1, PTL

\* No ticket is ever matched with an article drafted from it, for any number
\* of overlapping sessions, crashes, failed calls and resets.
THEOREM NeverSelfCovered == Spec => []NoSelfCover
<1>1. IInv => NoSelfCover
  BY DEF IInv, MatchOK, NoSelfCover
<1> QED
  BY Invariance, <1>1, PTL

\* The draft a ticket points at is its own and is always searchable.
THEOREM DraftsFound == Spec => []DraftIsOwnAndIndexed
<1>1. IInv => DraftIsOwnAndIndexed
  BY DEF IInv
<1> QED
  BY Invariance, <1>1, PTL

-----------------------------------------------------------------------------
(* One session at a time.  What follows holds while MaxConcurrent = 1, as    *)
(* long as no request comes during a cycle: pipeline_one_master shows that   *)
(* it fails with two sessions.                                               *)

Solo == \A p, q \in Sessions : sess[p].pc # "idle" /\ sess[q].pc # "idle" => p = q

\* What the tables satisfy: a row with a draft is decided, articles drafted
\* here name their ticket, imported ones none, and chunks have an article.
RowsOK ==
    /\ \A t \in Tickets : pt[t].draft # NIL => pt[t].decision = "DRAFTED"
    /\ \A a \in ArticleIds :
          IF article[a].source = "imported_from_itsm" THEN article[a].src = NIL
                                                      ELSE article[a].src \in Tickets
    /\ \A a \in indexed : article[a].status # "NONE"

\* What the only session may rely on: until it commits, its ticket is as
\* undecided as when it read the row, and only a reset has touched the row; a
\* reset between its last read and its commit also removed its draft.
HoldOK(s) ==
    /\ s.source \in {"generated", "gap-rag"}
    /\ s.pc \in {"next", "embed"} => s.source = "generated"
    /\ s.pc = "ground" => s.source = "gap-rag"
    /\ s.pc \in {"idle", "next", "embed", "ground", "generate"} => s.row.draft = NIL
    /\ s.pc = "generate" \/ s.row.draft # NIL => s.row.decision = "DRAFTED"
    /\ s.row.draft # NIL => article[s.row.draft].source = s.source
    /\ s.source = "gap-rag" => s.row.matched = NIL
    /\ s.pc \notin {"idle", "next"} =>
          ~Decided(s.loaded) /\ pt[s.tkt] \in {s.loaded, NoRow}
    /\ s.pc = "commit" /\ s.row.draft # NIL /\ Exists(s.row.draft)
          => pt[s.tkt] = s.loaded

SerialInv == Solo /\ RowsOK /\ \A p \in Sessions : HoldOK(sess[p])

\* A session starts only when there is no other.
LEMMA StartsAlone ==
    ASSUME MaxConcurrent = 1, Solo, NEW p \in Sessions, MayStart(p),
           NEW q \in Sessions
    PROVE  sess[q].pc = "idle"
<1> SUFFICES ASSUME sess[q].pc # "idle" PROVE FALSE
  OBVIOUS
<1>1. Active = {q}
  BY DEF Active, Solo
<1>2. Cardinality(Active) = 1
  BY <1>1, FS_Singleton
<1> QED
  BY <1>2 DEF MayStart

\* Only one session acts in a step: the others are idle, before and after it.
ActsAlone(p) ==
    \A q \in Sessions \ {p} : sess[q].pc = "idle" /\ sess'[q] = sess[q]

\* The session a step replaces the record of acts alone.
LEMMA PutAlone ==
    ASSUME MaxConcurrent = 1, TypeOK, Solo, NEW p \in Sessions, NEW s,
           MayStart(p) \/ sess[p].pc # "idle", Put(p, s)
    PROVE  sess'[p] = s /\ ActsAlone(p)
<1>1. ASSUME NEW q \in Sessions \ {p} PROVE sess[q].pc = "idle"
  BY StartsAlone DEF Solo
<1> QED
  BY <1>1 DEF TypeOK, Put, ActsAlone

\* A session that acts does so alone.
LEMMA ActorAlone ==
    ASSUME MaxConcurrent = 1, TypeOK, Solo, NEW p \in Sessions,
           Start(p) \/ Step(p) \/ CallFails(p)
    PROVE  ActsAlone(p)
<1>1. MayStart(p) \/ sess[p].pc # "idle"
  BY DEF Start, Step, CallFails, RunCycle, GenerateForTicketId, OpenGap,
     ExitIdempotently, BeginTicket, FlagThin, CheckDuplicate, FetchNeighbours,
     CreateDraft, IndexDraft, RecordRead, RecordCommit
<1>2. \E s : Put(p, s)
  BY DEF Start, Step, CallFails, RunCycle, GenerateForTicketId, OpenGap,
     ExitIdempotently, BeginTicket, FlagThin, CheckDuplicate, FetchNeighbours,
     CreateDraft, IndexDraft, RecordRead, RecordCommit
<1> QED
  BY <1>1, <1>2, PutAlone

\* In every step a session acts alone, or all are stopped, or none moves.
LEMMA OneActs ==
    ASSUME MaxConcurrent = 1, TypeOK, Solo, [Next]_vars
    PROVE  UNCHANGED sess \/ Crash \/ \E p \in Sessions : ActsAlone(p)
<1>1. (\E t \in Tickets, n \in Notes : ResolveTicket(t, n)) => UNCHANGED sess
  BY DEF ResolveTicket
<1>2. (\E a \in ArticleIds : RejectDraft(a)) \/ ResetState \/ UNCHANGED vars
         => UNCHANGED sess
  BY DEF RejectDraft, ResetState, vars
<1> QED
  BY <1>1, <1>2, ActorAlone DEF Next, Environment

\* A session that acts alone leaves one session in flight, or none.
LEMMA SoloStep ==
    ASSUME MaxConcurrent = 1, TypeOK, Solo, [Next]_vars
    PROVE  Solo'
<1>1. CASE UNCHANGED sess
  BY <1>1 DEF Solo
<1>2. CASE Crash
  BY <1>2 DEF Crash, Solo, Idle
<1>3. CASE \E p \in Sessions : ActsAlone(p)
  BY <1>3 DEF ActsAlone, Solo
<1> QED
  BY <1>1, <1>2, <1>3, OneActs

\* An idle session relies on nothing, so no step of another disturbs it.
LEMMA IdleHolds ==
    ASSUME NEW q \in Sessions, HoldOK(sess[q]), sess[q].pc = "idle", sess'[q] = sess[q]
    PROVE  HoldOK(sess[q])'
BY DEF HoldOK

\* The empty tables and idle sessions satisfy the serial invariant.
LEMMA SerialInit == Init => SerialInv
BY ArticleIdAssumption
   DEF Init, SerialInv, Solo, RowsOK, HoldOK, Idle, NoRow

\* A session whose plan holds no article, no row and no match relies on nothing.
LEMMA FreshHolds ==
    ASSUME NEW s, s.pc \in {"idle", "next"}, s.row = NoRow, s.source = "generated"
    PROVE  HoldOK(s) /\ HoldOK(s)'
BY DEF HoldOK, NoRow

\* Nor does one that has just read the row of its ticket.
LEMMA BegunHolds ==
    ASSUME NEW p \in Sessions, sess'[p].row = NoRow, ~Decided(sess'[p].loaded),
           pt'[sess'[p].tkt] = sess'[p].loaded,
           \/ sess'[p].pc = "embed" /\ sess'[p].source = "generated"
           \/ sess'[p].pc = "ground" /\ sess'[p].source = "gap-rag"
    PROVE  HoldOK(sess[p])'
BY DEF HoldOK, NoRow

\* A session past its ticket's beginning keeps what it holds if it keeps the
\* ticket, the row it loaded and the source of its draft.
LEMMA PlanHolds ==
    ASSUME NEW p \in Sessions, HoldOK(sess[p]), UNCHANGED pt,
           sess[p].pc \notin {"idle", "next"},
           sess'[p].pc \in {"generate", "index", "record"},
           sess'[p].tkt = sess[p].tkt, sess'[p].loaded = sess[p].loaded,
           sess'[p].source = sess[p].source,
           sess[p].source = "gap-rag" => sess'[p].row.matched = NIL,
           \/ sess'[p].row.draft = NIL
           \/ /\ sess'[p].pc # "generate" /\ sess'[p].row.decision = "DRAFTED"
              /\ article'[sess'[p].row.draft].source = sess[p].source,
           sess'[p].pc = "generate" => sess'[p].row.decision = "DRAFTED"
    PROVE  HoldOK(sess[p])'
BY DEF HoldOK, Decided

\* While the others are idle, only the acting session's record is in question.
LEMMA AloneHolds ==
    ASSUME SerialInv, NEW p \in Sessions, ActsAlone(p), HoldOK(sess[p])'
    PROVE  \A q \in Sessions : HoldOK(sess[q])'
<1>1. ASSUME NEW q \in Sessions \ {p} PROVE HoldOK(sess[q])'
  BY IdleHolds DEF SerialInv, ActsAlone
<1> QED BY <1>1

\* A step of the only session keeps what it holds.
LEMMA StepHolds ==
    ASSUME MaxConcurrent = 1, IInv, SerialInv, NEW p \in Sessions,
           ActsAlone(p), Start(p) \/ Step(p) \/ CallFails(p)
    PROVE  \A q \in Sessions : HoldOK(sess[q])'
<1> DEFINE s == sess[p]
<1>0. /\ TypeOK /\ s \in Session /\ s.row \in Row /\ HoldOK(s) /\ PlanOK(s)
      /\ \A r : Put(p, r) => sess'[p] = r
  BY DEF IInv, SerialInv, TypeOK, Session, Put
<1> SUFFICES HoldOK(sess[p])'
  BY AloneHolds
<1>1. ASSUME NEW r, Put(p, r), r.pc \in {"idle", "next"}, r.row = NoRow,
             r.source = "generated"
      PROVE  HoldOK(sess[p])'
  BY <1>0, <1>1, FreshHolds DEF HoldOK, NoRow
<1>2. ASSUME NEW r, Put(p, AfterTicket(r)) PROVE HoldOK(sess[p])'
  BY <1>1, <1>2 DEF AfterTicket, Idle
<1>3. Put(p, Idle) => HoldOK(sess[p])'
  BY <1>1 DEF Idle
<1>4. CASE RunCycle(p)
  BY <1>1, <1>4 DEF RunCycle, Idle
<1>5. ASSUME NEW t \in Tickets, GenerateForTicketId(p, t) PROVE HoldOK(sess[p])'
  BY <1>1, <1>5 DEF GenerateForTicketId, Idle
<1>6. ASSUME NEW t \in Tickets, OpenGap(p, t) PROVE HoldOK(sess[p])'
  BY <1>0, <1>6, BegunHolds DEF OpenGap, IsGap, Decided, Idle
<1>7. ASSUME NEW k \in Fetched, ExitIdempotently(p, k) PROVE HoldOK(sess[p])'
  BY <1>2, <1>7 DEF ExitIdempotently
<1>8. ASSUME NEW k \in Fetched, BeginTicket(p, k) PROVE HoldOK(sess[p])'
  <2>1. s.pc = "next" /\ s.row = NoRow /\ s.source = "generated"
    BY <1>0, <1>8 DEF BeginTicket, PlanOK, HoldOK
  <2>2. /\ sess'[p].pc = "embed" /\ sess'[p].row = NoRow /\ sess'[p].tkt = k.id
        /\ sess'[p].loaded = pt[k.id] /\ sess'[p].source = "generated"
    BY <1>0, <1>8, <2>1 DEF BeginTicket, Session
  <2> QED BY <1>8, <2>2, BegunHolds DEF BeginTicket, AlreadyDecided
<1>9. CASE FlagThin(p)
  <2>1. /\ sess'[p].pc = "record" /\ sess'[p].row = Skipped
        /\ sess'[p].tkt = s.tkt /\ sess'[p].loaded = s.loaded
        /\ sess'[p].source = s.source
    BY <1>0, <1>9 DEF FlagThin, Session
  <2> QED BY <1>0, <1>9, <2>1, PlanHolds DEF FlagThin, Skipped
<1>10. CASE CheckDuplicate(p)
  <2>1. s.tkt \in Tickets /\ s.source = "generated"
    BY <1>0, <1>10 DEF CheckDuplicate, PlanOK, HoldOK
  <2>2. PICK H \in TopHits(s.tkt) : \E v \in Verdicts(s.tkt, H) :
          Put(p, [s EXCEPT
                    !.pc = IF v.decision = "COVERED" THEN "record" ELSE "generate",
                    !.row = v])
    BY <1>10 DEF CheckDuplicate
  <2>3. PICK v \in Verdicts(s.tkt, H) :
          Put(p, [s EXCEPT
                    !.pc = IF v.decision = "COVERED" THEN "record" ELSE "generate",
                    !.row = v])
    BY <2>2
  <2>4. /\ sess'[p].pc = (IF v.decision = "COVERED" THEN "record" ELSE "generate")
        /\ sess'[p].row = v /\ sess'[p].tkt = s.tkt /\ sess'[p].loaded = s.loaded
        /\ sess'[p].source = s.source
    BY <1>0, <2>3 DEF Session
  <2>5. v.draft = NIL /\ v.decision \in {"COVERED", "DRAFTED"}
    BY <2>1, VerdictSound
  <2> QED BY <1>0, <1>10, <2>1, <2>4, <2>5, PlanHolds DEF CheckDuplicate
<1>11. CASE FetchNeighbours(p)
  <2>1. CASE HasNeighbour(s.tkt)
    <3>1. /\ sess'[p].pc = "generate" /\ sess'[p].row = Drafting(NIL)
          /\ sess'[p].tkt = s.tkt /\ sess'[p].loaded = s.loaded
          /\ sess'[p].source = s.source
      BY <1>0, <1>11, <2>1 DEF FetchNeighbours, Session
    <3> QED BY <1>0, <1>11, <3>1, PlanHolds DEF FetchNeighbours, Drafting
  <2> QED BY <1>3, <1>11, <2>1 DEF FetchNeighbours
<1>12. ASSUME NEW a \in ArticleIds, CreateDraft(p, a) PROVE HoldOK(sess[p])'
  <2>1. /\ sess'[p].pc = "index" /\ sess'[p].row = [s.row EXCEPT !.draft = a]
        /\ sess'[p].tkt = s.tkt /\ sess'[p].loaded = s.loaded
        /\ sess'[p].source = s.source
    BY <1>0, <1>12 DEF CreateDraft, Session
  <2>2. /\ sess'[p].row.draft = a /\ sess'[p].row.matched = s.row.matched
        /\ sess'[p].row.decision = "DRAFTED" /\ article'[a].source = s.source
    BY <1>0, <1>12, <2>1 DEF CreateDraft, Row, HoldOK, TypeOK
  <2> QED BY <1>0, <1>12, <2>1, <2>2, PlanHolds DEF CreateDraft, HoldOK
<1>13. CASE IndexDraft(p)
  <2>1. CASE Put(p, [s EXCEPT !.pc = "record"])
    <3>1. /\ sess'[p].pc = "record" /\ sess'[p].row = s.row
          /\ sess'[p].tkt = s.tkt /\ sess'[p].loaded = s.loaded
          /\ sess'[p].source = s.source
      BY <1>0, <2>1 DEF Session
    <3> QED BY <1>0, <1>13, <3>1, PlanHolds DEF IndexDraft, HoldOK
  <2> QED BY <1>3, <1>13, <2>1 DEF IndexDraft, Poisoned
<1>14. CASE RecordRead(p)
  <2>1. /\ sess'[p].pc = "commit" /\ sess'[p].row = s.row
        /\ sess'[p].tkt = s.tkt /\ sess'[p].source = s.source
        /\ sess'[p].loaded = IF NoRow \in {s.loaded, pt[s.tkt]} THEN pt[s.tkt]
                                                                ELSE s.loaded
        /\ UNCHANGED <<article, pt>>
    BY <1>0, <1>14 DEF RecordRead, Session
  <2>2. sess'[p].loaded = pt[s.tkt] /\ ~Decided(pt[s.tkt])
    BY <1>0, <1>14, <2>1 DEF RecordRead, HoldOK, Decided, NoRow
  <2> QED BY <1>0, <2>1, <2>2 DEF HoldOK, Decided
<1>15. CASE RecordCommit(p)
  BY <1>2, <1>3, <1>15 DEF RecordCommit, Poisoned
<1>16. CASE CallFails(p)
  BY <1>2, <1>16 DEF CallFails
<1> QED
  BY <1>4, <1>5, <1>6, <1>7, <1>8, <1>9, <1>10, <1>11, <1>12, <1>13, <1>14,
     <1>15, <1>16 DEF Start, Step

\* A flush that succeeds finds the row its session loaded, still undecided, and
\* so records the whole plan.
LEMMA CommitIsExact ==
    ASSUME IInv, SerialInv, NEW p \in Sessions, RecordCommit(p),
           FlushSucceeds(sess[p])
    PROVE  /\ sess[p].tkt \in Tickets
           /\ ~Decided(pt[sess[p].tkt])
           /\ pt' = [pt EXCEPT ![sess[p].tkt] = sess[p].row]
           /\ Put(p, AfterTicket(sess[p]))
<1> DEFINE s == sess[p]
<1>0. /\ s.tkt \in Tickets /\ s.row \in Row /\ s.loaded \in Row /\ HoldOK(s)
      /\ s.pc = "commit"
  BY DEF RecordCommit, IInv, PlanOK, SerialInv, TypeOK, Session
<1>1. pt[s.tkt] = s.loaded /\ ~Decided(s.loaded)
  BY <1>0 DEF HoldOK, FlushSucceeds
<1>2. Merged(s.loaded, s.loaded, s.row) = s.row
  BY <1>0 DEF Merged, Row
<1> QED
  BY <1>0, <1>1, <1>2 DEF RecordCommit

\* An idle session whose tables change relies on none of them, and one in
\* flight survives a rejection, a reset and a resolved ticket.
LEMMA EnvironmentHolds ==
    ASSUME IInv, SerialInv, NEW q \in Sessions,
           \/ \E a \in ArticleIds : RejectDraft(a)
           \/ ResetState
           \/ \E t \in Tickets, n \in Notes : ResolveTicket(t, n)
           \/ UNCHANGED vars
    PROVE  HoldOK(sess[q])'
<1>0. /\ HoldOK(sess[q]) /\ PlanOK(sess[q]) /\ sess[q] \in Session
      /\ sess[q].row.draft \in ArticleIds \cup {NIL} /\ TypeOK
  BY DEF IInv, SerialInv, TypeOK, Session, Row
<1>1. ASSUME NEW a \in ArticleIds, RejectDraft(a) PROVE HoldOK(sess[q])'
  <2> DEFINE d == sess[q].row.draft
  <2>1. UNCHANGED <<sess, pt>>
    BY <1>1 DEF RejectDraft
  <2>2. ASSUME d # NIL
        PROVE  article'[d].source = article[d].source /\ Exists(d)' = Exists(d)
    BY <1>0, <1>1, <2>1, <2>2 DEF RejectDraft, TypeOK, Article, Exists
  <2>3. sess'[q] = sess[q] /\ pt' = pt
    BY <2>1
  <2> QED BY <1>0, <2>2, <2>3 DEF HoldOK
<1>2. CASE ResetState
  <2>1. /\ \A b \in ArticleIds : /\ article'[b].source = article[b].source
                                 /\ article'[b].status \in {"NONE", "DELETED"}
        /\ pt' = [t \in Tickets |-> NoRow] /\ UNCHANGED sess
    BY <1>0, <1>2 DEF ResetState, TypeOK, Article, Exists
  <2> QED BY <1>0, <2>1 DEF HoldOK, PlanOK, Exists
<1>3. CASE (\E t \in Tickets, n \in Notes : ResolveTicket(t, n)) \/ UNCHANGED vars
  <2>1. UNCHANGED <<article, pt, sess>>
    BY <1>3 DEF ResolveTicket, vars
  <2> QED BY <1>0, <2>1 DEF HoldOK, Exists
<1> QED
  BY <1>1, <1>2, <1>3

\* What the sessions write keeps the tables sound.
LEMMA RowsStep ==
    ASSUME MaxConcurrent = 1, IInv, SerialInv, [Next]_vars
    PROVE  RowsOK'
<1>0. TypeOK /\ RowsOK /\ \A p \in Sessions : HoldOK(sess[p]) /\ PlanOK(sess[p])
  BY DEF IInv, SerialInv
<1>1. CASE UNCHANGED <<article, indexed, pt>>
  BY <1>0, <1>1 DEF RowsOK
<1>2. ASSUME NEW p \in Sessions, NEW a \in ArticleIds, CreateDraft(p, a) PROVE RowsOK'
  <2>1. /\ article'[a].status = "DRAFT" /\ article'[a].src = sess[p].tkt
        /\ article'[a].source = sess[p].source
        /\ \A b \in ArticleIds \ {a} : article'[b] = article[b]
        /\ UNCHANGED <<indexed, pt>>
    BY <1>0, <1>2 DEF CreateDraft, TypeOK
  <2>2. sess[p].tkt \in Tickets /\ sess[p].source # "imported_from_itsm"
    BY <1>0, <1>2 DEF CreateDraft, HoldOK, PlanOK
  <2> QED BY <1>0, <2>1, <2>2 DEF RowsOK, TypeOK
<1>3. ASSUME NEW p \in Sessions, IndexDraft(p) PROVE RowsOK'
  BY <1>0, <1>3 DEF IndexDraft, RowsOK, Exists
<1>4. ASSUME NEW p \in Sessions, RecordCommit(p) PROVE RowsOK'
  <2>1. CASE FlushSucceeds(sess[p])
    <3>1. /\ pt' = [pt EXCEPT ![sess[p].tkt] = sess[p].row]
          /\ sess[p].tkt \in Tickets /\ UNCHANGED <<article, indexed>>
      BY <1>4, <2>1, CommitIsExact DEF RecordCommit
    <3> QED BY <1>0, <3>1 DEF RowsOK, HoldOK, TypeOK
  <2>2. CASE ~FlushSucceeds(sess[p])
    BY <1>1, <1>4, <2>2 DEF RecordCommit
  <2> QED BY <2>1, <2>2
<1>5. ASSUME NEW a \in ArticleIds, RejectDraft(a) PROVE RowsOK'
  BY <1>0, <1>5 DEF RejectDraft, RowsOK, TypeOK, Article
<1>6. CASE ResetState
  BY <1>0, <1>6 DEF ResetState, RowsOK, TypeOK, Article, NoRow
<1>7. CASE \/ \E p \in Sessions : Start(p) \/ CallFails(p)
           \/ Crash \/ UNCHANGED vars
           \/ \E t \in Tickets, n \in Notes : ResolveTicket(t, n)
  <2>1. UNCHANGED <<article, indexed, pt>>
    BY <1>7 DEF Start, CallFails, Crash, ResolveTicket, RunCycle, OpenGap,
       GenerateForTicketId, vars
  <2> QED BY <1>1, <2>1
<1>8. ASSUME NEW p \in Sessions,
             \/ \E k \in Fetched : ExitIdempotently(p, k) \/ BeginTicket(p, k)
             \/ FlagThin(p) \/ CheckDuplicate(p) \/ FetchNeighbours(p) \/ RecordRead(p)
      PROVE  RowsOK'
  <2>1. UNCHANGED <<article, indexed, pt>>
    BY <1>8 DEF ExitIdempotently, BeginTicket, FlagThin, CheckDuplicate,
       FetchNeighbours, RecordRead
  <2> QED BY <1>1, <2>1
<1> QED
  BY <1>2, <1>3, <1>4, <1>5, <1>6, <1>7, <1>8 DEF Next, Step, Environment

\* The serial invariant survives every step.
LEMMA SerialStep ==
    ASSUME MaxConcurrent = 1, IInv, SerialInv, [Next]_vars
    PROVE  SerialInv'
<1>1. Solo' /\ RowsOK'
  BY SoloStep, RowsStep DEF IInv, SerialInv
<1>2. \A q \in Sessions : HoldOK(sess[q])'
  <2>1. ASSUME NEW p \in Sessions, Start(p) \/ Step(p) \/ CallFails(p)
        PROVE  \A q \in Sessions : HoldOK(sess[q])'
    <3>1. ActsAlone(p)
      BY <2>1, ActorAlone DEF IInv, SerialInv
    <3> QED BY <2>1, <3>1, StepHolds
  <2>2. CASE Crash
    BY <2>2, FreshHolds DEF Crash, Idle
  <2> QED BY <2>1, <2>2, EnvironmentHolds DEF Next, Environment
<1> QED
  BY <1>1, <1>2 DEF SerialInv

\* A decided ticket's row is written by no session: the only one commits to a
\* row that it found undecided.
LEMMA DecidedStep ==
    ASSUME MaxConcurrent = 1, IInv, SerialInv, [Next]_vars, NEW t \in Tickets,
           Decided(pt[t])
    PROVE  pt'[t] = pt[t] \/ resets' # resets
<1>1. ASSUME NEW p \in Sessions, RecordCommit(p) PROVE pt'[t] = pt[t]
  <2>1. CASE FlushSucceeds(sess[p])
    BY <1>1, <2>1, CommitIsExact DEF IInv, TypeOK
  <2> QED BY <1>1, <2>1 DEF RecordCommit
<1>2. ResetState => resets' # resets
  BY DEF ResetState, IInv, TypeOK
<1>3. ASSUME NEW p \in Sessions, Start(p) \/ Step(p) \/ CallFails(p)
      PROVE  RecordCommit(p) \/ UNCHANGED pt
  BY <1>3 DEF Start, Step, CallFails, RunCycle, GenerateForTicketId, OpenGap,
     ExitIdempotently, BeginTicket, FlagThin, CheckDuplicate, FetchNeighbours,
     CreateDraft, IndexDraft, RecordRead
<1>4. \/ \E u \in Tickets, n \in Notes : ResolveTicket(u, n)
      \/ Crash \/ UNCHANGED vars
      \/ \E a \in ArticleIds : RejectDraft(a)
      => UNCHANGED pt
  BY DEF ResolveTicket, Crash, RejectDraft, vars
<1> QED
  BY <1>1, <1>2, <1>3, <1>4 DEF Next, Environment

\* With one session at a time, the serial invariant holds as well.
LEMMA SerialInvariance == MaxConcurrent = 1 => (Spec => [](IInv /\ SerialInv))
<1> SUFFICES ASSUME MaxConcurrent = 1 PROVE Spec => [](IInv /\ SerialInv)
  OBVIOUS
<1>1. Init => IInv /\ SerialInv
  BY InvInit, SerialInit
<1>2. IInv /\ SerialInv /\ [Next]_vars => IInv' /\ SerialInv'
  BY InvStep, SerialStep
<1> QED
  BY <1>1, <1>2, PTL DEF Spec

\* One session at a time, a DRAFTED or COVERED row is final: the early return of
\* process_ticket is enough, since nothing commits between the look at the row
\* and the commit to it but a reset.
THEOREM DecidedFinal == MaxConcurrent = 1 => (Spec => DecidedIsFinal)
<1> DEFINE Final == \A t \in Tickets :
                       Decided(pt[t]) => pt'[t] = pt[t] \/ resets' # resets
<1> SUFFICES ASSUME MaxConcurrent = 1 PROVE Spec => DecidedIsFinal
  OBVIOUS
<1>1. Spec => [](IInv /\ SerialInv)
  BY SerialInvariance
<1>2. IInv /\ SerialInv /\ [Next]_vars => Final
  BY DecidedStep
<1> QED
  BY <1>1, <1>2, PTL DEF Spec, DecidedIsFinal

-----------------------------------------------------------------------------
(* Orphans.  The invariant is a count, and the doubtful step is a commit     *)
(* that fails for good: it drops a draft nobody has paid for.  It fails only *)
(* because a reset deleted the article the plan matched, so the reset pays.  *)
(* Gap drafts match nothing: a fault pays for each of their orphans.         *)

\* The session's commit will fail although its draft exists, or will exist.
DoomedBy(s) ==
    /\ s.pc \in {"generate", "index", "record", "commit"}
    /\ s.row.matched # NIL
    /\ ~Exists(s.row.matched)
    /\ s.pc = "generate" \/ (s.row.draft # NIL /\ Exists(s.row.draft))
Doomed == \E p \in Sessions : DoomedBy(sess[p])

GapOrphans == {a \in Orphans : article[a].source = "gap-rag"}

OrphanBound ==
    /\ IsFiniteSet(Orphans)
    /\ Cardinality(Orphans) <= faults + resets
    /\ Cardinality(GapOrphans) <= faults
    /\ Doomed => Cardinality(Orphans) + 1 <= faults + resets

\* A finite set that loses elements and gains at most one grows by at most one.
LEMMA OneMore ==
    ASSUME NEW S, NEW T, NEW d, IsFiniteSet(S), T \subseteq S \cup {d}
    PROVE  /\ IsFiniteSet(T)
           /\ Cardinality(T) \in Nat /\ Cardinality(S) \in Nat
           /\ Cardinality(T) <= Cardinality(S) + 1
           /\ T \subseteq S => Cardinality(T) <= Cardinality(S)
<1>1. /\ IsFiniteSet(S \cup {d}) /\ Cardinality(S \cup {d}) \in Nat
      /\ Cardinality(S) \in Nat /\ Cardinality(S \cup {d}) <= Cardinality(S) + 1
  BY FS_AddElement, FS_CardinalityType
<1>2. IsFiniteSet(T) /\ Cardinality(T) <= Cardinality(S \cup {d})
  BY <1>1, FS_Subset
<1>3. T \subseteq S => Cardinality(T) <= Cardinality(S)
  BY FS_Subset
<1> QED
  BY <1>1, <1>2, <1>3, FS_CardinalityType

\* A step that orphans nothing and dooms nothing keeps the count.
LEMMA NoneLost ==
    ASSUME TypeOK, TypeOK', OrphanBound, Orphans' \subseteq Orphans,
           \A b \in Orphans : article'[b].source = article[b].source,
           faults' >= faults, resets' >= resets, Doomed' => Doomed
    PROVE  OrphanBound'
<1>1. /\ IsFiniteSet(Orphans') /\ Cardinality(Orphans') \in Nat
      /\ Cardinality(Orphans) \in Nat /\ Cardinality(Orphans') <= Cardinality(Orphans)
  BY OneMore DEF OrphanBound
<1>2. GapOrphans' \subseteq GapOrphans /\ IsFiniteSet(GapOrphans)
  BY FS_Subset DEF GapOrphans, OrphanBound
<1>3. /\ Cardinality(GapOrphans') \in Nat /\ Cardinality(GapOrphans) \in Nat
      /\ Cardinality(GapOrphans') <= Cardinality(GapOrphans)
  BY <1>2, OneMore
<1> QED
  BY <1>1, <1>3 DEF OrphanBound, TypeOK

\* A step that orphans the one draft in hand keeps it if it is a fault, or if
\* the draft was doomed.
LEMMA OneLost ==
    ASSUME TypeOK, TypeOK', OrphanBound, NEW d, Orphans' \subseteq Orphans \cup {d},
           UNCHANGED article,
           \/ faults' = faults + 1 /\ resets' = resets
           \/ /\ Doomed /\ UNCHANGED <<faults, resets>>
              /\ d \in ArticleIds => article[d].source # "gap-rag",
           ~Doomed'
    PROVE  OrphanBound'
<1>1. /\ IsFiniteSet(Orphans') /\ Cardinality(Orphans') \in Nat
      /\ Cardinality(Orphans) \in Nat
      /\ Cardinality(Orphans') <= Cardinality(Orphans) + 1
  BY OneMore DEF OrphanBound
<1>2. /\ GapOrphans' \subseteq GapOrphans \cup {d} /\ IsFiniteSet(GapOrphans)
      /\ (d \in ArticleIds => article[d].source # "gap-rag")
           => GapOrphans' \subseteq GapOrphans
  BY FS_Subset DEF GapOrphans, OrphanBound, Orphans
<1>3. /\ Cardinality(GapOrphans') \in Nat /\ Cardinality(GapOrphans) \in Nat
      /\ Cardinality(GapOrphans') <= Cardinality(GapOrphans) + 1
      /\ GapOrphans' \subseteq GapOrphans
           => Cardinality(GapOrphans') <= Cardinality(GapOrphans)
  BY <1>2, OneMore
<1> QED
  BY <1>1, <1>2, <1>3 DEF OrphanBound, TypeOK

\* A session that acts alone and leaves articles and rows alone orphans at most
\* the draft it held.
LEMMA AloneLoses ==
    ASSUME TypeOK, TypeOK', SerialInv, NEW p \in Sessions, ActsAlone(p),
           UNCHANGED <<article, pt>>
    PROVE  /\ Orphans' \subseteq Orphans \cup {sess[p].row.draft}
           /\ \/ sess'[p].row.draft = sess[p].row.draft
              \/ sess[p].row.draft = NIL
              \/ ~Exists(sess[p].row.draft)
              => Orphans' \subseteq Orphans
<1>1. ASSUME NEW a \in ArticleIds, InFlight(a),
             a = sess[p].row.draft => sess'[p].row.draft = a
      PROVE  InFlight(a)'
  <2>1. PICK q \in Sessions : sess[q].row.draft = a
    BY <1>1 DEF InFlight
  <2>2. sess'[q].row.draft = a
    BY <1>1, <2>1 DEF ActsAlone
  <2> QED BY <2>2 DEF InFlight
<1> QED
  BY <1>1 DEF Orphans, Exists

\* Sessions other than the acting one are idle and doom nothing.
LEMMA DoomedAlone ==
    ASSUME SerialInv, NEW p \in Sessions, ActsAlone(p)
    PROVE  /\ Doomed <=> DoomedBy(sess[p])
           /\ Doomed' <=> DoomedBy(sess[p])'
BY DEF ActsAlone, Doomed, DoomedBy

\* A step that changes only its session's record, the chunks or nothing more.
LEMMA AloneBound ==
    ASSUME TypeOK, TypeOK', OrphanBound, SerialInv, NEW p \in Sessions, ActsAlone(p),
           UNCHANGED <<article, pt, resets>>, faults' \in {faults, faults + 1},
           \/ sess'[p].row.draft = sess[p].row.draft
           \/ sess[p].row.draft = NIL
           \/ ~Exists(sess[p].row.draft)
           \/ faults' = faults + 1
           \/ DoomedBy(sess[p]),
           DoomedBy(sess[p])' => sess'[p].row.draft = sess[p].row.draft
                                 /\ DoomedBy(sess[p])
    PROVE  OrphanBound'
<1>1. CASE \/ sess'[p].row.draft = sess[p].row.draft
           \/ sess[p].row.draft = NIL
           \/ ~Exists(sess[p].row.draft)
  BY <1>1, AloneLoses, DoomedAlone, NoneLost DEF TypeOK
<1>2. CASE sess'[p].row.draft # sess[p].row.draft /\
           (faults' = faults + 1 \/ DoomedBy(sess[p]))
  <2>1. DoomedBy(sess[p]) /\ sess[p].row.draft \in ArticleIds
          => article[sess[p].row.draft].source # "gap-rag"
    BY DEF SerialInv, HoldOK, DoomedBy
  <2> QED BY <1>2, <2>1, AloneLoses, DoomedAlone, OneLost DEF TypeOK
<1> QED
  BY <1>1, <1>2

\* A draft that has just been created is in hand; nothing else is orphaned.
LEMMA CreateBound ==
    ASSUME IInv, TypeOK', OrphanBound, SerialInv, NEW p \in Sessions, ActsAlone(p),
           NEW a \in ArticleIds, CreateDraft(p, a)
    PROVE  OrphanBound'
<1>0. /\ TypeOK /\ sess[p] \in Session /\ sess[p].row \in Row
      /\ HoldOK(sess[p]) /\ PlanOK(sess[p]) /\ sess[p].pc = "generate"
  BY DEF IInv, TypeOK, Session, SerialInv, CreateDraft
<1>1. /\ article[a].status = "NONE" /\ article'[a].src = sess[p].tkt
      /\ \A b \in ArticleIds \ {a} : article'[b] = article[b]
      /\ UNCHANGED <<pt, faults, resets>>
  BY <1>0 DEF CreateDraft, Unused, TypeOK
<1>2. /\ sess'[p].row.draft = a /\ sess'[p].row.matched = sess[p].row.matched
      /\ sess[p].row.draft = NIL
  BY <1>0 DEF CreateDraft, Put, TypeOK, Session, Row, HoldOK
<1>3. Orphans' \subseteq Orphans
  <2> SUFFICES ASSUME NEW b \in Orphans' PROVE b \in Orphans
    OBVIOUS
  <2>1. b \in ArticleIds /\ ~InFlight(b)'
    BY DEF Orphans
  <2>2. b # a
    BY <1>2, <2>1 DEF InFlight
  <2>3. ~InFlight(b)
    BY <1>2, <2>1 DEF InFlight, ActsAlone
  <2> QED BY <1>1, <2>1, <2>2, <2>3 DEF Orphans, Exists
<1>4. \A b \in Orphans : article'[b].source = article[b].source
  BY <1>1 DEF Orphans, Exists
<1>5. Doomed' => Doomed
  <2>1. sess[p].row.matched # NIL =>
          /\ sess[p].row.matched \in ArticleIds \ {a}
          /\ article'[sess[p].row.matched] = article[sess[p].row.matched]
    BY <1>0, <1>1 DEF PlanOK, MatchOK, Row
  <2> QED BY <1>0, <1>2, <2>1, DoomedAlone DEF DoomedBy, Exists
<1> QED
  BY <1>0, <1>1, <1>3, <1>4, <1>5, NoneLost DEF TypeOK

\* A commit that succeeds hands the draft to the ticket, and takes none from it;
\* one that fails drops a draft only if it was doomed.
LEMMA CommitBound ==
    ASSUME IInv, TypeOK', OrphanBound, SerialInv, NEW p \in Sessions, ActsAlone(p),
           RecordCommit(p)
    PROVE  OrphanBound'
<1> DEFINE s == sess[p]
<1>0. /\ TypeOK /\ s \in Session /\ s.row \in Row /\ s.loaded \in Row /\ RowsOK
      /\ HoldOK(s) /\ PlanOK(s) /\ s.pc = "commit" /\ s.tkt \in Tickets
      /\ UNCHANGED <<article, faults, resets>>
  BY DEF IInv, TypeOK, Session, SerialInv, RecordCommit, PlanOK
<1>1. CASE FlushSucceeds(s)
  <2>1. /\ pt' = [pt EXCEPT ![s.tkt] = s.row] /\ ~Decided(pt[s.tkt])
        /\ sess'[p] = AfterTicket(s)
    BY <1>0, <1>1, CommitIsExact DEF Put, TypeOK
  <2>2. pt[s.tkt].draft = NIL
    BY <1>0, <2>1 DEF RowsOK, Decided
  <2>3. ~DoomedBy(sess[p])'
    BY <2>1 DEF DoomedBy, AfterTicket, Idle
  <2>4. Orphans' \subseteq Orphans
    <3> SUFFICES ASSUME NEW b \in Orphans' PROVE b \in Orphans
      OBVIOUS
    <3>1. /\ b \in ArticleIds /\ ~InFlight(b)' /\ Exists(b)
          /\ article[b].source # "imported_from_itsm"
          /\ pt'[article[b].src].draft # b
      BY <1>0 DEF Orphans, Exists
    <3>2. article[b].src \in Tickets
      BY <1>0, <3>1 DEF RowsOK
    <3>3. b # s.row.draft
      BY <1>0, <2>1, <3>1 DEF PlanOK, TypeOK
    <3>4. ~InFlight(b)
      BY <3>1, <3>3 DEF InFlight, ActsAlone
    <3>5. pt[article[b].src].draft # b
      BY <1>0, <2>1, <2>2, <3>1, <3>2 DEF TypeOK
    <3> QED BY <3>1, <3>4, <3>5 DEF Orphans
  <2> QED BY <1>0, <2>3, <2>4, DoomedAlone, NoneLost DEF TypeOK
<1>2. CASE ~FlushSucceeds(s)
  <2>1. UNCHANGED pt /\ sess'[p] = Idle
    BY <1>0, <1>2 DEF RecordCommit, Poisoned, Put, TypeOK
  <2>2. ~DoomedBy(sess[p])'
    BY <2>1 DEF DoomedBy, Idle
  <2>3. s.row.draft = NIL \/ ~Exists(s.row.draft) \/ DoomedBy(s)
    BY <1>0, <1>2 DEF FlushSucceeds, HoldOK, DoomedBy
  <2> QED BY <1>0, <2>1, <2>2, <2>3, AloneBound
<1> QED
  BY <1>1, <1>2

\* Every step keeps the count.
LEMMA OrphanStep ==
    ASSUME MaxConcurrent = 1, IInv, IInv', SerialInv, OrphanBound, [Next]_vars
    PROVE  OrphanBound'
<1>0. /\ TypeOK /\ TypeOK'
      /\ \A p \in Sessions : /\ sess[p] \in Session /\ sess[p].row \in Row
                             /\ HoldOK(sess[p]) /\ PlanOK(sess[p])
      /\ \A p \in Sessions : \A r : Put(p, r) => sess'[p] = r
  BY DEF IInv, TypeOK, Session, SerialInv, Put
<1>1. ASSUME NEW p \in Sessions, ActsAlone(p), Start(p) PROVE OrphanBound'
  <2>1. /\ UNCHANGED <<article, pt, resets, faults>> /\ sess[p].row.draft = NIL
        /\ sess'[p].pc \in {"next", "ground"}
    BY <1>0, <1>1 DEF Start, RunCycle, GenerateForTicketId, OpenGap, MayStart,
       HoldOK, Idle
  <2> QED BY <1>0, <1>1, <2>1, AloneBound DEF DoomedBy
<1>2. ASSUME NEW p \in Sessions, ActsAlone(p), CallFails(p) PROVE OrphanBound'
  <2>1. /\ UNCHANGED <<article, pt, resets>>
        /\ sess'[p].pc \in {"idle", "next"}
        /\ \/ faults' = faults + 1
           \/ faults' = faults /\ sess[p].row.draft = NIL
    BY <1>0, <1>2 DEF CallFails, AfterTicket, HoldOK, Idle
  <2> QED BY <1>0, <1>2, <2>1, AloneBound DEF DoomedBy
<1>3. ASSUME NEW p \in Sessions, ActsAlone(p), Step(p) PROVE OrphanBound'
  <2>0. /\ sess[p] \in Session /\ sess[p].row \in Row
        /\ HoldOK(sess[p]) /\ PlanOK(sess[p])
        /\ \A r : Put(p, r) => sess'[p] = r
    BY <1>0
  <2>1. ASSUME NEW k \in Fetched, ExitIdempotently(p, k) \/ BeginTicket(p, k)
        PROVE  OrphanBound'
    <3>1. /\ UNCHANGED <<article, pt, resets, faults>> /\ sess[p].row.draft = NIL
          /\ sess'[p].pc \in {"idle", "next", "embed"}
      BY <2>0, <2>1 DEF ExitIdempotently, BeginTicket, HoldOK, AfterTicket, Idle, Session
    <3> QED BY <1>0, <1>3, <3>1, AloneBound DEF DoomedBy
  <2>2. CASE FlagThin(p)
    <3>1. UNCHANGED <<article, pt, resets, faults>> /\ sess[p].row.draft = NIL
      BY <2>0, <2>2 DEF FlagThin, HoldOK
    <3>2. sess'[p].row = Skipped
      BY <2>0, <2>2 DEF FlagThin, Session
    <3> QED BY <1>0, <1>3, <3>1, <3>2, AloneBound DEF DoomedBy, Skipped
  <2>3. CASE CheckDuplicate(p)
    <3>1. sess[p].tkt \in Tickets
      BY <2>0, <2>3 DEF CheckDuplicate, PlanOK
    <3>2. PICK H \in TopHits(sess[p].tkt) : \E v \in Verdicts(sess[p].tkt, H) :
            Put(p, [sess[p] EXCEPT
                      !.pc = IF v.decision = "COVERED" THEN "record" ELSE "generate",
                      !.row = v])
      BY <2>3 DEF CheckDuplicate
    <3>3. PICK v \in Verdicts(sess[p].tkt, H) :
            Put(p, [sess[p] EXCEPT
                      !.pc = IF v.decision = "COVERED" THEN "record" ELSE "generate",
                      !.row = v])
      BY <3>2
    <3>4. v.draft = NIL /\ v.matched \in {NIL} \cup Searchable
      BY <3>1, VerdictSound
    <3>5. /\ UNCHANGED <<article, pt, resets, faults>> /\ sess[p].row.draft = NIL
          /\ sess'[p].row.matched = v.matched
      BY <2>0, <2>3, <3>3 DEF CheckDuplicate, HoldOK, Session
    <3> QED BY <1>0, <1>3, <3>4, <3>5, AloneBound DEF DoomedBy, Searchable, Exists
  <2>4. CASE FetchNeighbours(p)
    <3>1. UNCHANGED <<article, pt, resets, faults>> /\ sess[p].row.draft = NIL
      BY <2>0, <2>4 DEF FetchNeighbours, HoldOK
    <3>2. CASE HasNeighbour(sess[p].tkt)
      <4>1. sess'[p].row = Drafting(NIL)
        BY <2>0, <2>4, <3>2 DEF FetchNeighbours, Session
      <4> QED BY <1>0, <1>3, <3>1, <4>1, AloneBound DEF DoomedBy, Drafting
    <3>3. CASE ~HasNeighbour(sess[p].tkt)
      <4>1. sess'[p] = Idle
        BY <2>0, <2>4, <3>3 DEF FetchNeighbours
      <4> QED BY <1>0, <1>3, <3>1, <4>1, AloneBound DEF DoomedBy, Idle
    <3> QED BY <3>2, <3>3
  <2>5. CASE IndexDraft(p)
    <3>1. CASE Put(p, [sess[p] EXCEPT !.pc = "record"])
      <4>1. /\ UNCHANGED <<article, pt, resets, faults>>
            /\ sess'[p].row = sess[p].row /\ sess[p].pc = "index"
            /\ sess'[p].pc = "record"
        BY <2>0, <2>5, <3>1 DEF IndexDraft, Session
      <4>2. DoomedBy(sess[p])' => DoomedBy(sess[p])
        BY <4>1 DEF DoomedBy, Exists
      <4> QED BY <1>0, <1>3, <4>1, <4>2, AloneBound
    <3>2. CASE Put(p, Idle) /\ ~Exists(sess[p].row.draft)
      <4>1. UNCHANGED <<article, pt, resets, faults>> /\ sess'[p].pc = "idle"
        BY <2>0, <2>5, <3>2 DEF IndexDraft, Idle
      <4> QED BY <1>0, <1>3, <3>2, <4>1, AloneBound DEF DoomedBy
    <3> QED BY <2>5, <3>1, <3>2 DEF IndexDraft, Poisoned
  <2>6. CASE RecordRead(p)
    <3>1. /\ UNCHANGED <<article, pt, resets, faults>>
          /\ sess'[p].row = sess[p].row /\ sess[p].pc = "record"
          /\ sess'[p].pc = "commit"
      BY <2>0, <2>6 DEF RecordRead, Session
    <3>2. DoomedBy(sess[p])' => DoomedBy(sess[p])
      BY <3>1 DEF DoomedBy, Exists
    <3> QED BY <1>0, <1>3, <3>1, <3>2, AloneBound
  <2> QED
    BY <1>0, <1>3, <2>1, <2>2, <2>3, <2>4, <2>5, <2>6, CreateBound, CommitBound DEF Step
<1>4. CASE Crash
  <2>1. /\ UNCHANGED <<article, pt, resets>> /\ faults' = faults + 1
        /\ \A q \in Sessions : sess'[q] = Idle
    BY <1>4 DEF Crash
  <2>2. PICK p \in Sessions : sess[p].pc # "idle"
    BY <1>4 DEF Crash, Active
  <2>3. \A q \in Sessions \ {p} : sess[q].row.draft = NIL
    BY <1>0, <2>2 DEF SerialInv, Solo, HoldOK
  <2>4. Orphans' \subseteq Orphans \cup {sess[p].row.draft}
    BY <2>1, <2>3 DEF Orphans, InFlight, Exists
  <2>5. ~Doomed'
    BY <2>1 DEF Doomed, DoomedBy, Idle
  <2> QED BY <1>0, <2>1, <2>4, <2>5, OneLost
<1>5. ASSUME NEW a \in ArticleIds, RejectDraft(a) PROVE OrphanBound'
  <2>1. /\ UNCHANGED <<pt, sess, faults, resets>>
        /\ \A b \in ArticleIds :
              /\ article'[b].status \in {"NONE", "DELETED"}
                   <=> article[b].status \in {"NONE", "DELETED"}
              /\ article'[b].src = article[b].src
              /\ article'[b].source = article[b].source
    BY <1>0, <1>5 DEF RejectDraft, TypeOK, Article
  <2>2. Orphans' \subseteq Orphans
    BY <2>1 DEF Orphans, InFlight, Exists
  <2>3. ASSUME NEW q \in Sessions PROVE DoomedBy(sess[q])' => DoomedBy(sess[q])
    BY <1>0, <2>1 DEF DoomedBy, Exists, Row
  <2>4. \A b \in Orphans : article'[b].source = article[b].source
    BY <2>1 DEF Orphans
  <2> QED BY <1>0, <2>1, <2>2, <2>3, <2>4, NoneLost DEF Doomed, TypeOK
<1>6. CASE ResetState
  <2>1. resets' = resets + 1 /\ faults' = faults /\ \A b \in ArticleIds : ~Exists(b)'
    BY <1>0, <1>6 DEF ResetState, TypeOK, Exists, Article
  <2>2. Orphans' = {} /\ GapOrphans' = {}
    BY <2>1 DEF Orphans, GapOrphans
  <2> QED BY <1>0, <2>1, <2>2, FS_EmptySet DEF OrphanBound, TypeOK
<1>7. CASE \/ \E t \in Tickets, n \in Notes : ResolveTicket(t, n)
           \/ UNCHANGED vars
  <2>1. UNCHANGED <<article, pt, sess, faults, resets>>
    BY <1>7 DEF ResolveTicket, vars
  <2> QED BY <2>1 DEF OrphanBound, GapOrphans, Orphans, InFlight, Exists, Doomed, DoomedBy
<1>8. ASSUME NEW p \in Sessions, Start(p) \/ Step(p) \/ CallFails(p) PROVE OrphanBound'
  BY <1>0, <1>1, <1>2, <1>3, <1>8, ActorAlone DEF SerialInv
<1> QED
  BY <1>4, <1>5, <1>6, <1>7, <1>8 DEF Next, Environment

\* At the start nothing is drafted.
LEMMA OrphanInit == Init => OrphanBound
<1> SUFFICES ASSUME Init PROVE OrphanBound
  OBVIOUS
<1>1. Orphans = {} /\ GapOrphans = {}
  BY DEF Init, Orphans, GapOrphans
<1>2. ~Doomed
  BY DEF Init, Doomed, DoomedBy, Idle
<1> QED
  BY <1>1, <1>2, FS_EmptySet DEF OrphanBound, Init

\* One session at a time, every draft nobody refers to was paid for by a failed
\* call, a crash or a reset, one each, however the three fall together.
THEOREM OrphansPaidFor == MaxConcurrent = 1 => (Spec => []OrphansNeedFaults)
<1> SUFFICES ASSUME MaxConcurrent = 1 PROVE Spec => []OrphansNeedFaults
  OBVIOUS
<1>1. Init => IInv /\ SerialInv /\ OrphanBound
  BY InvInit, SerialInit, OrphanInit
<1>2. IInv /\ SerialInv /\ OrphanBound /\ [Next]_vars
         => IInv' /\ SerialInv' /\ OrphanBound'
  BY InvStep, SerialStep, OrphanStep
<1>3. OrphanBound => OrphansNeedFaults
  BY DEF OrphanBound, OrphansNeedFaults
<1> QED
  BY <1>1, <1>2, <1>3, PTL DEF Spec

-----------------------------------------------------------------------------
(* One master per topic.  A ticket is drafted although a similar one has a   *)
(* draft only if its own drafts fill both places of the LIMIT 2 search.  Two *)
(* generated ones would break the property already; so one of two is a gap   *)
(* draft, an orphan that took a fault.  Hence at most one fault: TLC shows a *)
(* topic with two masters after two crashes.                                 *)

\* No other ticket's generated draft that the search offers is similar to t.
NoRival(t) ==
    \A b \in Searchable :
        article[b].source = "generated" /\ article[b].src # t
            => ~Similar(t, article[b].src)

\* A draft is about to become searchable, and is of the kind the property is about.
Drafts(s) == s.source = "generated" /\ s.pc \in {"generate", "index"}

Masters ==
    faults <= 1 => /\ OneMasterPerTopic
                   /\ \A p \in Sessions : Drafts(sess[p]) => NoRival(sess[p].tkt)

\* A step after which the search offers nothing new keeps the property, unless
\* a session begins to draft.
LEMMA NothingNew ==
    ASSUME TypeOK, TypeOK', Masters, faults' >= faults,
           Searchable' \subseteq Searchable,
           \A b \in Searchable' : /\ article'[b].src = article[b].src
                                  /\ article'[b].source = article[b].source,
           \A p \in Sessions :
              Drafts(sess'[p]) => Drafts(sess[p]) /\ sess'[p].tkt = sess[p].tkt
    PROVE  Masters'
<1> SUFFICES ASSUME faults' <= 1 PROVE OneMasterPerTopic' /\
        \A p \in Sessions : Drafts(sess[p])' => NoRival(sess[p].tkt)'
  BY DEF Masters
<1>1. faults <= 1
  BY DEF TypeOK
<1>2. OneMasterPerTopic'
  BY <1>1 DEF Masters, OneMasterPerTopic
<1>3. ASSUME NEW p \in Sessions, Drafts(sess[p])' PROVE NoRival(sess[p].tkt)'
  <2>1. Drafts(sess[p]) /\ sess'[p].tkt = sess[p].tkt
    BY <1>3 DEF Drafts
  <2>2. NoRival(sess[p].tkt)
    BY <1>1, <2>1 DEF Masters
  <2> QED BY <2>1, <2>2 DEF NoRival
<1> QED
  BY <1>2, <1>3

\* In particular one that leaves articles and chunks alone.
LEMMA TablesAlone ==
    ASSUME TypeOK, TypeOK', Masters, faults' >= faults, UNCHANGED <<article, indexed>>,
           \A p \in Sessions :
              Drafts(sess'[p]) => Drafts(sess[p]) /\ sess'[p].tkt = sess[p].tkt
    PROVE  Masters'
<1>1. Searchable' = Searchable
  BY DEF Searchable
<1> QED
  BY <1>1, NothingNew DEF Searchable

\* The dedup step lets a ticket be drafted only if it has no rival.
LEMMA NoRivalMissed ==
    ASSUME IInv, SerialInv, OrphanBound, OneMasterPerTopic, faults <= 1,
           NEW p \in Sessions, ActsAlone(p), sess[p].pc = "embed",
           NEW H \in TopHits(sess[p].tkt), NEW v \in Verdicts(sess[p].tkt, H),
           v.decision # "COVERED"
    PROVE  NoRival(sess[p].tkt)
<1> DEFINE t == sess[p].tkt
<1>0. /\ TypeOK /\ RowsOK /\ t \in Tickets /\ H \subseteq Searchable
      /\ \A q \in Sessions : sess[q].row.draft = NIL
  BY DEF IInv, PlanOK, SerialInv, HoldOK, ActsAlone, TopHits
<1> SUFFICES ASSUME NEW b \in Searchable, article[b].source = "generated",
                    article[b].src # t, Similar(t, article[b].src)
             PROVE  FALSE
  BY DEF NoRival
<1>1. /\ Rank(t, b) >= DedupThreshold
      /\ \A c \in Searchable : Rank(t, c) \in Nat
  BY <1>0, RankAssumption DEF Similar, Rank, Searchable, TypeOK, Article
\* Whatever the search returned from other tickets ranks below the threshold.
<1>2. \A c \in Candidates(t, H) : Rank(t, c) < DedupThreshold
  <2>1. CASE Candidates(t, H) = {}
    BY <2>1
  <2>2. CASE Candidates(t, H) # {}
    <3>1. PICK a \in Candidates(t, H) :
            /\ \A c \in Candidates(t, H) : Rank(t, a) >= Rank(t, c)
            /\ v = IF Rank(t, a) >= DedupThreshold THEN Covered(a) ELSE Drafting(a)
      BY <2>2 DEF Verdicts
    <3>2. ~(Rank(t, a) >= DedupThreshold)
      BY <3>1 DEF Covered
    <3>3. Candidates(t, H) \subseteq Searchable
      BY <1>0 DEF Candidates
    <3> QED BY <1>1, <3>1, <3>2, <3>3, RankAssumption
  <2> QED BY <2>1, <2>2
\* So the rival was crowded out by drafts of the ticket itself,
<1>3. b \notin H
  BY <1>1, <1>2, RankAssumption DEF Candidates
<1>4. ASSUME NEW c \in H PROVE article[c].src = t
  <2>1. Rank(t, c) >= Rank(t, b) /\ c \in Searchable
    BY <1>0, <1>3 DEF TopHits
  <2>2. Rank(t, c) >= DedupThreshold
    BY <1>1, <2>1, RankAssumption
  <2> QED BY <1>1, <1>2, <2>1, <2>2, RankAssumption DEF Candidates
\* which are gap drafts nobody refers to.
<1>5. H \subseteq GapOrphans
  <2> SUFFICES ASSUME NEW c \in H PROVE c \in GapOrphans
    OBVIOUS
  <2>1. /\ c \in Searchable /\ c \in ArticleIds /\ Exists(c)
        /\ article[c].source \in Source
    BY <1>0 DEF Searchable, TypeOK, Exists, Article
  <2>2. article[c].source # "imported_from_itsm"
    BY <1>0, <1>4, <2>1 DEF RowsOK
  <2>3. article[c].source # "generated"
    BY <1>4, <2>1 DEF OneMasterPerTopic, Similar
  <2>4. pt[t].draft = NIL
    BY <1>0 DEF SerialInv, HoldOK, RowsOK, Decided, NoRow
  <2>5. ~InFlight(c)
    BY <1>0, <2>1 DEF InFlight
  <2> QED BY <1>4, <2>1, <2>2, <2>3, <2>4, <2>5 DEF GapOrphans, Orphans, Source
\* There is at most one of those, so the search had room for the rival.
<1>6. IsFiniteSet(GapOrphans) /\ Cardinality(GapOrphans) <= 1
  <2>1. IsFiniteSet(GapOrphans)
    BY FS_Subset DEF OrphanBound, GapOrphans
  <2> QED BY <1>0, <2>1, FS_CardinalityType DEF OrphanBound, TypeOK
<1>7. Cardinality(H) < DedupLimit
  <2>1. /\ Cardinality(H) \in Nat /\ Cardinality(GapOrphans) \in Nat
        /\ Cardinality(H) <= Cardinality(GapOrphans)
    BY <1>5, <1>6, FS_Subset, FS_CardinalityType
  <2> QED BY <1>6, <2>1 DEF DedupLimit
<1> QED
  BY <1>3, <1>7 DEF TopHits

\* The draft that becomes searchable has no rival among those that are.
LEMMA NewMaster ==
    ASSUME IInv, IInv', SerialInv, Masters, NEW p \in Sessions, ActsAlone(p), IndexDraft(p)
    PROVE  Masters'
<1> DEFINE a == sess[p].row.draft
           t == sess[p].tkt
<1>0. /\ TypeOK /\ TypeOK' /\ HoldOK(sess[p]) /\ PlanOK(sess[p])
      /\ a \in ArticleIds /\ article[a].src = t /\ sess[p].pc = "index"
      /\ a # NIL /\ UNCHANGED <<article, faults>>
  BY DEF IInv, SerialInv, PlanOK, IndexDraft
<1>1. \A q \in Sessions : ~Drafts(sess'[q])
  <2>1. sess'[p].pc \in {"record", "idle"}
    BY <1>0 DEF IndexDraft, Put, Poisoned, Idle, TypeOK, Session
  <2> QED BY <2>1 DEF Drafts, ActsAlone
<1>2. Searchable' \subseteq Searchable \cup {a}
  BY <1>0 DEF IndexDraft, Searchable
<1>3. ASSUME faults <= 1 PROVE OneMasterPerTopic'
  <2> SUFFICES ASSUME NEW b \in Searchable', NEW c \in Searchable',
                      article[b].source = "generated", article[c].source = "generated",
                      article[b].src # article[c].src
               PROVE  ~Similar(article[b].src, article[c].src)
    BY <1>0 DEF OneMasterPerTopic
  <2>1. CASE b \in Searchable /\ c \in Searchable
    BY <1>3, <2>1 DEF Masters, OneMasterPerTopic
  <2>2. ASSUME NEW d \in Searchable, article[d].source = "generated",
               article[d].src # t, article[a].source = "generated"
        PROVE  ~Similar(t, article[d].src) /\ ~Similar(article[d].src, t)
    <3>1. Drafts(sess[p])
      BY <1>0, <2>2 DEF HoldOK, Drafts
    <3>2. NoRival(t)
      BY <1>3, <3>1 DEF Masters
    <3> QED BY <2>2, <3>2 DEF NoRival, Similar
  <2> QED BY <1>0, <1>2, <2>1, <2>2
<1> QED
  BY <1>0, <1>1, <1>3 DEF Masters, Drafts

\* Every step keeps the masters apart.
LEMMA MasterStep ==
    ASSUME MaxConcurrent = 1, IInv, IInv', SerialInv, OrphanBound, Masters, [Next]_vars
    PROVE  Masters'
<1>0. /\ TypeOK /\ TypeOK'
      /\ \A p \in Sessions : /\ sess[p] \in Session /\ HoldOK(sess[p]) /\ PlanOK(sess[p])
                             /\ \A r : Put(p, r) => sess'[p] = r
  BY DEF IInv, TypeOK, SerialInv, Put
<1>1. ASSUME NEW p \in Sessions, ActsAlone(p), ~Drafts(sess'[p]),
             UNCHANGED <<article, indexed>>, faults' \in {faults, faults + 1}
      PROVE  Masters'
  <2>1. \A q \in Sessions : ~Drafts(sess'[q])
    BY <1>1 DEF ActsAlone, Drafts
  <2> QED BY <1>0, <1>1, <2>1, TablesAlone DEF TypeOK
<1>2. ASSUME NEW p \in Sessions, ActsAlone(p), Start(p) \/ CallFails(p) \/ RecordCommit(p)
      PROVE  Masters'
  <2>0. \A r : Put(p, r) => sess'[p] = r
    BY <1>0
  <2>1. Start(p) => sess'[p].pc \in {"next", "ground"}
    BY <2>0 DEF Start, RunCycle, GenerateForTicketId, OpenGap, Idle
  <2>2. CallFails(p) \/ RecordCommit(p) => sess'[p].pc \in {"idle", "next"}
    <3>1. Idle.pc = "idle" /\ \A s : AfterTicket(s).pc \in {"idle", "next"}
      BY DEF AfterTicket, Idle
    <3> QED BY <2>0, <3>1 DEF CallFails, RecordCommit, Poisoned
  <2>3. UNCHANGED <<article, indexed>> /\ faults' \in {faults, faults + 1}
    BY <1>2 DEF Start, CallFails, RecordCommit, RunCycle, GenerateForTicketId, OpenGap
  <2> QED BY <1>1, <1>2, <2>1, <2>2, <2>3 DEF Drafts
<1>3. ASSUME NEW p \in Sessions, ActsAlone(p), Step(p) PROVE Masters'
  <2>0. /\ sess[p] \in Session /\ HoldOK(sess[p]) /\ PlanOK(sess[p])
        /\ \A r : Put(p, r) => sess'[p] = r
    BY <1>0
  <2>1. ASSUME NEW k \in Fetched, ExitIdempotently(p, k) \/ BeginTicket(p, k)
        PROVE  Masters'
    <3>1. sess'[p].pc \in {"idle", "next", "embed"}
      BY <2>0, <2>1 DEF ExitIdempotently, BeginTicket, AfterTicket, Idle, Session
    <3> QED BY <1>1, <1>3, <2>1, <3>1 DEF ExitIdempotently, BeginTicket, Drafts
  <2>2. CASE FlagThin(p) \/ RecordRead(p)
    <3>1. sess'[p].pc \in {"record", "commit"}
      BY <2>0, <2>2 DEF FlagThin, RecordRead, Session
    <3> QED BY <1>1, <1>3, <2>2, <3>1 DEF FlagThin, RecordRead, Drafts
  <2>3. CASE CheckDuplicate(p)
    <3>1. PICK H \in TopHits(sess[p].tkt) : \E v \in Verdicts(sess[p].tkt, H) :
            Put(p, [sess[p] EXCEPT
                      !.pc = IF v.decision = "COVERED" THEN "record" ELSE "generate",
                      !.row = v])
      BY <2>3 DEF CheckDuplicate
    <3>2. PICK v \in Verdicts(sess[p].tkt, H) :
            Put(p, [sess[p] EXCEPT
                      !.pc = IF v.decision = "COVERED" THEN "record" ELSE "generate",
                      !.row = v])
      BY <3>1
    <3>3. /\ sess'[p].pc = (IF v.decision = "COVERED" THEN "record" ELSE "generate")
          /\ sess'[p].tkt = sess[p].tkt
          /\ sess[p].pc = "embed" /\ UNCHANGED <<article, indexed, faults>>
      BY <2>0, <2>3, <3>2 DEF Session, CheckDuplicate
    <3>4. CASE v.decision = "COVERED"
      BY <1>1, <1>3, <3>3, <3>4 DEF Drafts
    <3>5. CASE v.decision # "COVERED"
      <4>1. faults <= 1 => NoRival(sess[p].tkt) /\ OneMasterPerTopic
        BY <1>3, <3>3, <3>5, NoRivalMissed DEF Masters
      <4>2. faults' <= 1 => NoRival(sess[p].tkt)' /\ OneMasterPerTopic'
        BY <3>3, <4>1 DEF NoRival, OneMasterPerTopic, Searchable
      <4>3. \A q \in Sessions \ {p} : ~Drafts(sess[q])'
        BY <1>3 DEF ActsAlone, Drafts
      <4> QED BY <4>2, <4>3 DEF Masters
    <3> QED BY <3>4, <3>5
  <2>4. CASE FetchNeighbours(p)
    <3>1. CASE HasNeighbour(sess[p].tkt)
      <4>1. sess'[p].source = sess[p].source
        BY <2>0, <2>4, <3>1 DEF FetchNeighbours, Session
      <4>2. sess[p].source = "gap-rag"
        BY <2>0, <2>4 DEF FetchNeighbours, HoldOK
      <4> QED BY <1>1, <1>3, <2>4, <4>1, <4>2 DEF FetchNeighbours, Drafts
    <3>2. CASE ~HasNeighbour(sess[p].tkt)
      <4>1. sess'[p] = Idle
        BY <2>0, <2>4, <3>2 DEF FetchNeighbours
      <4> QED BY <1>1, <1>3, <2>4, <4>1 DEF FetchNeighbours, Drafts, Idle
    <3> QED BY <3>1, <3>2
  <2>5. ASSUME NEW a \in ArticleIds, CreateDraft(p, a) PROVE Masters'
    <3>1. /\ sess[p].pc = "generate" /\ sess'[p].pc = "index"
          /\ sess'[p].tkt = sess[p].tkt /\ sess'[p].source = sess[p].source
          /\ UNCHANGED <<indexed, faults>>
      BY <2>0, <2>5 DEF CreateDraft, Session
    <3>2. /\ a \notin indexed
          /\ \A b \in ArticleIds \ {a} : article'[b] = article[b]
      BY <1>0, <2>5 DEF CreateDraft, Unused, SerialInv, RowsOK, TypeOK
    <3>3. Searchable' \subseteq Searchable
          /\ \A b \in Searchable' : article'[b] = article[b]
      BY <1>0, <3>1, <3>2 DEF Searchable, TypeOK
    <3>4. \A q \in Sessions :
             Drafts(sess'[q]) => Drafts(sess[q]) /\ sess'[q].tkt = sess[q].tkt
      BY <1>3, <3>1 DEF ActsAlone, Drafts
    <3> QED BY <1>0, <3>1, <3>3, <3>4, NothingNew DEF TypeOK
  <2> QED BY <1>2, <1>3, <2>1, <2>2, <2>3, <2>4, <2>5, NewMaster DEF Step
<1>4. CASE Crash
  <2>1. \A q \in Sessions : ~Drafts(sess'[q])
    BY <1>4 DEF Crash, Drafts, Idle
  <2> QED BY <1>0, <1>4, <2>1, TablesAlone DEF Crash, TypeOK
<1>5. ASSUME NEW a \in ArticleIds, RejectDraft(a) PROVE Masters'
  <2>1. /\ UNCHANGED <<sess, faults, indexed>>
        /\ article'[a].status = "REJECTED"
        /\ \A b \in ArticleIds : /\ b # a => article'[b] = article[b]
                                 /\ article'[b].src = article[b].src
                                 /\ article'[b].source = article[b].source
    BY <1>0, <1>5 DEF RejectDraft, TypeOK, Article
  <2>2. Searchable' \subseteq Searchable /\ Searchable' \subseteq ArticleIds
    BY <1>0, <2>1 DEF Searchable, TypeOK
  <2> QED BY <1>0, <2>1, <2>2, NothingNew DEF TypeOK
<1>6. CASE ResetState
  <2>1. Searchable' = {} /\ UNCHANGED <<sess, faults>>
    BY <1>6 DEF ResetState, Searchable
  <2> QED BY <1>0, <2>1, NothingNew DEF TypeOK
<1>7. CASE (\E t \in Tickets, n \in Notes : ResolveTicket(t, n)) \/ UNCHANGED vars
  BY <1>0, <1>7, TablesAlone DEF ResolveTicket, vars, TypeOK
<1>8. ASSUME NEW p \in Sessions, Start(p) \/ Step(p) \/ CallFails(p) PROVE Masters'
  BY <1>0, <1>2, <1>3, <1>8, ActorAlone DEF SerialInv
<1> QED
  BY <1>4, <1>5, <1>6, <1>7, <1>8 DEF Next, Environment

\* Imported articles are nobody's master.
LEMMA MasterInit == Init => Masters
BY ArticleIdAssumption
   DEF Init, Masters, OneMasterPerTopic, Drafts, Searchable, Idle

\* One session at a time and at most one failure so far, a topic has one master,
\* whatever is rejected and reset, however the search breaks its ties.
THEOREM OneMaster == MaxConcurrent = 1 => (Spec => [](faults <= 1 => OneMasterPerTopic))
<1> SUFFICES ASSUME MaxConcurrent = 1
             PROVE  Spec => [](faults <= 1 => OneMasterPerTopic)
  OBVIOUS
<1>1. Init => IInv /\ SerialInv /\ OrphanBound /\ Masters
  BY InvInit, SerialInit, OrphanInit, MasterInit
<1>2. IInv /\ SerialInv /\ OrphanBound /\ Masters /\ [Next]_vars
         => IInv' /\ SerialInv' /\ OrphanBound' /\ Masters'
  BY InvStep, SerialStep, OrphanStep, MasterStep
<1>3. Masters => (faults <= 1 => OneMasterPerTopic)
  BY DEF Masters
<1> QED
  BY <1>1, <1>2, <1>3, PTL DEF Spec
=============================================================================
