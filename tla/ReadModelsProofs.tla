--------------------------- MODULE ReadModelsProofs ---------------------------
(* Proofs about ReadModels: the type invariant, and every invariant that the *)
(* run reads checks, of the counts, the topics, the search and the backfill. *)
EXTENDS ReadModels, FiniteSetTheorems, TLAPS

-----------------------------------------------------------------------------
(* The inductive invariant *)

\* A ticket without a row has no vector: a reset deletes it with the row.
RowsClean == \A t \in Tickets : ticket[t].decision = "NONE" => ticket[t] = NoRow

\* What a backfill has loaded is what the rows say, but for the rows recorded
\* meanwhile, and those without a vector are yet to be embedded or failed.
BackfillInv ==
    /\ req.texts # {} => req.op = "reindex"
    /\ req.op = "reindex" =>
          /\ req.pc \in {"embed", "commit", "done"}
          /\ req.rows \subseteq {x[1] : x \in req.texts}
          /\ req.batch \subseteq req.rows
          /\ req.pc = "done" => req.rows = {}
    /\ \A x \in req.texts :
          x[1] \in Rows \ crossed =>
             /\ ticket[x[1]].text = x[2]
             /\ ticket[x[1]].vec = NIL => x[1] \in req.rows \cup req.failed

\* What was in place throughout is in place.
InScope(x) ==
    /\ req.kind = "kb" => x \in ArticleIds
    /\ req.kind = "ticket" => x \in Tickets
    /\ req.category \in {NIL, IF x \in Tickets THEN Topic[x] ELSE article[x].category}
LiveInv ==
    /\ req.op \in {"stats", "topics"} => req.live \subseteq InWorkflow
    /\ req.op = "search" => req.live \subseteq Searchable /\ \A x \in req.live : InScope(x)

\* The statuses the queries have passed: a live article in one of them was
\* counted in it or in an earlier one, since it has not stepped back into it.
Passed == CASE req.pc = "approved" -> {"DRAFT", "EDITED"}
            [] req.pc = "pushed"   -> {"DRAFT", "EDITED", "APPROVED"}
            [] req.pc = "done"     -> Workflow
            [] OTHER               -> {}
StatsInv ==
    req.op = "stats" =>
       req.counted >= Cardinality(req.live \cap With(Passed))

\* The hits of a corpus are the best of it: one that is missing has as many
\* before it as the search may return.
BestOf(corpus) ==
    \A x \in (req.live \cap corpus) \ req.hits :
        /\ Cardinality(req.hits \cap corpus) >= req.limit
        /\ \A y \in req.hits \cap corpus : Relevance[y] >= Relevance[x]
SearchInv ==
    req.op = "search" =>
       /\ req.pc \in {"articles", "tickets", "done"}
       /\ req.pc = "articles" => req.hits = {}
       /\ req.pc = "tickets" => req.hits \subseteq ArticleIds
       /\ req.pc \in {"tickets", "done"} => BestOf(ArticleIds)
       /\ req.pc = "done" => BestOf(Tickets)

IInv ==
    /\ TypeOK
    /\ RowsClean /\ VectorsMatchTexts /\ BackfillInv /\ LiveInv
    /\ StatsInv /\ DraftedTopicsAreNoGaps /\ SearchInv

USE ReadAssumption

-----------------------------------------------------------------------------
(* Commits of the writers *)

\* A commit of a writer touches of the request only its history.
LEMMA WriteKeeps ==
    ASSUME TypeOK, Write
    PROVE  /\ req'.pc = req.pc /\ req'.op = req.op /\ req'.category = req.category
           /\ req'.kind = req.kind /\ req'.limit = req.limit
           /\ req'.counted = req.counted /\ req'.rows = req.rows
           /\ req'.texts = req.texts /\ req'.batch = req.batch
           /\ req'.failed = req.failed /\ req'.hits = req.hits /\ req'.read = req.read
           /\ req'.live = req.live \cap StillLive
           /\ req' \in Request
<1>1. req \in Request
  BY DEF TypeOK
<1> DEFINE live == req.live \cap StillLive
<1>2. req' = [req EXCEPT !.live = live]
  BY DEF Write
<1>3. live \in SUBSET (ArticleIds \cup Tickets)
  BY <1>1 DEF Request
<1> HIDE DEF live
<1>4. req'.live = live
  BY <1>1, <1>2 DEF Request
<1> QED BY <1>1, <1>2, <1>3, <1>4 DEF Request, live

\* What a commit may do to the articles.
LEMMA WriteArticles ==
    ASSUME TypeOK, Write
    PROVE  /\ article' \in [ArticleIds -> Article]
           /\ \A a \in ArticleIds :
                 \/ article'[a] = article[a]
                 \/ article[a].status = "NONE"
                 \/ article'[a] = NoArticle
                 \/ /\ article'[a].category = article[a].category
                    /\ <<article[a].status, article'[a].status>> \in Forward \cup Over
<1>0. /\ article \in [ArticleIds -> Article] /\ drafting \in [Tickets -> ArticleIds \cup {NIL}]
      /\ NoArticle \in Article
  BY DEF TypeOK, Article, NoArticle, Status
<1>1. ASSUME NEW t \in Tickets, NEW a \in ArticleIds, NEW k \in Categories, CommitDraft(t, a, k)
      PROVE  /\ article' \in [ArticleIds -> Article]
             /\ \A b \in ArticleIds : article'[b] = article[b] \/ article[b].status = "NONE"
  <2>1. [status |-> "DRAFT", category |-> k] \in Article
    BY DEF Article, Status
  <2> QED BY <1>0, <1>1, <2>1 DEF CommitDraft
<1>2. ASSUME NEW t \in Tickets, RecordDraft(t) \/ RecordOther(t) \/ CompleteNotes(t)
      PROVE  article' = article
  BY <1>2 DEF RecordDraft, RecordOther, CompleteNotes
<1>3. ASSUME NEW a \in ArticleIds, MoveArticle(a)
      PROVE  /\ article' \in [ArticleIds -> Article]
             /\ \A b \in ArticleIds :
                 \/ article'[b] = article[b]
                 \/ /\ article'[b].category = article[b].category
                    /\ <<article[b].status, article'[b].status>> \in Forward \cup Over
  <2>1. PICK s \in Status : /\ <<article[a].status, s>> \in Forward \cup Over
                            /\ article' = [article EXCEPT ![a].status = s]
    BY <1>3 DEF MoveArticle
  <2>2. /\ article'[a] \in Article /\ article'[a].status = s
        /\ article'[a].category = article[a].category
    BY <1>0, <2>1 DEF Article
  <2> QED BY <1>0, <2>1, <2>2
<1>4. ASSUME NEW a \in ArticleIds, NEW k \in Categories, ImportArticle(a, k)
      PROVE  /\ article' \in [ArticleIds -> Article]
             /\ \A b \in ArticleIds : article'[b] = article[b] \/ article[b].status = "NONE"
  <2>1. [status |-> "IMPORTED", category |-> k] \in Article
    BY DEF Article, Status
  <2> QED BY <1>0, <1>4, <2>1 DEF ImportArticle
<1>5. ASSUME ResetState
      PROVE  article' \in [ArticleIds -> Article] /\ \A b \in ArticleIds : article'[b] = NoArticle
  BY <1>0, <1>5 DEF ResetState
<1> QED
  BY <1>0, <1>1, <1>2, <1>3, <1>4, <1>5 DEF Write

\* The rows are well formed, and their vectors are of their texts.
TicketsOK ==
    /\ ticket \in [Tickets -> Row]
    /\ \A t \in Rows : ticket[t].text # NIL
    /\ \A t \in Tickets : (ticket[t].draft # NIL) = (ticket[t].decision = "DRAFTED")
    /\ RowsClean /\ VectorsMatchTexts

\* A row that a backfill has in hand is as it was, deleted, or marked.
HandsKept ==
    /\ crossed' \subseteq Tickets /\ crossed \subseteq crossed'
    /\ \A t \in {x[1] : x \in req.texts} \ crossed' : ticket'[t] \in {ticket[t], NoRow}

\* A row that is recorded with its text's vector, or without one.
LEMMA RowRecorded ==
    ASSUME TypeOK, TicketsOK, NEW t \in Tickets, NEW row \in Row, Crosses(t),
           ticket' = [ticket EXCEPT ![t] = row],
           row.decision # "NONE", row.text # NIL,
           (row.draft # NIL) = (row.decision = "DRAFTED"),
           t \notin crossed => row.vec \in {NIL, row.text}
    PROVE  TicketsOK' /\ HandsKept
<1>1. /\ ticket' \in [Tickets -> Row] /\ ticket'[t] = row
      /\ \A u \in Tickets \ {t} : ticket'[u] = ticket[u]
  BY DEF TypeOK
<1>2. /\ crossed' \subseteq Tickets /\ crossed \subseteq crossed'
      /\ t \in {x[1] : x \in req.texts} => t \in crossed'
  BY DEF Crosses, TypeOK
<1>3. {x[1] : x \in req.texts} \subseteq Tickets
  BY DEF TypeOK, Request
<1>4. HandsKept
  BY <1>1, <1>2, <1>3 DEF HandsKept
<1>5. TicketsOK'
  BY <1>1, <1>2 DEF TicketsOK, RowsClean, VectorsMatchTexts, Rows
<1> QED BY <1>4, <1>5

\* What a commit may do to the rows of the tickets.
LEMMA WriteTickets ==
    ASSUME TypeOK, TicketsOK, Write
    PROVE  /\ TicketsOK' /\ HandsKept
           /\ drafting' \in [Tickets -> ArticleIds \cup {NIL}]
           /\ notes' \in [Tickets -> Version]
<1>0. /\ drafting \in [Tickets -> ArticleIds \cup {NIL}] /\ notes \in [Tickets -> Version]
      /\ ticket \in [Tickets -> Row] /\ crossed \subseteq Tickets
      /\ NIL \notin Version
  BY DEF TypeOK, Version
<1>1. ASSUME UNCHANGED <<ticket, crossed>> PROVE TicketsOK' /\ HandsKept
  <2>1. HandsKept
    BY <1>0, <1>1 DEF HandsKept
  <2> QED BY <1>1, <2>1 DEF TicketsOK, RowsClean, VectorsMatchTexts, Rows
<1>2. ASSUME NEW t \in Tickets, NEW a \in ArticleIds, NEW k \in Categories,
             CommitDraft(t, a, k)
      PROVE  /\ UNCHANGED <<ticket, crossed, notes>>
             /\ drafting' \in [Tickets -> ArticleIds \cup {NIL}]
  BY <1>0, <1>2 DEF CommitDraft
<1>3. ASSUME NEW t \in Tickets, RecordDraft(t)
      PROVE  /\ TicketsOK' /\ HandsKept
             /\ drafting' \in [Tickets -> ArticleIds \cup {NIL}] /\ UNCHANGED notes
  <2>1. PICK vec \in {notes[t], ticket[t].vec} :
           ticket' = [ticket EXCEPT ![t] =
              [decision |-> "DRAFTED", draft |-> drafting[t], vec |-> vec,
               text |-> IF vec = notes[t] \/ ticket[t].text = NIL
                        THEN notes[t] ELSE ticket[t].text]]
    BY <1>3 DEF RecordDraft
  <2> DEFINE row == [decision |-> "DRAFTED", draft |-> drafting[t], vec |-> vec,
                     text |-> IF vec = notes[t] \/ ticket[t].text = NIL
                              THEN notes[t] ELSE ticket[t].text]
  <2>2. /\ row \in Row /\ row.decision = "DRAFTED" /\ row.draft # NIL
        /\ row.text # NIL
    BY <1>0, <1>3 DEF Row, RecordDraft
  <2>3. t \notin crossed => row.vec \in {NIL, row.text}
    BY <1>0 DEF TicketsOK, RowsClean, VectorsMatchTexts, Rows, NoRow
  <2>4. TicketsOK' /\ HandsKept
    <3> HIDE DEF row
    <3>1. ticket' = [ticket EXCEPT ![t] = row]
      BY <2>1 DEF row
    <3> QED BY <1>3, <2>2, <2>3, <3>1, RowRecorded DEF RecordDraft
  <2> QED BY <1>0, <1>3, <2>4 DEF RecordDraft
<1>4. ASSUME NEW t \in Tickets, RecordOther(t)
      PROVE  TicketsOK' /\ HandsKept /\ UNCHANGED <<drafting, notes>>
  <2>1. PICK d \in {"SKIPPED", "COVERED"} :
           ticket' = [ticket EXCEPT ![t] =
              [decision |-> d, draft |-> NIL, text |-> notes[t], vec |-> notes[t]]]
    BY <1>4 DEF RecordOther
  <2> DEFINE row == [decision |-> d, draft |-> NIL, text |-> notes[t], vec |-> notes[t]]
  <2>2. /\ row \in Row /\ row.decision \in {"SKIPPED", "COVERED"} /\ row.draft = NIL
        /\ row.text # NIL /\ row.vec = row.text
    BY <1>0 DEF Row
  <2>3. TicketsOK' /\ HandsKept
    <3> HIDE DEF row
    <3>1. ticket' = [ticket EXCEPT ![t] = row]
      BY <2>1 DEF row
    <3> QED BY <1>4, <2>2, <3>1, RowRecorded DEF RecordOther
  <2> QED BY <1>4, <2>3 DEF RecordOther
<1>5. ASSUME NEW t \in Tickets, CompleteNotes(t)
      PROVE  /\ UNCHANGED <<ticket, drafting, crossed>>
             /\ notes' \in [Tickets -> Version]
  BY <1>0, <1>5 DEF CompleteNotes, Version
<1>6. ASSUME NEW a \in ArticleIds, NEW k \in Categories, MoveArticle(a) \/ ImportArticle(a, k)
      PROVE  UNCHANGED <<ticket, drafting, notes, crossed>>
  BY <1>6 DEF MoveArticle, ImportArticle
<1>7. ASSUME ResetState
      PROVE  /\ TicketsOK' /\ HandsKept
             /\ drafting' \in [Tickets -> ArticleIds \cup {NIL}] /\ UNCHANGED notes
  <2>0. NoRow \in Row /\ NoRow.draft = NIL /\ NoRow.decision = "NONE"
    BY DEF Row, NoRow
  <2>1. ticket' = [t \in Tickets |-> NoRow]
    BY <1>7 DEF ResetState
  <2>2. TicketsOK'
    BY <2>0, <2>1 DEF TicketsOK, RowsClean, VectorsMatchTexts, Rows
  <2>3. HandsKept
    BY <1>0, <1>7, <2>1 DEF HandsKept, ResetState, TypeOK, Request
  <2> QED BY <1>0, <1>7, <2>2, <2>3 DEF ResetState
<1> QED
  BY <1>0, <1>1, <1>2, <1>3, <1>4, <1>5, <1>6, <1>7 DEF Write

\* A set within two finite ones is no larger than both together.
LEMMA Covered ==
    ASSUME NEW S, NEW T, NEW U, IsFiniteSet(T), IsFiniteSet(U), S \subseteq T \cup U
    PROVE  /\ IsFiniteSet(S) /\ Cardinality(S) \in Nat
           /\ Cardinality(T) \in Nat /\ Cardinality(U) \in Nat
           /\ Cardinality(S) <= Cardinality(T) + Cardinality(U)
<1>1. /\ IsFiniteSet(T \cup U) /\ IsFiniteSet(T \cap U)
      /\ Cardinality(T \cup U) = Cardinality(T) + Cardinality(U) - Cardinality(T \cap U)
  BY FS_Union, FS_Intersection
<1>2. /\ Cardinality(T) \in Nat /\ Cardinality(U) \in Nat /\ Cardinality(T \cap U) \in Nat
  BY <1>1, FS_CardinalityType
<1>3. /\ IsFiniteSet(S) /\ Cardinality(S) <= Cardinality(T \cup U)
  BY <1>1, FS_Subset
<1>4. Cardinality(S) \in Nat
  BY <1>3, FS_CardinalityType
<1> QED BY <1>1, <1>2, <1>3, <1>4

\* The tables of a database are finite.
LEMMA FiniteTables ==
    ASSUME NEW S, S \subseteq ArticleIds \cup Tickets
    PROVE  IsFiniteSet(S) /\ Cardinality(S) \in Nat
BY FS_Subset, FS_CardinalityType

LEMMA WriteTypes ==
    ASSUME TypeOK, TicketsOK, Write
    PROVE  TypeOK'
<1>1. /\ article' \in [ArticleIds -> Article] /\ TicketsOK' /\ HandsKept
      /\ drafting' \in [Tickets -> ArticleIds \cup {NIL}] /\ notes' \in [Tickets -> Version]
  BY WriteArticles, WriteTickets
<1>2. writes' \in 0 .. MaxWrites /\ faults' \in 0 .. MaxFaults
  BY DEF Write, TypeOK
<1>3. req' \in Request
  BY WriteKeeps
<1> QED BY <1>1, <1>2, <1>3 DEF TypeOK, TicketsOK, HandsKept

\* Whatever is committed while a request runs, what it has read stays as good
\* as it was.
LEMMA WriteStep ==
    ASSUME IInv, Write
    PROVE  IInv'
<1>0. /\ TypeOK /\ TicketsOK /\ req \in Request
      /\ BackfillInv /\ LiveInv /\ StatsInv /\ DraftedTopicsAreNoGaps /\ SearchInv
  BY DEF IInv, TypeOK, TicketsOK
<1>1. TypeOK' /\ RowsClean' /\ VectorsMatchTexts' /\ HandsKept
  BY <1>0, WriteTypes, WriteTickets DEF TicketsOK
<1>2. BackfillInv'
  <2>1. /\ req'.texts = req.texts /\ req'.op = req.op /\ req'.pc = req.pc
        /\ req'.rows = req.rows /\ req'.batch = req.batch /\ req'.failed = req.failed
    BY <1>0, WriteKeeps
  <2>2. ASSUME NEW x \in req.texts, x[1] \in Rows' \ crossed'
        PROVE  x[1] \in Rows \ crossed /\ ticket'[x[1]] = ticket[x[1]]
    <3>1. ticket'[x[1]] \in {ticket[x[1]], NoRow} /\ crossed \subseteq crossed'
      BY <1>1, <2>2 DEF HandsKept
    <3>2. ticket'[x[1]] = ticket[x[1]]
      BY <2>2, <3>1 DEF Rows, NoRow
    <3> QED BY <2>2, <3>1, <3>2 DEF Rows
  <2> QED BY <1>0, <2>1, <2>2 DEF BackfillInv
<1>3. ASSUME NEW a \in ArticleIds, article[a].status # "NONE", article'[a].status # "NONE"
      PROVE  /\ article'[a].category = article[a].category
             /\ \/ article'[a].status = article[a].status
                \/ <<article[a].status, article'[a].status>> \in Forward \cup Over
  BY <1>0, <1>3, WriteArticles DEF NoArticle
<1>4. LiveInv'
  <2>1. CASE req.op = "search"
    <3>1. /\ req'.op = "search" /\ req'.kind = req.kind /\ req'.category = req.category
          /\ req'.live = req.live \cap Searchable'
      BY <1>0, <2>1, WriteKeeps DEF StillLive
    <3>2. ASSUME NEW x \in req'.live PROVE InScope(x)'
      <4>1. x \in Searchable /\ x \in Searchable' /\ InScope(x)
        BY <1>0, <2>1, <3>1 DEF LiveInv
      <4>2. CASE x \in Tickets
        BY <3>1, <4>1, <4>2 DEF InScope
      <4>3. CASE x \notin Tickets
        <5>1. x \in ArticleIds /\ article[x].status # "NONE" /\ article'[x].status # "NONE"
          BY <4>1, <4>3 DEF Searchable, With, Published, Rows
        <5> QED BY <1>3, <3>1, <4>1, <4>3, <5>1 DEF InScope
      <4> QED BY <4>2, <4>3
    <3> QED BY <3>1, <3>2 DEF LiveInv
  <2>2. CASE req.op # "search"
    BY <1>0, <2>2, WriteKeeps DEF LiveInv, StillLive
  <2> QED BY <2>1, <2>2
<1>5. StatsInv'
  <2> SUFFICES ASSUME req.op = "stats"
               PROVE  req'.counted >= Cardinality((req.live \cap With(Passed))')
    BY <1>0, WriteKeeps DEF StatsInv
  <2>1. /\ req'.pc = req.pc /\ req'.counted = req.counted
        /\ req'.live = req.live \cap (InWorkflow' \ SteppedBack)
    BY <1>0, WriteKeeps DEF StillLive
  <2>2. Passed' = Passed /\ Passed \in {{}, {"DRAFT", "EDITED"},
                                         {"DRAFT", "EDITED", "APPROVED"}, Workflow}
    BY <2>1 DEF Passed
  <2>3. (req.live \cap With(Passed))' \subseteq req.live \cap With(Passed)
    <3> SUFFICES ASSUME NEW a, a \in (req.live \cap With(Passed))'
                 PROVE  a \in req.live \cap With(Passed)
      OBVIOUS
    <3>1. /\ a \in req.live /\ a \in ArticleIds /\ article[a].status \in Workflow
          /\ article'[a].status \in Workflow /\ article'[a].status \in Passed
          /\ a \notin SteppedBack
      BY <1>0, <2>1, <2>2 DEF LiveInv, InWorkflow, With
    <3>2. \/ article'[a].status = article[a].status
          \/ <<article[a].status, article'[a].status>> \in Forward
      BY <1>3, <3>1 DEF Workflow, SteppedBack, Over
    <3>3. article[a].status \in Passed
      BY <2>2, <3>1, <3>2 DEF Forward, Workflow
    <3> QED BY <3>1, <3>3 DEF With
  <2>4. IsFiniteSet(req.live \cap With(Passed)) /\ req.counted \in Nat
    BY <1>0, FiniteTables DEF Request
  <2>5. /\ Cardinality(req.live \cap With(Passed)) \in Nat
        /\ Cardinality((req.live \cap With(Passed))') \in Nat
        /\ Cardinality((req.live \cap With(Passed))')
              <= Cardinality(req.live \cap With(Passed))
    <3> HIDE DEF With, Passed
    <3> QED BY <2>3, <2>4, FS_Subset, FS_CardinalityType
  <2> QED BY <1>0, <2>1, <2>4, <2>5 DEF StatsInv
<1>6. DraftedTopicsAreNoGaps'
  <2> SUFFICES ASSUME At("topics", "done"), NEW a \in req'.live, NEW t \in req.rows,
                      Topic[t] = article'[a].category
               PROVE  kb_status(Topic[t]) # "gap"
    BY <1>0, WriteKeeps DEF DraftedTopicsAreNoGaps, At, kb_status
  <2>1. a \in req.live /\ a \in InWorkflow /\ a \in InWorkflow'
    BY <1>0, WriteKeeps DEF LiveInv, At, StillLive
  <2>2. article'[a].category = article[a].category
    BY <1>3, <2>1 DEF InWorkflow, With, Workflow
  <2> QED BY <1>0, <2>1, <2>2 DEF DraftedTopicsAreNoGaps
<1>7. SearchInv'
  <2> SUFFICES ASSUME req.op = "search" PROVE SearchInv'
    BY <1>0, WriteKeeps DEF SearchInv
  <2>1. /\ req'.pc = req.pc /\ req'.hits = req.hits /\ req'.limit = req.limit
        /\ req'.live \subseteq req.live /\ req'.op = "search"
    BY <1>0, WriteKeeps
  <2>2. ASSUME NEW C, BestOf(C) PROVE BestOf(C)'
    BY <2>1, <2>2 DEF BestOf
  <2> QED BY <1>0, <2>1, <2>2 DEF SearchInv
<1> QED
  BY <1>1, <1>2, <1>4, <1>5, <1>6, <1>7 DEF IInv

-----------------------------------------------------------------------------
(* The queries of the requests *)

\* A query leaves the tables alone.
LEMMA QueryTypes ==
    ASSUME IInv, Reads, req' \in Request
    PROVE  TypeOK' /\ RowsClean' /\ VectorsMatchTexts'
<1>1. UNCHANGED <<article, ticket, drafting, notes, crossed, writes, faults>>
  BY DEF Reads, tables
<1> QED BY <1>1 DEF IInv, TypeOK, RowsClean, VectorsMatchTexts, Rows

\* A request begins, or is over.
LEMMA StartStep ==
    ASSUME IInv, Stats \/ Topics \/ Search \/ ReindexTickets \/ Answer
    PROVE  IInv'
<1>0. TypeOK /\ Idle \in Request
  <2>1. {} \in SUBSET Tickets
    OBVIOUS
  <2> QED BY DEF IInv, Idle, Request, Pc
<1>1. CASE Stats \/ Topics
  <2>1. Reads /\ \/ req' = [Idle EXCEPT !.op = "stats", !.pc = "pending", !.live = InWorkflow]
                 \/ req' = [Idle EXCEPT !.op = "topics", !.pc = "tickets"]
    BY <1>1 DEF Stats, Topics, Put
  <2>2. /\ req' \in Request /\ req'.op \in {"stats", "topics"}
        /\ req'.pc \in {"pending", "tickets"}
        /\ req'.texts = {} /\ req'.live \subseteq InWorkflow /\ req'.counted = 0
    <3>1. {} \subseteq InWorkflow /\ InWorkflow \subseteq ArticleIds
      BY DEF InWorkflow, With
    <3>2. CASE req' = [Idle EXCEPT !.op = "stats", !.pc = "pending", !.live = InWorkflow]
      <4> HIDE DEF InWorkflow
      <4> QED BY <3>1, <3>2 DEF Idle, Request, Pc
    <3>3. CASE req' = [Idle EXCEPT !.op = "topics", !.pc = "tickets"]
      <4>1. {} \in SUBSET Tickets
        OBVIOUS
      <4> QED BY <3>3, <4>1 DEF Idle, Request, Pc
    <3> QED BY <2>1, <3>2, <3>3
  <2>3. TypeOK' /\ RowsClean' /\ VectorsMatchTexts' /\ InWorkflow' = InWorkflow
    BY <2>1, <2>2, QueryTypes DEF Reads, tables, InWorkflow, With
  <2>4. BackfillInv' /\ LiveInv' /\ DraftedTopicsAreNoGaps' /\ SearchInv'
    BY <2>2, <2>3 DEF BackfillInv, LiveInv, DraftedTopicsAreNoGaps, SearchInv, At
  <2>5. StatsInv'
    <3>1. (req.live \cap With(Passed))' = {}
      BY <2>2 DEF Passed, With
    <3> QED BY <2>2, <3>1, FS_EmptySet DEF StatsInv
  <2> QED BY <2>3, <2>4, <2>5 DEF IInv
<1>2. CASE Search
  <2>1. PICK k \in Categories \cup {NIL}, kind \in {NIL, "kb", "ticket"}, n \in Limits :
           req' = [Idle EXCEPT !.op = "search", !.category = k, !.kind = kind, !.limit = n,
                     !.pc = IF kind = "ticket" THEN "tickets" ELSE "articles",
                     !.live = {x \in Searchable :
                         /\ kind = "kb" => x \in ArticleIds
                         /\ kind = "ticket" => x \in Tickets
                         /\ k # NIL => k = IF x \in Tickets THEN Topic[x]
                                            ELSE article[x].category}]
    BY <1>2 DEF Search, Put
  <2>2. /\ req'.op = "search" /\ req'.category = k /\ req'.kind = kind /\ req'.limit = n
        /\ req'.pc = (IF kind = "ticket" THEN "tickets" ELSE "articles")
        /\ req'.live \subseteq Searchable /\ req'.texts = {} /\ req'.hits = {}
        /\ \A x \in req'.live : /\ kind = "kb" => x \in ArticleIds
                                /\ kind = "ticket" => x \in Tickets
                                /\ k # NIL => k = IF x \in Tickets THEN Topic[x]
                                                   ELSE article[x].category
    BY <2>1 DEF Idle
  <2>3. req' \in Request
    <3>1. Searchable \subseteq ArticleIds \cup Tickets
      BY DEF Searchable, With, Rows
    <3> QED BY <2>1, <3>1 DEF Idle, Request, Pc
  <2>4. /\ TypeOK' /\ RowsClean' /\ VectorsMatchTexts'
        /\ Searchable' = Searchable /\ article' = article
    BY <1>2, <2>3, QueryTypes DEF Search, Reads, tables, Searchable, With, Rows
  <2>5. LiveInv'
    BY <2>2, <2>4 DEF LiveInv, InScope
  <2>6. SearchInv'
    BY <2>2 DEF SearchInv, BestOf
  <2>7. BackfillInv' /\ DraftedTopicsAreNoGaps' /\ StatsInv'
    BY <2>2 DEF BackfillInv, DraftedTopicsAreNoGaps, StatsInv, At
  <2> QED BY <2>4, <2>5, <2>6, <2>7 DEF IInv
<1>3. CASE ReindexTickets
  <2> DEFINE rows == {t \in Rows : ticket[t].vec = NIL}
             texts == {<<t, ticket[t].text>> : t \in rows}
  <2>1. /\ Reads
        /\ req' = [Idle EXCEPT !.op = "reindex", !.pc = "embed", !.rows = rows,
                               !.texts = texts]
    BY <1>3 DEF ReindexTickets, Put
  <2>2. /\ req'.op = "reindex" /\ req'.pc = "embed" /\ req'.rows = rows
        /\ req'.texts = texts /\ req'.batch = {}
    BY <2>1 DEF Idle
  <2>3. req' \in Request
    <3>1. rows \subseteq Tickets /\ texts \subseteq Tickets \X Version
      BY <1>0 DEF Rows, TypeOK, Row
    <3> QED
      <4> HIDE DEF rows, texts
      <4> QED BY <2>1, <3>1 DEF Idle, Request, Pc
  <2>4. /\ TypeOK' /\ RowsClean' /\ VectorsMatchTexts' /\ ticket' = ticket
    BY <2>1, <2>3, QueryTypes DEF Reads, tables
  <2>5. \A x \in texts : x[1] \in rows /\ ticket[x[1]].text = x[2]
    OBVIOUS
  <2>6. rows \subseteq {x[1] : x \in texts}
    <3>1. \A t \in rows : <<t, ticket[t].text>> \in texts /\ <<t, ticket[t].text>>[1] = t
      OBVIOUS
    <3> QED BY <3>1
  <2>7. BackfillInv'
    BY <2>2, <2>4, <2>5, <2>6 DEF BackfillInv
  <2>8. LiveInv' /\ DraftedTopicsAreNoGaps' /\ StatsInv' /\ SearchInv'
    BY <2>2 DEF LiveInv, DraftedTopicsAreNoGaps, StatsInv, SearchInv, At
  <2> QED BY <2>4, <2>7, <2>8 DEF IInv
<1>4. CASE Answer
  <2>1. Reads /\ req' = Idle /\ req'.op = "none" /\ req'.texts = {}
    BY <1>4 DEF Answer, Put, Idle
  <2>2. TypeOK' /\ RowsClean' /\ VectorsMatchTexts'
    BY <1>0, <2>1, QueryTypes
  <2> QED BY <2>1, <2>2 DEF IInv, BackfillInv, LiveInv, DraftedTopicsAreNoGaps, StatsInv,
          SearchInv, At
<1> QED BY <1>1, <1>2, <1>3, <1>4

\* The dashboard counts in the order of the workflow.
LEMMA CountStep ==
    ASSUME IInv, CountDrafts
    PROVE  IInv'
<1>0. /\ TypeOK /\ req \in Request /\ BackfillInv /\ LiveInv /\ StatsInv
      /\ req.op = "stats"
  BY DEF IInv, TypeOK, CountDrafts, Count, At
<1>1. PICK from, S, to : /\ Count(from, S, to) /\ req.pc = from
                         /\ to \in {"approved", "pushed", "done"}
                         /\ \/ from = "pending" /\ S = {"DRAFT", "EDITED"} /\ to = "approved"
                            \/ from = "approved" /\ S = {"APPROVED"} /\ to = "pushed"
                            \/ from = "pushed" /\ S = {"PUSHED"} /\ to = "done"
  BY DEF CountDrafts, Count, At
<1> DEFINE counted == req.counted + Cardinality(With(S))
<1>2. Cardinality(With(S)) \in Nat /\ IsFiniteSet(With(S))
  BY FiniteTables DEF With
<1>3. Reads /\ req' = [req EXCEPT !.pc = to, !.counted = counted]
  BY <1>1 DEF Count, Put
<1>4. /\ req' \in Request /\ req'.op = "stats" /\ req'.pc = to
      /\ req'.live = req.live /\ req'.texts = req.texts
      /\ req'.counted = req.counted + Cardinality(With(S))
  <2>1. counted \in Nat
    BY <1>0, <1>2 DEF Request
  <2> QED BY <1>0, <1>1, <1>3, <2>1 DEF Request, Pc
<1>5. TypeOK' /\ RowsClean' /\ VectorsMatchTexts' /\ article' = article
  BY <1>3, <1>4, QueryTypes DEF Reads, tables
<1>6. BackfillInv' /\ LiveInv' /\ DraftedTopicsAreNoGaps' /\ SearchInv'
  BY <1>0, <1>4, <1>5 DEF BackfillInv, LiveInv, DraftedTopicsAreNoGaps, SearchInv, At,
     InWorkflow, With
<1>7. StatsInv'
  <2>1. (req.live \cap With(Passed))' \subseteq (req.live \cap With(Passed)) \cup With(S)
    BY <1>1, <1>4, <1>5 DEF Passed, With, Workflow
  <2>2. IsFiniteSet(req.live \cap With(Passed))
    BY <1>0, FiniteTables DEF Request
  <2>3. /\ Cardinality(req.live \cap With(Passed)) \in Nat
        /\ Cardinality((req.live \cap With(Passed))') \in Nat
        /\ Cardinality((req.live \cap With(Passed))')
              <= Cardinality(req.live \cap With(Passed)) + Cardinality(With(S))
    BY <1>2, <2>1, <2>2, Covered
  <2>4. req.counted \in Nat
    BY <1>0 DEF Request
  <2> QED BY <1>0, <1>2, <1>4, <2>3, <2>4 DEF StatsInv
<1> QED BY <1>5, <1>6, <1>7 DEF IInv

\* An article that has been in the workflow since its ticket was read is among
\* those that are read, and makes its topic no gap.
LEMMA TopicsStep ==
    ASSUME IInv, ReadTopics
    PROVE  IInv'
<1>0. /\ TypeOK /\ req \in Request /\ BackfillInv /\ LiveInv /\ req.op = "topics"
  BY DEF IInv, TypeOK, ReadTopics, QueryTickets, QueryArticles, At
<1>1. ASSUME Reads, req' \in Request, req'.op = "topics", req'.texts = req.texts,
             req'.live \subseteq InWorkflow
      PROVE  /\ TypeOK' /\ RowsClean' /\ VectorsMatchTexts' /\ BackfillInv' /\ LiveInv'
             /\ StatsInv' /\ SearchInv'
  <2>1. TypeOK' /\ RowsClean' /\ VectorsMatchTexts' /\ article' = article
    BY <1>1, QueryTypes DEF Reads, tables
  <2> QED BY <1>0, <1>1, <2>1 DEF BackfillInv, LiveInv, StatsInv, SearchInv, InWorkflow, With
<1>2. CASE QueryTickets("tickets", "articles")
  <2> DEFINE live == InWorkflow \cap {ticket[t].draft : t \in Rows}
  <2>1. Reads /\ req' = [req EXCEPT !.rows = Rows, !.pc = "articles", !.live = live]
    BY <1>2 DEF QueryTickets, Put
  <2>2. /\ req' \in Request /\ req'.op = "topics" /\ req'.texts = req.texts
        /\ req'.live \subseteq InWorkflow /\ req'.pc = "articles"
    <3>1. Rows \subseteq Tickets /\ live \subseteq InWorkflow /\ InWorkflow \subseteq ArticleIds
      BY DEF Rows, InWorkflow, With
    <3> QED
      <4> HIDE DEF live
      <4> QED BY <1>0, <2>1, <3>1 DEF Request, Pc
  <2> QED BY <1>1, <2>1, <2>2 DEF IInv, DraftedTopicsAreNoGaps, At
<1>3. CASE QueryArticles("articles", "done")
  <2> DEFINE read == {<<article[a].category, article[a].status>> :
                         a \in {b \in ArticleIds : article[b].category # NIL}}
  <2>1. Reads /\ req' = [req EXCEPT !.pc = "done", !.read = read]
    BY <1>3 DEF QueryArticles, Put
  <2>2. read \subseteq Categories \X Status
    BY <1>0 DEF TypeOK, Article
  <2>3. /\ req' \in Request /\ req'.op = "topics" /\ req'.texts = req.texts
        /\ req'.live = req.live /\ req'.read = read /\ req'.rows = req.rows
        /\ article' = article
    <3> HIDE DEF read
    <3> QED BY <1>0, <2>1, <2>2 DEF Request, Pc, Reads, tables
  <2>4. ASSUME NEW a \in req.live, NEW t \in req.rows, Topic[t] = article[a].category
        PROVE  kb_status(Topic[t])' # "gap"
    <3>1. a \in ArticleIds /\ article[a].status \in Workflow
      BY <1>0 DEF LiveInv, InWorkflow, With
    <3>2. article[a].category # NIL
      <4>1. Topic[t] \in Categories
        BY <1>0 DEF Request
      <4> QED BY <1>0, <3>1, <4>1, <2>4
    <3>3. <<Topic[t], article[a].status>> \in read
      BY <2>4, <3>1, <3>2
    <3> HIDE DEF read
    <3>4. article[a].status \in {x[2] : x \in {y \in read : y[1] = Topic[t]}}
      BY <3>3
    <3> QED BY <2>3, <3>1, <3>4 DEF kb_status, Workflow, Published
  <2>5. DraftedTopicsAreNoGaps'
    <3> HIDE DEF read
    <3> QED BY <2>3, <2>4 DEF DraftedTopicsAreNoGaps
  <2>6. req'.live \subseteq InWorkflow
    BY <1>0, <2>3 DEF LiveInv
  <2> QED BY <1>1, <2>1, <2>3, <2>5, <2>6 DEF IInv
<1> QED BY <1>2, <1>3 DEF ReadTopics

\* What misses the n best of a set does so because there are n before it.
LEMMA BestMisses ==
    ASSUME NEW S, S \subseteq ArticleIds \cup Tickets, NEW n, NEW X \in Best(S, n)
    PROVE  /\ X \subseteq S
           /\ Cardinality(X) = Lesser(n, Cardinality(S))
           /\ \A x \in S \ X : /\ Cardinality(X) = n
                               /\ \A y \in X : Relevance[y] >= Relevance[x]
<1>1. /\ X \subseteq S /\ Cardinality(X) = Lesser(n, Cardinality(S))
      /\ \A x \in X, y \in S \ X : ~SortsBefore(y, x)
  BY DEF Best
<1>2. ASSUME NEW x \in S \ X
      PROVE  Cardinality(X) = n /\ \A y \in X : Relevance[y] >= Relevance[x]
  <2>1. Cardinality(X) # Cardinality(S)
    BY <1>1, <1>2, FiniteTables, FS_Subset
  <2>2. Cardinality(X) = n
    BY <1>1, <2>1 DEF Lesser
  <2>3. ASSUME NEW y \in X PROVE Relevance[y] >= Relevance[x]
    <3>1. Relevance[y] \in Nat /\ Relevance[x] \in Nat
      BY <1>1, <1>2, <2>3
    <3> QED BY <1>1, <1>2, <2>3, <3>1 DEF SortsBefore
  <2> QED BY <2>2, <2>3
<1> QED BY <1>1, <1>2

LEMMA LimitsAreInts == ASSUME NEW n \in Limits \cup {0} PROVE n \in Int
<1>1. CASE n \in Limits
  <2>1. Limits \subseteq Int
    BY Zenon
  <2> HIDE ReadAssumption
  <2> QED BY <1>1, <2>1
<1>2. CASE n = 0
  <2> HIDE ReadAssumption
  <2> QED BY <1>2
<1> QED BY <1>1, <1>2

\* A query of the search finds the best of its corpus.
LEMMA SearchStep ==
    ASSUME IInv, SearchArticles \/ SearchTickets
    PROVE  IInv'
<1>0. /\ TypeOK /\ req \in Request /\ BackfillInv /\ LiveInv /\ SearchInv
      /\ req.op = "search" /\ req.limit \in Int /\ PerSource >= req.limit
  <2>1. /\ TypeOK /\ req \in Request /\ BackfillInv /\ LiveInv /\ SearchInv
        /\ req.op = "search"
    BY DEF IInv, TypeOK, SearchArticles, SearchTickets, At
  <2>2. req.limit \in Limits \cup {0}
    BY <2>1 DEF Request
  <2>3. req.limit \in Int
    BY <2>2, LimitsAreInts
  <2> QED BY <2>1, <2>3 DEF PerSource, Greater
<1>1. ASSUME NEW H, H \subseteq ArticleIds \cup Tickets, NEW pc \in {"tickets", "done"},
             Reads, req' = [req EXCEPT !.hits = H, !.pc = pc]
      PROVE  /\ TypeOK' /\ RowsClean' /\ VectorsMatchTexts' /\ BackfillInv' /\ LiveInv'
             /\ StatsInv' /\ DraftedTopicsAreNoGaps'
             /\ req'.op = "search" /\ req'.pc = pc /\ req'.hits = H
             /\ req'.live = req.live /\ req'.limit = req.limit
  <2>1. /\ req' \in Request /\ req'.op = "search" /\ req'.pc = pc /\ req'.hits = H
        /\ req'.live = req.live /\ req'.limit = req.limit /\ req'.kind = req.kind
        /\ req'.category = req.category /\ req'.texts = req.texts
    BY <1>0, <1>1 DEF Request, Pc
  <2>2. /\ TypeOK' /\ RowsClean' /\ VectorsMatchTexts'
        /\ article' = article /\ ticket' = ticket
    BY <1>1, <2>1, QueryTypes DEF Reads, tables
  <2>3. BackfillInv'
    BY <1>0, <2>1 DEF BackfillInv
  <2>4. LiveInv'
    BY <1>0, <2>1, <2>2 DEF LiveInv, InScope, Searchable, With, Rows
  <2> QED BY <2>1, <2>2, <2>3, <2>4 DEF StatsInv, DraftedTopicsAreNoGaps, At
<1>2. CASE SearchArticles
  <2> DEFINE S == {a \in With(Published) : req.category \in {NIL, article[a].category}}
  <2>1. PICK H \in Best(S, PerSource) :
           req' = [req EXCEPT !.hits = H,
                              !.pc = IF req.kind = "kb" THEN "done" ELSE "tickets"]
    BY <1>2 DEF SearchArticles, Put
  <2>2. S \subseteq ArticleIds
    BY DEF With
  <2>3. /\ H \subseteq ArticleIds
        /\ \A x \in S \ H : /\ Cardinality(H) = PerSource
                            /\ \A y \in H : Relevance[y] >= Relevance[x]
    <3>1. S \subseteq ArticleIds \cup Tickets
      BY <2>2
    <3> HIDE DEF S
    <3> QED BY <2>2, <3>1, BestMisses
  <2>4. /\ req'.op = "search" /\ req'.hits = H /\ req'.live = req.live
        /\ req'.limit = req.limit
        /\ req'.pc = (IF req.kind = "kb" THEN "done" ELSE "tickets")
        /\ TypeOK' /\ RowsClean' /\ VectorsMatchTexts' /\ BackfillInv' /\ LiveInv'
        /\ StatsInv' /\ DraftedTopicsAreNoGaps'
    BY <1>1, <1>2, <2>1, <2>3 DEF SearchArticles
  <2>5. BestOf(ArticleIds)'
    <3>1. ASSUME NEW x \in req.live \cap ArticleIds PROVE x \in S
      BY <1>0, <3>1 DEF LiveInv, InScope, Searchable, Rows, With
    <3>2. H \cap ArticleIds = H
      BY <2>3
    <3> QED BY <1>0, <2>3, <2>4, <3>1, <3>2 DEF BestOf
  <2>6. req.kind = "kb" => BestOf(Tickets)'
    BY <1>0, <2>4 DEF LiveInv, InScope, BestOf
  <2>7. SearchInv'
    BY <2>3, <2>4, <2>5, <2>6 DEF SearchInv
  <2> QED BY <2>4, <2>7 DEF IInv
<1>3. CASE SearchTickets
  <2> DEFINE S == {t \in Rows : ticket[t].vec # NIL /\ req.category \in {NIL, Topic[t]}}
  <2>0. req.pc = "tickets" /\ req.hits \subseteq ArticleIds /\ BestOf(ArticleIds)
    BY <1>0, <1>3 DEF SearchTickets, At, SearchInv
  <2>1. PICK X \in Best(S, PerSource) :
           req' = [req EXCEPT !.hits = req.hits \cup X, !.pc = "done"]
    BY <1>3 DEF SearchTickets, Put
  <2>2. S \subseteq Tickets
    BY DEF Rows
  <2>3. /\ X \subseteq Tickets
        /\ \A x \in S \ X : /\ Cardinality(X) = PerSource
                            /\ \A y \in X : Relevance[y] >= Relevance[x]
    <3>1. S \subseteq ArticleIds \cup Tickets
      BY <2>2
    <3> HIDE DEF S
    <3> QED BY <2>2, <3>1, BestMisses
  <2> DEFINE H == req.hits \cup X
  <2>4. /\ H \subseteq ArticleIds \cup Tickets
        /\ H \cap ArticleIds = req.hits \cap ArticleIds /\ H \cap Tickets = X
    BY <2>0, <2>3
  <2>5. /\ req'.op = "search" /\ req'.pc = "done" /\ req'.hits = H
        /\ req'.live = req.live /\ req'.limit = req.limit
        /\ TypeOK' /\ RowsClean' /\ VectorsMatchTexts' /\ BackfillInv' /\ LiveInv'
        /\ StatsInv' /\ DraftedTopicsAreNoGaps'
    BY <1>1, <1>3, <2>1, <2>4 DEF SearchTickets
  <2>6. BestOf(ArticleIds)'
    BY <2>0, <2>4, <2>5 DEF BestOf
  <2>7. BestOf(Tickets)'
    <3>1. ASSUME NEW x \in req.live \cap Tickets PROVE x \in S
      BY <1>0, <3>1 DEF LiveInv, InScope, Searchable, With
    <3> QED BY <1>0, <2>3, <2>4, <2>5, <3>1 DEF BestOf
  <2>8. SearchInv'
    BY <2>5, <2>6, <2>7 DEF SearchInv
  <2> QED BY <2>5, <2>8 DEF IInv
<1> QED BY <1>2, <1>3

\* A batch that is done with has failed, or its rows have vectors.
LEMMA BackfillStep ==
    ASSUME IInv, EmbedBatch \/ CommitBatch
    PROVE  IInv'
<1>0. /\ TypeOK /\ req \in Request /\ RowsClean /\ VectorsMatchTexts /\ BackfillInv
      /\ req.op = "reindex"
  BY DEF IInv, TypeOK, EmbedBatch, CommitBatch, At
<1>1. ASSUME req'.op = "reindex"
      PROVE  LiveInv' /\ StatsInv' /\ DraftedTopicsAreNoGaps' /\ SearchInv'
  BY <1>1 DEF LiveInv, StatsInv, DraftedTopicsAreNoGaps, SearchInv, At
<1>2. ASSUME NEW batch \in SUBSET req.rows, NEW n, n = NextBatch(batch)
      PROVE  /\ n \in Request /\ n.op = "reindex" /\ n.pc \in {"embed", "done"}
             /\ n.rows = req.rows \ batch /\ n.batch = {} /\ n.failed = req.failed
             /\ n.texts = req.texts
             /\ n.pc = "done" => n.rows = {}
  BY <1>0, <1>2 DEF NextBatch, Request, Pc
<1>3. CASE EmbedBatch
  <2>1. UNCHANGED <<article, ticket, drafting, notes, crossed, writes>>
    BY <1>3 DEF EmbedBatch, tables
  <2>2. faults' \in 0 .. MaxFaults
    <3>1. faults' = faults \/ (faults < MaxFaults /\ faults' = faults + 1)
      BY <1>3 DEF EmbedBatch
    <3>2. faults \in 0 .. MaxFaults /\ MaxFaults \in Nat
      BY <1>0 DEF TypeOK
    <3> QED BY <3>1, <3>2
  <2>3. PICK batch \in SUBSET req.rows :
           \/ req' = [req EXCEPT !.pc = "commit", !.batch = batch]
           \/ req' = [NextBatch(batch) EXCEPT !.failed = @ \cup batch]
    BY <1>3 DEF EmbedBatch, Put
  <2>4. /\ req' \in Request /\ req'.op = "reindex" /\ req'.texts = req.texts
        /\ \/ /\ req'.pc = "commit" /\ req'.rows = req.rows /\ req'.batch = batch
              /\ req'.failed = req.failed
           \/ /\ req'.pc \in {"embed", "done"} /\ req'.rows = req.rows \ batch
              /\ req'.batch = {} /\ req'.failed = req.failed \cup batch
              /\ req'.pc = "done" => req'.rows = {}
    <3>1. CASE req' = [req EXCEPT !.pc = "commit", !.batch = batch]
      BY <1>0, <3>1 DEF Request, Pc
    <3>2. CASE req' = [NextBatch(batch) EXCEPT !.failed = @ \cup batch]
      <4> DEFINE n == NextBatch(batch)
      <4>1. /\ n \in Request /\ n.op = "reindex" /\ n.pc \in {"embed", "done"}
            /\ n.rows = req.rows \ batch /\ n.batch = {} /\ n.failed = req.failed
            /\ n.texts = req.texts
            /\ n.pc = "done" => n.rows = {}
        BY <1>2
      <4> DEFINE failed == req.failed \cup batch
      <4>2. failed \subseteq Tickets
        BY <1>0 DEF Request
      <4>3. req' = [n EXCEPT !.failed = failed]
        BY <3>2, <4>1
      <4>4. /\ req' \in Request /\ req'.op = n.op /\ req'.pc = n.pc
            /\ req'.rows = n.rows /\ req'.batch = n.batch /\ req'.texts = n.texts
            /\ req'.failed = failed
        <5> HIDE DEF n, failed
        <5> QED BY <4>1, <4>2, <4>3 DEF Request, Pc
      <4> HIDE DEF n
      <4> QED BY <4>1, <4>4
    <3> QED BY <2>3, <3>1, <3>2
  <2>5. TypeOK' /\ RowsClean' /\ VectorsMatchTexts'
    BY <1>0, <2>1, <2>2, <2>4 DEF TypeOK, RowsClean, VectorsMatchTexts, Rows
  <2>6. BackfillInv'
    BY <1>0, <2>1, <2>4 DEF BackfillInv, Rows
  <2> QED BY <1>1, <2>4, <2>5, <2>6 DEF IInv
<1>4. CASE CommitBatch
  <2> DEFINE there == req.batch \cap Rows
  <2>1. UNCHANGED <<article, drafting, notes, crossed, writes, faults>>
    BY <1>4 DEF CommitBatch
  <2>2. req.batch \in SUBSET req.rows /\ req.rows \subseteq {x[1] : x \in req.texts}
    BY <1>0 DEF BackfillInv
  <2>3. ASSUME NEW t \in there
        PROVE  LoadedText(t) \in Version /\ <<t, LoadedText(t)>> \in req.texts
    <3>1. PICK x \in req.texts : x[1] = t
      BY <2>2
    <3>2. x[2] \in Version /\ <<t, x[2]>> \in req.texts
      BY <1>0, <3>1 DEF Request
    <3> QED BY <3>2 DEF LoadedText
  <2>4. CASE /\ ticket' = [t \in Tickets |->
                   IF t \in there THEN [ticket[t] EXCEPT !.vec = LoadedText(t)]
                                  ELSE ticket[t]]
             /\ req' = NextBatch(req.batch)
    <3>1. /\ req' \in Request /\ req'.op = "reindex" /\ req'.pc \in {"embed", "done"}
          /\ req'.rows = req.rows \ req.batch /\ req'.batch = {}
          /\ req'.failed = req.failed /\ req'.texts = req.texts
          /\ req'.pc = "done" => req'.rows = {}
      <4> DEFINE n == NextBatch(req.batch)
      <4>1. /\ n \in Request /\ n.op = "reindex" /\ n.pc \in {"embed", "done"}
            /\ n.rows = req.rows \ req.batch /\ n.batch = {} /\ n.failed = req.failed
            /\ n.texts = req.texts
            /\ n.pc = "done" => n.rows = {}
        BY <1>2, <2>2
      <4>2. req' = n
        BY <2>4
      <4> HIDE DEF n
      <4> QED BY <4>1, <4>2
    <3>2. ASSUME NEW t \in Tickets
          PROVE  /\ ticket'[t] \in Row /\ ticket'[t].decision = ticket[t].decision
                 /\ ticket'[t].text = ticket[t].text /\ ticket'[t].draft = ticket[t].draft
                 /\ t \in there => ticket'[t].vec = LoadedText(t)
                 /\ t \notin there => ticket'[t] = ticket[t]
      <4>1. ticket[t] \in Row
        BY <1>0 DEF TypeOK
      <4>2. CASE t \in there
        <5>1. ticket'[t] = [ticket[t] EXCEPT !.vec = LoadedText(t)]
          BY <2>4, <4>2
        <5>2. LoadedText(t) \in Version
          BY <2>3, <4>2
        <5> QED BY <4>1, <4>2, <5>1, <5>2 DEF Row
      <4>3. CASE t \notin there
        BY <2>4, <4>1, <4>3
      <4> QED BY <4>2, <4>3
    <3>3. ticket' \in [Tickets -> Row]
      BY <2>4, <3>2
    <3>4. Rows' = Rows
      BY <3>2 DEF Rows
    <3>5. TypeOK'
      BY <1>0, <2>1, <3>1, <3>2, <3>3, <3>4 DEF TypeOK, Rows
    <3>6. RowsClean'
      BY <1>0, <3>2 DEF RowsClean, Rows
    <3>7. VectorsMatchTexts'
      <4>1. ASSUME NEW t \in Rows \ crossed, t \in there
            PROVE  ticket[t].text = LoadedText(t)
        BY <1>0, <2>3, <4>1 DEF BackfillInv
      <4> QED BY <1>0, <2>1, <3>2, <3>4, <4>1 DEF VectorsMatchTexts, Rows
    <3>8. BackfillInv'
      <4>1. ASSUME NEW x \in req.texts, x[1] \in Rows \ crossed
            PROVE  /\ ticket'[x[1]].text = x[2]
                   /\ ticket'[x[1]].vec = NIL => x[1] \in req'.rows \cup req'.failed
        <5>1. x[1] \in Tickets /\ NIL \notin Version
          BY <1>0 DEF Request, Version
        <5>2. /\ ticket[x[1]].text = x[2]
              /\ ticket[x[1]].vec = NIL => x[1] \in req.rows \cup req.failed
          BY <1>0, <4>1 DEF BackfillInv
        <5>3. CASE x[1] \in there
          <6>1. ticket'[x[1]].vec = LoadedText(x[1]) /\ LoadedText(x[1]) \in Version
            BY <2>3, <3>2, <5>1, <5>3
          <6>2. ticket'[x[1]].text = ticket[x[1]].text
            BY <3>2, <5>1
          <6> QED BY <5>1, <5>2, <6>1, <6>2
        <5>4. CASE x[1] \notin there
          BY <3>1, <3>2, <4>1, <5>1, <5>2, <5>4
        <5> QED BY <5>3, <5>4
      <4> QED BY <1>0, <2>1, <3>1, <3>4, <4>1 DEF BackfillInv
    <3> QED BY <1>1, <3>1, <3>5, <3>6, <3>7, <3>8 DEF IInv
  <2>5. CASE req' = Idle /\ UNCHANGED ticket
    <3>1. Reads /\ req' \in Request
      <4>1. {} \in SUBSET Tickets
        OBVIOUS
      <4> QED BY <2>1, <2>5 DEF Reads, tables, Idle, Request, Pc
    <3>2. req'.op = "none" /\ req'.texts = {}
      BY <2>5 DEF Idle
    <3> QED BY <3>1, <3>2, QueryTypes DEF IInv, BackfillInv, LiveInv, StatsInv,
            DraftedTopicsAreNoGaps, SearchInv, At
  <2> QED BY <1>4, <2>4, <2>5 DEF CommitBatch, Put
<1> QED BY <1>3, <1>4

-----------------------------------------------------------------------------
(* The invariant holds, and with it what the requests answer *)

LEMMA InvInit == Init => IInv
<1> SUFFICES ASSUME Init PROVE IInv
  OBVIOUS
<1>1. /\ req = Idle /\ Idle \in Request /\ req.op = "none" /\ req.texts = {}
  BY DEF Init, Idle, Request, Pc
<1>2. /\ NoRow \in Row /\ NoRow.draft = NIL /\ NoRow.decision = "NONE" /\ NoRow.vec = NIL
      /\ NoArticle \in Article /\ 1 \in Version
  BY DEF NoRow, Row, NoArticle, Article, Status, Version
<1> DEFINE old == [NoRow EXCEPT !.decision = "SKIPPED", !.text = 1]
<1>3. /\ old \in Row /\ old.draft = NIL /\ old.decision = "SKIPPED" /\ old.text = 1
      /\ old.vec = NIL /\ NIL # 1
  <2> DEFINE skipped == [NoRow EXCEPT !.decision = "SKIPPED"]
  <2>1. skipped \in Row /\ skipped.draft = NIL /\ skipped.vec = NIL
        /\ skipped.decision = "SKIPPED"
    BY <1>2 DEF Row
  <2>2. NIL # 1
    BY <1>2 DEF Version
  <2>3. old = [skipped EXCEPT !.text = 1]
    OBVIOUS
  <2> HIDE DEF skipped, old
  <2> QED BY <1>2, <2>1, <2>2, <2>3 DEF Row
<1>4. ticket = [t \in Tickets |-> IF t \in Legacy THEN old ELSE NoRow]
  BY DEF Init
<1> HIDE DEF old
<1>5. TypeOK
  BY <1>1, <1>2, <1>3, <1>4 DEF Init, TypeOK, Rows
<1>6. RowsClean /\ VectorsMatchTexts
  BY <1>2, <1>3, <1>4 DEF RowsClean, VectorsMatchTexts, Rows
<1> QED BY <1>1, <1>5, <1>6 DEF IInv, BackfillInv, LiveInv, StatsInv,
        DraftedTopicsAreNoGaps, SearchInv, At

LEMMA InvStep == IInv /\ [Next]_vars => IInv'
<1> SUFFICES ASSUME IInv, [Next]_vars PROVE IInv'
  OBVIOUS
<1>1. CASE UNCHANGED vars
  <2>1. Reads /\ req' = req
    BY <1>1 DEF vars, Reads, tables
  <2>2. TypeOK' /\ RowsClean' /\ VectorsMatchTexts'
    BY <2>1, QueryTypes DEF IInv, TypeOK
  <2>3. DraftedTopicsAreNoGaps'
    BY <2>1 DEF IInv, Reads, tables, DraftedTopicsAreNoGaps, kb_status, At
  <2>4. StatsInv'
    BY <2>1 DEF IInv, Reads, tables, StatsInv, Passed, With
  <2> QED BY <2>1, <2>2, <2>3, <2>4 DEF IInv, Reads, tables, BackfillInv, LiveInv,
          InScope, SearchInv, BestOf, At, Searchable, InWorkflow, With, Rows
<1> QED
  BY <1>1, WriteStep, StartStep, CountStep, TopicsStep, SearchStep, BackfillStep
  DEF Next, Read

\* The inductive invariant holds in every reachable state.
LEMMA Invariance == Spec => []IInv
BY InvInit, InvStep, PTL DEF Spec

\* The tables and the requests are what the code declares them to be.
THEOREM TypeCorrect == Spec => []TypeOK
<1>1. IInv => TypeOK
  BY DEF IInv
<1> QED BY <1>1, Invariance, PTL

\* The dashboard's three counts miss no article that is in the workflow
\* throughout, but for the ones that a request accepted earlier puts back.
THEOREM StatsComplete == Spec => []StatsMissNothing
<1>1. IInv => StatsMissNothing
  <2> SUFFICES ASSUME IInv, At("stats", "done")
               PROVE  req.counted >= Cardinality(req.live)
    BY DEF StatsMissNothing
  <2>1. req.live \cap With(Passed) = req.live
    BY DEF IInv, LiveInv, At, Passed, InWorkflow, With
  <2> QED BY <2>1 DEF IInv, StatsInv, At
<1> QED BY <1>1, Invariance, PTL

\* A topic with a draft that was there when its ticket was read is not shown as
\* a gap.
THEOREM NoFalseGaps == Spec => []DraftedTopicsAreNoGaps
<1>1. IInv => DraftedTopicsAreNoGaps
  BY DEF IInv
<1> QED BY <1>1, Invariance, PTL

\* Merging the best of each corpus and cutting the list gives the best of both:
\* what was there all along and is missing has limit others before it.
THEOREM SearchSound == Spec => []SearchFindsTheBest
<1>1. IInv => SearchFindsTheBest
  <2> SUFFICES ASSUME IInv, At("search", "done"), req.limit >= 0,
                      NEW hits \in Best(req.hits, req.limit), NEW x \in req.live \ hits
               PROVE  /\ Cardinality(hits) = req.limit
                      /\ \A y \in hits : Relevance[y] >= Relevance[x]
    BY DEF SearchFindsTheBest, Trimmed
  <2>1. /\ req \in Request /\ req.hits \subseteq ArticleIds \cup Tickets
        /\ req.live \subseteq ArticleIds \cup Tickets /\ req.limit \in Int
        /\ BestOf(ArticleIds) /\ BestOf(Tickets)
    <3>1. req \in Request /\ BestOf(ArticleIds) /\ BestOf(Tickets)
      BY DEF IInv, TypeOK, SearchInv, At
    <3>2. req.limit \in Limits \cup {0}
      BY <3>1 DEF Request
    <3>3. req.limit \in Int
      BY <3>2, LimitsAreInts
    <3> QED BY <3>1, <3>3 DEF Request
  <2>2. /\ hits \subseteq req.hits
        /\ Cardinality(hits) = Lesser(req.limit, Cardinality(req.hits))
        /\ \A z \in req.hits \ hits :
              /\ Cardinality(hits) = req.limit
              /\ \A y \in hits : Relevance[y] >= Relevance[z]
    BY <2>1, BestMisses
  <2>3. CASE x \in req.hits
    BY <2>2, <2>3
  <2>4. ASSUME NEW C, C \in {ArticleIds, Tickets}, x \in C, x \notin req.hits
        PROVE  /\ Cardinality(hits) = req.limit
               /\ \A y \in hits : Relevance[y] >= Relevance[x]
    <3> DEFINE H == req.hits \cap C
    <3>1. /\ Cardinality(H) >= req.limit
          /\ \A y \in H : Relevance[y] >= Relevance[x]
      BY <2>1, <2>4 DEF BestOf
    <3>2. /\ IsFiniteSet(req.hits) /\ Cardinality(req.hits) \in Nat
          /\ IsFiniteSet(hits) /\ Cardinality(hits) \in Nat
          /\ IsFiniteSet(H) /\ Cardinality(H) \in Nat
      BY <2>1, <2>2, FiniteTables
    <3>3. Cardinality(H) <= Cardinality(req.hits)
      BY <3>2, FS_Subset
    <3>4. Cardinality(hits) = req.limit
      BY <2>1, <2>2, <3>1, <3>2, <3>3 DEF Lesser
    <3>5. ASSUME NEW y \in hits, y \notin H
          PROVE  Relevance[y] >= Relevance[x]
      <4>1. PICK z \in H : z \notin hits
        <5> SUFFICES ASSUME H \subseteq hits PROVE FALSE
          OBVIOUS
        <5>1. H # hits
          BY <3>5
        <5>2. Cardinality(H) <= Cardinality(hits) /\ Cardinality(H) # Cardinality(hits)
          BY <3>2, <5>1, FS_Subset
        <5> QED BY <2>1, <3>1, <3>2, <3>4, <5>2
      <4>2. Relevance[y] >= Relevance[z] /\ Relevance[z] >= Relevance[x]
        BY <2>2, <3>1, <3>5, <4>1
      <4>3. Relevance[x] \in Nat /\ Relevance[y] \in Nat /\ Relevance[z] \in Nat
        BY <2>1, <2>2, <3>5, <4>1
      <4> QED BY <4>2, <4>3
    <3> QED BY <3>1, <3>4, <3>5
  <2> QED BY <2>1, <2>3, <2>4
<1> QED BY <1>1, Invariance, PTL

\* A vector is of its row's text, unless a backfill and a poll crossed.
THEOREM VectorsSound == Spec => []VectorsMatchTexts
<1>1. IInv => VectorsMatchTexts
  BY DEF IInv
<1> QED BY <1>1, Invariance, PTL

\* A backfill that ends has missed no row that is still there, but for those of
\* the batches that failed and those that a poll recorded anew meanwhile.
THEOREM BackfillEnds == Spec => []BackfillIsComplete
<1>1. IInv => BackfillIsComplete
  BY DEF IInv, BackfillInv, BackfillIsComplete, At
<1> QED BY <1>1, Invariance, PTL
=============================================================================
