-------------------------- MODULE DraftReviewProofs --------------------------
(* Proofs about DraftReview, for every value of its constants. *)
EXTENDS DraftReview, FiniteSetTheorems, TLAPS

USE NilAssumption

-----------------------------------------------------------------------------
(* The inductive invariant.  The properties speak of the tables, but what a  *)
(* session writes into them was read and decided before its last awaits: the *)
(* strengthening says what a session may rely on until it commits.           *)

\* An item a row names was created in the ITSM.
RowOK(r) == r.kb # NIL => items[r.kb].made

\* A request that is not a push: it leaves the item of the row alone and does
\* not publish.
KeepsItem(s) ==
    /\ s.want.kb = s.seen.kb
    /\ s.want.status \in {s.seen.status, "EDITED", "APPROVED", "REJECTED"}

SessOK(s) ==
    /\ s.pc \in {"commit", "create", "publish", "refresh", "index", "link"}
          => s.art \in ArticleIds
    /\ \A i \in s.todo : items[i.kb].made
    /\ s.pc = "list" => s.art = NIL
    /\ s.pc \in {"list", "upsert"} => s.op = "import"
    /\ s.pc = "commit" => KeepsItem(s)
    /\ s.pc = "upsert" /\ s.art # NIL => s.art \in ArticleIds /\ KeepsItem(s)
    /\ s.pc = "upsert" /\ s.art = NIL =>
          s.want.status = "IMPORTED" /\ s.want.kb # NIL /\ RowOK(s.want)
    /\ s.pc \in {"create", "publish"} => RowOK(s.seen) /\ s.seen.status # "PUSHED"
    /\ s.pc = "publish" =>
          /\ s.want.status = "PUSHED"
          /\ s.want.kb \notin {NIL, s.seen.kb}
          /\ RowOK(s.want)
    /\ s.op = "push" /\ s.pc \in {"refresh", "index", "link"} =>
          s.want.kb # NIL /\ <<s.art, s.want.kb>> \in log
    /\ s.pc = "link" => s.op = "push"

TablesOK ==
    /\ \A a \in ArticleIds : RowOK(article[a])
    /\ PublishedHaveItems

IInv ==
    /\ TypeOK
    /\ TablesOK
    /\ \A p \in Sessions : SessOK(sess[p])

-----------------------------------------------------------------------------
(* Type correctness *)

\* What the configuration gives: the absent row and the idle session are typed.
LEMMA Constants ==
    /\ NoArticle \in Article
    /\ NoArticle.text \in Text
    /\ Idle \in Session
BY DraftAssumption
   DEF NoArticle, Article, Status, Text, Idle, Session, Pc, Op

\* The empty tables and the idle sessions are typed.
LEMMA TypeInit == Init => TypeOK
<1> SUFFICES ASSUME Init PROVE TypeOK
  OBVIOUS
<1>1. article \in [ArticleIds -> Article]
  BY Constants DEF Init, NoArticle, Article, Status
<1>2. items \in [KbIds -> Item]
  <2>1. ASSUME NEW b \in BOOLEAN PROVE [NoItem EXCEPT !.made = b] \in Item
    BY DraftAssumption DEF NoItem, Item
  <2>2. \A k \in KbIds : (k \in Foreign) \in BOOLEAN
    OBVIOUS
  <2> QED BY <2>1, <2>2 DEF Init
<1> QED
  BY <1>1, <1>2, Constants DEF Init, TypeOK, NoRow, Row

\* A session replaces its own record by a session record.
LEMMA PutType ==
    ASSUME TypeOK, NEW p \in Sessions, NEW s \in Session, Put(p, s)
    PROVE  sess' \in [Sessions -> Session]
BY DEF TypeOK, Put

\* A flush mixes columns of two rows, so it yields a row.
LEMMA MergedType ==
    ASSUME NEW c \in Article, NEW l \in Article, NEW w \in Article
    PROVE  Merged(c, l, w) \in Article
BY DEF Merged, Article

\* A session that ends the import of one article is still a session.
LEMMA AfterImportType ==
    ASSUME NEW s \in Session
    PROVE  AfterImport(s) \in Session
BY Constants DEF AfterImport, Session, Pc, Op

\* An attempt to link only adds links and counts faults.
LEMMA LinkEffect ==
    ASSUME NEW L, Link(L), faults \in Nat
    PROVE  links \subseteq links' /\ links' \subseteq links \cup L /\ faults' \in Nat
BY BoundAssumption DEF Link, Fault

\* The count of the faults that were met stays a number.
LEMMA FaultType ==
    ASSUME faults \in Nat, Fault \/ UNCHANGED faults
    PROVE  faults' \in Nat
BY DEF Fault

\* Every step of a session keeps the tables and the sessions typed.
LEMMA TypeStep == IInv /\ [Next]_vars => TypeOK'
<1> SUFFICES ASSUME IInv, [Next]_vars PROVE TypeOK'
  OBVIOUS
<1>0. /\ TypeOK
      /\ \A p \in Sessions : sess[p] \in Session
      /\ \A a \in ArticleIds : article[a] \in Article
  BY DEF IInv, TypeOK
<1> USE <1>0
<1>1. ASSUME NEW p \in Sessions, NEW a \in ArticleIds, NEW op \in Op,
             NEW w \in Article, Request(p, op, a, w)
      PROVE  TypeOK'
  <2>1. [Idle EXCEPT !.pc = "commit", !.op = op, !.art = a,
                     !.seen = article[a], !.want = w] \in Session
    BY Constants DEF Session, Pc
  <2> QED BY <1>1, <2>1, PutType DEF Request, TypeOK
<1>2. ASSUME NEW p \in Sessions, Review(p) PROVE TypeOK'
  <2>1. ASSUME NEW a \in ArticleIds, NEW v \in Versions, UpdateDraft(p, a, v)
        PROVE  TypeOK'
    <3>1. [article[a] EXCEPT !.text = [ver |-> v, form |-> "md"],
                             !.status = IF @ = "DRAFT" THEN "EDITED" ELSE @] \in Article
      BY DEF Article, Text, Status
    <3> QED BY <1>1, <2>1, <3>1 DEF UpdateDraft, Op
  <2>2. ASSUME NEW a \in ArticleIds, ApproveDraft(p, a) PROVE TypeOK'
    <3>1. [article[a] EXCEPT !.status = "APPROVED"] \in Article
      BY DEF Article, Status
    <3> QED BY <1>1, <2>2, <3>1 DEF ApproveDraft, Op
  <2>3. ASSUME NEW a \in ArticleIds, RejectDraft(p, a) PROVE TypeOK'
    <3>1. [article[a] EXCEPT !.status = "REJECTED"] \in Article
      BY DEF Article, Status
    <3> QED BY <1>1, <2>3, <3>1 DEF RejectDraft, Op
  <2>4. CASE CommitReview(p)
    <3>1. sess[p].art \in ArticleIds
      BY <2>4 DEF CommitReview, IInv, SessOK
    <3>2. Merged(article[sess[p].art], sess[p].seen, sess[p].want) \in Article
      BY <3>1, MergedType DEF Session
    <3> QED BY <2>4, <3>1, <3>2, Constants, PutType DEF CommitReview, TypeOK
  <2> QED BY <1>2, <2>1, <2>2, <2>3, <2>4 DEF Review
<1>3. ASSUME NEW p \in Sessions, Push(p) PROVE TypeOK'
  <2>1. ASSUME NEW a \in ArticleIds, PushDraft(p, a) PROVE TypeOK'
    <3>1. [Idle EXCEPT !.pc = "create", !.op = "push", !.art = a,
                       !.seen = article[a], !.want = article[a]] \in Session
      BY Constants DEF Session, Pc, Op
    <3> QED BY <2>1, <3>1, PutType DEF PushDraft, TypeOK
  <2>2. ASSUME NEW k \in KbIds, NextItem(k), sess[p].art \in ArticleIds, Created(p, k)
        PROVE  items' \in [KbIds -> Item]
    BY <2>2 DEF Created, TypeOK, Item, Session, Article, Text
  <2>3. sess[p].pc \in {"create", "publish", "link"} => sess[p].art \in ArticleIds
    BY DEF IInv, SessOK
  <2>4. ASSUME NEW k \in KbIds, CreateKbDraft(p, k) PROVE TypeOK'
    <3>1. [sess[p] EXCEPT !.pc = "publish", !.want.kb = k,
                          !.want.status = "PUSHED"] \in Session
      <4> DEFINE w == [sess[p].want EXCEPT !.kb = k, !.status = "PUSHED"]
      <4>1. sess[p].want \in Article /\ w \in Article
        BY DEF Session, Article, Status
      <4>2. [sess[p] EXCEPT !.pc = "publish", !.want = w] \in Session
        BY <4>1 DEF Session, Pc
      <4> QED BY <4>2 DEF Session
    <3> QED BY <2>2, <2>3, <2>4, <3>1, PutType DEF CreateKbDraft, TypeOK
  <2>5. CASE CreateKbDraftFails(p)
    <3>1. faults' \in Nat /\ items' \in [KbIds -> Item]
      BY <2>2, <2>3, <2>5, FaultType DEF CreateKbDraftFails, TypeOK
    <3> QED BY <2>3, <2>5, <3>1, Constants, PutType DEF CreateKbDraftFails, TypeOK
  <2>6. CASE CommitPush(p)
    <3>1. Merged(article[sess[p].art], sess[p].seen, sess[p].want) \in Article
          /\ sess[p].want.kb \in KbIds \cup {NIL} /\ sess[p].art \in ArticleIds
      BY <2>3, <2>6, MergedType DEF CommitPush, Session, Article
    <3>2. [sess[p] EXCEPT !.pc = "refresh"] \in Session
      BY DEF Session, Pc
    <3>3. article' \in [ArticleIds -> Article]
      BY <2>6, <3>1 DEF CommitPush, TypeOK
    <3>4. log' \subseteq ArticleIds \X (KbIds \cup {NIL})
      BY <2>6, <3>1 DEF CommitPush, TypeOK
    <3>5. sess' \in [Sessions -> Session]
      BY <2>6, <3>2, Constants, PutType DEF CommitPush
    <3> QED BY <2>6, <3>3, <3>4, <3>5 DEF CommitPush, TypeOK
  <2>7. CASE LinkTickets(p)
    <3>1. faults' \in Nat /\ links' \subseteq links \cup ({sess[p].want.kb} \X LinkTargets(sess[p].art))
      BY <2>7, LinkEffect DEF LinkTickets, TypeOK
    <3>2. sess[p].want.kb \in KbIds
      BY <2>7 DEF LinkTickets, IInv, SessOK, Session, Article
    <3> QED BY <2>7, <3>1, <3>2, Constants, PutType DEF LinkTickets, TypeOK, LinkTargets
  <2> QED BY <1>3, <2>1, <2>4, <2>5, <2>6, <2>7 DEF Push
<1>4. ASSUME NEW p \in Sessions, Import(p) PROVE TypeOK'
  <2>1. CASE ImportFromItsm(p)
    <3>1. Listing \subseteq Listed
      BY DEF Listing, Listed, TypeOK, Item
    <3>2. [Idle EXCEPT !.pc = "list", !.op = "import", !.todo = Listing] \in Session
      BY <3>1, Constants DEF Session, Pc, Op
    <3> QED BY <2>1, <3>2, PutType DEF ImportFromItsm, TypeOK
  <2>2. ASSUME NEW i \in Listed, ReadByKbId(p, i) PROVE TypeOK'
    <3> DEFINE text == [ver |-> i.ver, form |-> "plain"]
               s == [sess[p] EXCEPT !.pc = "upsert", !.todo = @ \ {i}]
    <3>1. text \in Text /\ i.kb \in KbIds
      BY DEF Text, Listed
    <3>2. s \in Session
      BY DEF Session, Pc
    <3>3. ASSUME NEW a \in ArticleIds
          PROVE  [s EXCEPT !.art = a, !.seen = article[a],
                           !.want = [article[a] EXCEPT !.text = text]] \in Session
      <4>1. [article[a] EXCEPT !.text = text] \in Article
        BY <3>1 DEF Article
      <4> QED BY <3>2, <4>1 DEF Session
    <3>4. [s EXCEPT !.want = [status |-> "IMPORTED", text |-> text, kb |-> i.kb]]
             \in Session
      <4>1. [status |-> "IMPORTED", text |-> text, kb |-> i.kb] \in Article
        BY <3>1 DEF Article, Status
      <4> QED BY <3>2, <4>1 DEF Session
    <3>5. sess' \in [Sessions -> Session]
      BY <2>2, <3>3, <3>4, PutType DEF ReadByKbId
    <3> QED BY <2>2, <3>5 DEF ReadByKbId, TypeOK
  <2>3. CASE UpdateImported(p)
    <3>1. sess[p].art \in ArticleIds
      BY <2>3 DEF UpdateImported, IInv, SessOK
    <3>2. /\ Merged(article[sess[p].art], sess[p].seen, sess[p].want) \in Article
          /\ [sess[p] EXCEPT !.pc = "refresh"] \in Session
      BY <3>1, MergedType DEF Session, Pc
    <3> QED BY <2>3, <3>1, <3>2, PutType DEF UpdateImported, TypeOK
  <2>4. ASSUME NEW a \in ArticleIds, InsertImported(p, a) PROVE TypeOK'
    <3>1. [sess[p] EXCEPT !.pc = "refresh", !.art = a] \in Session
      BY DEF Session, Pc
    <3>2. sess[p].want \in Article
      BY DEF Session
    <3>3. sess' \in [Sessions -> Session]
      BY <2>4, <3>1, Constants, PutType DEF InsertImported
    <3>4. article' \in [ArticleIds -> Article]
      BY <2>4, <3>2 DEF InsertImported, TypeOK
    <3> QED BY <2>4, <3>3, <3>4 DEF InsertImported, TypeOK
  <2> QED BY <1>4, <2>1, <2>2, <2>3, <2>4 DEF Import
<1>5. ASSUME NEW p \in Sessions, Refresh(p) PROVE TypeOK'
  <2>1. sess[p].art \in ArticleIds
    BY <1>5 DEF Refresh, IInv, SessOK
  <2>2. [sess[p] EXCEPT !.pc = "index", !.text = article[sess[p].art].text] \in Session
    BY <2>1 DEF Session, Pc, Article
  <2> QED BY <1>5, <2>2, PutType DEF Refresh, TypeOK
<1>6. ASSUME NEW p \in Sessions, IndexArticle(p) PROVE TypeOK'
  <2>1. [sess[p] EXCEPT !.pc = "link"] \in Session /\ sess[p].text \in Text
    BY DEF Session, Pc
  <2> QED BY <1>6, <2>1, AfterImportType, PutType DEF IndexArticle, TypeOK
<1>7. ASSUME NEW p \in Sessions, IndexFails(p) PROVE TypeOK'
  BY <1>7, Constants, FaultType, PutType DEF IndexFails, TypeOK
<1>8. CASE RelinkKbToTickets
  <2> DEFINE pushed == {b \in ArticleIds : article[b].status = "PUSHED"}
             L == UNION {{article[a].kb} \X LinkTargets(a) : a \in pushed}
  <2>1. links' \subseteq links \cup L /\ faults' \in Nat
    BY <1>8, LinkEffect DEF RelinkKbToTickets, TypeOK
  <2>2. L \subseteq KbIds \X Tickets
    <3>1. ASSUME NEW a \in pushed PROVE article[a].kb \in KbIds
      BY DEF IInv, TablesOK, PublishedHaveItems, Article
    <3> QED BY <3>1 DEF LinkTargets
  <2> QED BY <1>8, <2>1, <2>2 DEF RelinkKbToTickets, TypeOK
<1>9. CASE Environment
  <2>1. CASE Crash
    BY <2>1, Constants, FaultType DEF Crash, TypeOK
  <2>2. ASSUME NEW t \in Tickets, NEW a \in ArticleIds, NEW d \in {"COVERED", "DRAFTED"},
               RecordTicket(t, a, d)
        PROVE  TypeOK'
    <3>1. [decision |-> d, match |-> a, late |-> article[a].status = "PUSHED"] \in Row
      BY DEF Row
    <3> QED BY <2>2, <3>1 DEF RecordTicket, TypeOK
  <2>3. ASSUME NEW k \in KbIds, NEW v \in Versions, EditInItsm(k, v) PROVE TypeOK'
    BY <2>3 DEF EditInItsm, TypeOK, Item
  <2> QED BY <1>9, <2>1, <2>2, <2>3 DEF Environment
<1>10. CASE UNCHANGED vars
  BY <1>10 DEF vars, TypeOK
<1> QED
  BY <1>2, <1>3, <1>4, <1>5, <1>6, <1>7, <1>8, <1>9, <1>10 DEF Next

-----------------------------------------------------------------------------
(* The invariant is inductive *)

\* No step takes an item or a log entry away.
Grow ==
    /\ \A k \in KbIds : items[k].made => items'[k].made
    /\ log \subseteq log'

\* What a session relies on is not disturbed by the steps of the others.
LEMMA SessKept ==
    ASSUME IInv, Grow, NEW q \in Sessions, sess'[q] = sess[q]
    PROVE  SessOK(sess[q])'
<1>1. SessOK(sess[q]) /\ sess[q] \in Session
  BY DEF IInv, TypeOK
<1>2. \A i \in sess[q].todo : i.kb \in KbIds
  BY <1>1 DEF Session, Listed
<1>3. sess[q].seen.kb \in KbIds \cup {NIL} /\ sess[q].want.kb \in KbIds \cup {NIL}
  BY <1>1 DEF Session, Article
<1> QED
  BY <1>1, <1>2, <1>3 DEF SessOK, KeepsItem, RowOK, Grow

\* The tables stay right when one row changes, if the new row is right.
LEMMA RowChange ==
    ASSUME IInv, Grow, NEW a \in ArticleIds,
           \A b \in ArticleIds \ {a} : article'[b] = article[b],
           RowOK(article[a])',
           article'[a].status \in {"PUSHED", "IMPORTED"} => article'[a].kb # NIL,
           article'[a].status = "PUSHED" => <<a, article'[a].kb>> \in log'
    PROVE  TablesOK'
<1>0. TablesOK /\ \A b \in ArticleIds : article[b].kb \in KbIds \cup {NIL}
  BY DEF IInv, TypeOK, Article
<1>1. ASSUME NEW b \in ArticleIds PROVE RowOK(article[b])'
  BY <1>0 DEF TablesOK, RowOK, Grow
<1>2. PublishedHaveItems'
  BY <1>0, <1>1 DEF TablesOK, PublishedHaveItems, RowOK, Grow
<1> QED
  BY <1>1, <1>2 DEF TablesOK

\* The tables stay right when only items and log entries are added.
LEMMA TablesKept ==
    ASSUME IInv, Grow, UNCHANGED article
    PROVE  TablesOK'
<1>1. \A b \in ArticleIds : article[b].kb \in KbIds \cup {NIL}
  BY DEF IInv, TypeOK, Article
<1> QED
  BY <1>1 DEF IInv, TablesOK, RowOK, PublishedHaveItems, Grow

\* A step of session p keeps the invariant if the tables stay right and p may
\* rely on what it holds.
LEMMA PutKeeps ==
    ASSUME IInv, TypeOK', TablesOK', Grow, NEW p \in Sessions,
           \A q \in Sessions \ {p} : sess'[q] = sess[q],
           SessOK(sess[p])'
    PROVE  IInv'
<1>1. ASSUME NEW q \in Sessions \ {p} PROVE SessOK(sess[q])'
  BY SessKept
<1> QED
  BY <1>1 DEF IInv

\* An idle session relies on nothing, and the import's next item on the items
\* it has listed.
LEMMA IdleOK ==
    ASSUME NEW p \in Sessions, sess'[p] = Idle
    PROVE  SessOK(sess[p])'
BY DEF SessOK, Idle

\* A step of one session leaves the records of the others alone.
LEMMA PutFrame ==
    ASSUME TypeOK, NEW p \in Sessions, NEW s, Put(p, s)
    PROVE  sess'[p] = s /\ \A q \in Sessions \ {p} : sess'[q] = sess[q]
BY DEF TypeOK, Put

-----------------------------------------------------------------------------

\* The empty tables satisfy the inductive invariant.
LEMMA InvInit == Init => IInv
<1> SUFFICES ASSUME Init PROVE IInv
  OBVIOUS
<1>1. TypeOK
  BY TypeInit
<1>2. TablesOK
  BY DEF Init, TablesOK, RowOK, PublishedHaveItems, NoArticle
<1>3. \A p \in Sessions : SessOK(sess[p])
  BY DEF Init, SessOK, Idle
<1> QED
  BY <1>1, <1>2, <1>3 DEF IInv

\* The reviewers' requests.
LEMMA ReviewStep ==
    ASSUME IInv, TypeOK', NEW p \in Sessions, Review(p)
    PROVE  IInv'
<1>0. TypeOK /\ sess[p] \in Session /\ SessOK(sess[p])
      /\ \A a \in ArticleIds : article[a] \in Article
  BY DEF IInv, TypeOK
<1>1. ASSUME NEW a \in ArticleIds, NEW op, NEW w, Request(p, op, a, w),
             w.kb = article[a].kb,
             w.status \in {article[a].status, "EDITED", "APPROVED", "REJECTED"}
      PROVE  IInv'
  <2> DEFINE s == [Idle EXCEPT !.pc = "commit", !.op = op, !.art = a,
                               !.seen = article[a], !.want = w]
  <2>1. /\ UNCHANGED <<article, log, pt, items, links>>
        /\ sess'[p] = s /\ \A q \in Sessions \ {p} : sess'[q] = sess[q]
    BY <1>0, <1>1, PutFrame DEF Request
  <2>2. /\ s.pc = "commit" /\ s.art = a /\ s.todo = {} /\ KeepsItem(s)
    BY <1>1 DEF Idle, KeepsItem
  <2>3. SessOK(sess[p])'
    BY <2>1, <2>2 DEF SessOK, KeepsItem
  <2>4. Grow
    BY <2>1 DEF Grow
  <2> QED BY <2>1, <2>3, <2>4, TablesKept, PutKeeps
<1>2. ASSUME NEW a \in ArticleIds, NEW v \in Versions, UpdateDraft(p, a, v)
      PROVE  IInv'
  BY <1>0, <1>1, <1>2 DEF UpdateDraft, Article
<1>3. ASSUME NEW a \in ArticleIds, ApproveDraft(p, a) PROVE IInv'
  BY <1>0, <1>1, <1>3 DEF ApproveDraft, Article
<1>4. ASSUME NEW a \in ArticleIds, RejectDraft(p, a) PROVE IInv'
  BY <1>0, <1>1, <1>4 DEF RejectDraft, Article
<1>5. CASE CommitReview(p)
  <2> DEFINE a == sess[p].art
  <2>1. /\ a \in ArticleIds /\ KeepsItem(sess[p])
        /\ UNCHANGED <<log, pt, items, links>>
        /\ article' = [article EXCEPT ![a] = Merged(@, sess[p].seen, sess[p].want)]
        /\ Put(p, Idle)
    BY <1>0, <1>5 DEF CommitReview, SessOK
  <2>2. /\ article'[a].kb = article[a].kb
        /\ article'[a].status \in {article[a].status, "EDITED", "APPROVED", "REJECTED"}
        /\ \A b \in ArticleIds \ {a} : article'[b] = article[b]
    BY <1>0, <2>1 DEF TypeOK, Merged, KeepsItem
  <2>3. Grow
    BY <2>1 DEF Grow
  <2>4. TablesOK'
    <3>1. /\ RowOK(article[a])
          /\ article[a].status \in {"PUSHED", "IMPORTED"} => article[a].kb # NIL
          /\ article[a].status = "PUSHED" => <<a, article[a].kb>> \in log
      BY <2>1 DEF IInv, TablesOK, PublishedHaveItems
    <3> QED BY <2>1, <2>2, <2>3, <3>1, RowChange DEF RowOK
  <2> QED BY <1>0, <2>1, <2>3, <2>4, PutFrame, IdleOK, PutKeeps
<1> QED
  BY <1>2, <1>3, <1>4, <1>5 DEF Review

\* push_draft.
LEMMA PushStep ==
    ASSUME IInv, TypeOK', NEW p \in Sessions, Push(p)
    PROVE  IInv'
<1> DEFINE s == sess[p]
<1>0. TypeOK /\ s \in Session /\ SessOK(s)
      /\ \A a \in ArticleIds : article[a] \in Article
  BY DEF IInv, TypeOK
<1>1. ASSUME NEW a \in ArticleIds, PushDraft(p, a) PROVE IInv'
  <2> DEFINE r == [Idle EXCEPT !.pc = "create", !.op = "push", !.art = a,
                               !.seen = article[a], !.want = article[a]]
  <2>1. /\ UNCHANGED <<article, log, pt, items, links>>
        /\ sess'[p] = r /\ \A q \in Sessions \ {p} : sess'[q] = sess[q]
        /\ article[a].status # "PUSHED"
    BY <1>0, <1>1, PutFrame DEF PushDraft, Pushable
  <2>2. r.pc = "create" /\ r.art = a /\ r.todo = {} /\ r.seen = article[a]
    BY DEF Idle
  <2>3. RowOK(article[a])
    BY DEF IInv, TablesOK
  <2>4. SessOK(sess[p])'
    BY <2>1, <2>2, <2>3 DEF SessOK, RowOK
  <2>5. Grow
    BY <2>1 DEF Grow
  <2> QED BY <2>1, <2>4, <2>5, TablesKept, PutKeeps
<1>2. ASSUME NEW k \in KbIds, NextItem(k), Created(p, k)
      PROVE  /\ ~items[k].made /\ items'[k].made
             /\ \A j \in KbIds \ {k} : items'[j] = items[j]
  BY <1>0, <1>2 DEF NextItem, Created, TypeOK
<1>3. ASSUME NEW k \in KbIds, CreateKbDraft(p, k) PROVE IInv'
  <2> DEFINE r == [s EXCEPT !.pc = "publish", !.want.kb = k, !.want.status = "PUSHED"]
  <2>1. /\ UNCHANGED <<article, log, pt, links>>
        /\ sess'[p] = r /\ \A q \in Sessions \ {p} : sess'[q] = sess[q]
        /\ s.pc = "create"
    BY <1>0, <1>3, PutFrame DEF CreateKbDraft
  <2>2. /\ ~items[k].made /\ items'[k].made
        /\ \A j \in KbIds \ {k} : items'[j] = items[j]
    BY <1>2, <1>3 DEF CreateKbDraft
  <2>3. Grow
    BY <2>1, <2>2 DEF Grow
  <2>4. /\ r.pc = "publish" /\ r.art = s.art /\ r.todo = s.todo /\ r.seen = s.seen
        /\ r.want.kb = k /\ r.want.status = "PUSHED" /\ r.op = s.op
    BY <1>0 DEF Session, Article
  \* The new item is not the one the row named before: that one was made.
  <2>5. /\ s.art \in ArticleIds /\ s.seen.status # "PUSHED" /\ RowOK(s.seen)
        /\ \A i \in s.todo : i.kb \in KbIds /\ items[i.kb].made
        /\ s.seen.kb \in KbIds \cup {NIL}
    BY <1>0, <2>1 DEF SessOK, Session, Article, Listed
  <2>6. SessOK(sess[p])'
    BY <2>1, <2>2, <2>3, <2>4, <2>5 DEF SessOK, RowOK, Grow
  <2> QED BY <2>1, <2>3, <2>6, TablesKept, PutKeeps
<1>4. CASE CreateKbDraftFails(p)
  <2>1. /\ UNCHANGED <<article, pt, links>> /\ log \subseteq log'
        /\ \A k \in KbIds : items[k].made => items'[k].made
        /\ Put(p, Idle)
    BY <1>2, <1>4 DEF CreateKbDraftFails
  <2>2. Grow
    BY <2>1 DEF Grow
  <2> QED BY <1>0, <2>1, <2>2, PutFrame, IdleOK, TablesKept, PutKeeps
<1>5. CASE CommitPush(p)
  <2>. PICK a \in ArticleIds : a = s.art
    BY <1>0, <1>5 DEF CommitPush, SessOK
  <2>0. /\ s.pc = "publish"
        /\ s.want.status = "PUSHED" /\ s.want.kb \notin {NIL, s.seen.kb}
        /\ s.seen.status # "PUSHED" /\ RowOK(s.want) /\ s.want.kb \in KbIds
        /\ \A i \in s.todo : items[i.kb].made
    BY <1>0, <1>5 DEF CommitPush, SessOK, Session, Article
  <2>1. CASE KbFree(a, s.want.kb)
    <3>1. /\ UNCHANGED <<pt, items, links>>
          /\ article' = [article EXCEPT ![a] = Merged(@, s.seen, s.want)]
          /\ log' = log \cup {<<a, s.want.kb>>}
          /\ Put(p, [s EXCEPT !.pc = "refresh"])
      BY <1>5, <2>1 DEF CommitPush
    <3>2. /\ article'[a].kb = s.want.kb /\ article'[a].status = "PUSHED"
          /\ \A b \in ArticleIds \ {a} : article'[b] = article[b]
      BY <1>0, <2>0, <3>1 DEF TypeOK, Merged
    <3>3. Grow
      BY <3>1 DEF Grow
    <3>4. TablesOK'
      <4>1. /\ RowOK(article[a])'
            /\ <<a, article'[a].kb>> \in log'
            /\ article'[a].kb # NIL
        BY <2>0, <3>1, <3>2 DEF RowOK
      <4>2. KbFree(a, article'[a].kb)
        BY <2>1, <3>2 DEF KbFree
      <4> QED BY <2>0, <3>1, <3>2, <3>3, <4>1, <4>2, RowChange
    <3>5. /\ sess'[p] = [s EXCEPT !.pc = "refresh"]
          /\ \A q \in Sessions \ {p} : sess'[q] = sess[q]
      BY <1>0, <3>1, PutFrame
    <3>6. /\ sess'[p].pc = "refresh" /\ sess'[p].art = a /\ sess'[p].todo = s.todo
          /\ sess'[p].want = s.want
      BY <1>0, <3>5 DEF Session
    <3>7. SessOK(sess[p])'
      BY <2>0, <3>1, <3>6 DEF SessOK
    <3> QED BY <3>3, <3>4, <3>5, <3>7, PutKeeps
  <2>2. CASE ~KbFree(a, s.want.kb)
    <3>1. UNCHANGED <<article, log, pt, items, links>> /\ Put(p, Idle)
      BY <1>5, <2>2 DEF CommitPush
    <3>2. Grow
      BY <3>1 DEF Grow
    <3> QED BY <1>0, <3>1, <3>2, PutFrame, IdleOK, TablesKept, PutKeeps
  <2> QED BY <2>1, <2>2
<1>6. CASE LinkTickets(p)
  <2>1. Put(p, Idle) /\ UNCHANGED <<article, log, items>>
    BY <1>6 DEF LinkTickets
  <2>2. Grow
    BY <2>1 DEF Grow
  <2> QED BY <1>0, <2>1, <2>2, PutFrame, IdleOK, TablesKept, PutKeeps
<1> QED
  BY <1>1, <1>3, <1>4, <1>5, <1>6 DEF Push

\* The import: an update leaves the row's item alone, an insertion names a
\* listed one.
LEMMA ImportStep ==
    ASSUME IInv, TypeOK', NEW p \in Sessions, Import(p)
    PROVE  IInv'
<1> DEFINE s == sess[p]
<1>0. TypeOK /\ s \in Session /\ SessOK(s)
      /\ \A a \in ArticleIds : article[a] \in Article
  BY DEF IInv, TypeOK
<1>1. CASE ImportFromItsm(p)
  <2> DEFINE r == [Idle EXCEPT !.pc = "list", !.op = "import", !.todo = Listing]
  <2>1. /\ UNCHANGED <<article, log, pt, items, links>>
        /\ sess'[p] = r /\ \A q \in Sessions \ {p} : sess'[q] = sess[q]
    BY <1>0, <1>1, PutFrame DEF ImportFromItsm
  <2>2. r.pc = "list" /\ r.op = "import" /\ r.art = NIL /\ r.todo = Listing
    BY DEF Idle
  <2>3. SessOK(sess[p])'
    BY <2>1, <2>2 DEF SessOK, Listing
  <2>4. Grow
    BY <2>1 DEF Grow
  <2> QED BY <2>1, <2>3, <2>4, TablesKept, PutKeeps
<1>2. ASSUME NEW i \in Listed, ReadByKbId(p, i) PROVE IInv'
  <2> DEFINE text == [ver |-> i.ver, form |-> "plain"]
             r == [s EXCEPT !.pc = "upsert", !.todo = @ \ {i}]
  <2>1. /\ UNCHANGED <<article, log, pt, items, links>>
        /\ s.pc = "list" /\ i \in s.todo
    BY <1>2 DEF ReadByKbId
  <2>2. /\ s.op = "import" /\ s.art = NIL
        /\ \A j \in s.todo : items[j.kb].made
        /\ i.kb \in KbIds /\ i.kb # NIL
    BY <1>0, <2>1 DEF SessOK, Listed
  <2>3. Grow
    BY <2>1 DEF Grow
  <2>4. ASSUME NEW a \in ArticleIds,
               Put(p, [r EXCEPT !.art = a, !.seen = article[a],
                                !.want = [article[a] EXCEPT !.text = text]])
        PROVE  SessOK(sess[p])' /\ \A q \in Sessions \ {p} : sess'[q] = sess[q]
    <3> DEFINE n == [r EXCEPT !.art = a, !.seen = article[a],
                              !.want = [article[a] EXCEPT !.text = text]]
    <3>1. sess'[p] = n /\ \A q \in Sessions \ {p} : sess'[q] = sess[q]
      BY <1>0, <2>4, PutFrame
    <3>2. n.pc = "upsert" /\ n.art = a /\ n.todo \subseteq s.todo /\ n.op = "import"
          /\ n.seen = article[a] /\ n.want = [article[a] EXCEPT !.text = text]
      BY <1>0, <2>2 DEF Session
    <3>3. n.want.kb = n.seen.kb /\ n.want.status = n.seen.status
      BY <1>0, <3>2 DEF Article
    <3> QED BY <2>1, <2>2, <3>1, <3>2, <3>3 DEF SessOK, KeepsItem
  <2>5. ASSUME Put(p, [r EXCEPT !.want =
                         [status |-> "IMPORTED", text |-> text, kb |-> i.kb]])
        PROVE  SessOK(sess[p])' /\ \A q \in Sessions \ {p} : sess'[q] = sess[q]
    <3> DEFINE w == [status |-> "IMPORTED", text |-> text, kb |-> i.kb]
               n == [r EXCEPT !.want = w]
    <3>1. sess'[p] = n /\ \A q \in Sessions \ {p} : sess'[q] = sess[q]
      BY <1>0, <2>5, PutFrame
    <3>2. n.pc = "upsert" /\ n.art = NIL /\ n.todo \subseteq s.todo /\ n.op = "import"
          /\ n.want.kb = i.kb /\ n.want.status = "IMPORTED"
      BY <1>0, <2>2 DEF Session
    <3> QED BY <2>1, <2>2, <3>1, <3>2 DEF SessOK, RowOK
  <2>6. SessOK(sess[p])' /\ \A q \in Sessions \ {p} : sess'[q] = sess[q]
    BY <1>2, <2>4, <2>5 DEF ReadByKbId
  <2> QED BY <2>1, <2>3, <2>6, TablesKept, PutKeeps
\* Both commits leave a session that has only its list to rely on.
<1>3. ASSUME NEW n, Put(p, n), n.pc = "refresh", n.art \in ArticleIds,
             n.op = "import", n.todo = s.todo, Grow, items' = items
      PROVE  SessOK(sess[p])' /\ \A q \in Sessions \ {p} : sess'[q] = sess[q]
  <2>1. sess'[p] = n /\ \A q \in Sessions \ {p} : sess'[q] = sess[q]
    BY <1>0, <1>3, PutFrame
  <2> QED BY <1>0, <1>3, <2>1 DEF SessOK
<1>4. CASE UpdateImported(p)
  <2>. PICK a \in ArticleIds : a = s.art
    BY <1>0, <1>4 DEF UpdateImported, SessOK
  <2> DEFINE n == [s EXCEPT !.pc = "refresh"]
  <2>1. /\ KeepsItem(s) /\ s.op = "import"
        /\ UNCHANGED <<log, pt, items, links>>
        /\ article' = [article EXCEPT ![a] = Merged(@, s.seen, s.want)]
        /\ Put(p, n)
    BY <1>0, <1>4 DEF UpdateImported, SessOK
  <2>2. n.pc = "refresh" /\ n.art = a /\ n.op = "import" /\ n.todo = s.todo
    BY <1>0, <2>1 DEF Session
  <2>3. Grow
    BY <2>1 DEF Grow
  <2>4. /\ article'[a].kb = article[a].kb
        /\ article'[a].status \in {article[a].status, "EDITED", "APPROVED", "REJECTED"}
        /\ \A b \in ArticleIds \ {a} : article'[b] = article[b]
    BY <1>0, <2>1 DEF TypeOK, Merged, KeepsItem
  <2>5. /\ RowOK(article[a])
        /\ article[a].status \in {"PUSHED", "IMPORTED"} => article[a].kb # NIL
        /\ article[a].status = "PUSHED" => <<a, article[a].kb>> \in log
    BY DEF IInv, TablesOK, PublishedHaveItems
  <2>6. TablesOK'
    BY <2>1, <2>3, <2>4, <2>5, RowChange DEF RowOK
  <2> QED BY <1>3, <2>1, <2>2, <2>3, <2>6, PutKeeps
<1>5. ASSUME NEW a \in ArticleIds, InsertImported(p, a) PROVE IInv'
  <2> DEFINE n == [s EXCEPT !.pc = "refresh", !.art = a]
  <2>1. /\ s.op = "import" /\ s.want.status = "IMPORTED"
        /\ s.want.kb # NIL /\ RowOK(s.want)
        /\ UNCHANGED <<log, pt, items, links>>
    BY <1>0, <1>5 DEF InsertImported, SessOK
  <2>2. Grow
    BY <2>1 DEF Grow
  <2>3. CASE /\ KbFree(a, s.want.kb)
             /\ article' = [article EXCEPT ![a] = s.want]
             /\ Put(p, n)
    <3>1. n.pc = "refresh" /\ n.art = a /\ n.op = "import" /\ n.todo = s.todo
      BY <1>0, <2>1 DEF Session
    <3>2. article'[a] = s.want /\ \A b \in ArticleIds \ {a} : article'[b] = article[b]
      BY <1>0, <2>3 DEF TypeOK
    <3>3. RowOK(article[a])' /\ KbFree(a, article'[a].kb)
      BY <2>1, <2>3, <3>2 DEF RowOK, KbFree
    <3>4. TablesOK'
      BY <2>1, <2>2, <3>2, <3>3, RowChange
    <3> QED BY <1>3, <2>1, <2>2, <2>3, <3>1, <3>4, PutKeeps
  <2>4. CASE UNCHANGED article /\ Put(p, Idle)
    BY <1>0, <2>1, <2>2, <2>4, PutFrame, IdleOK, TablesKept, PutKeeps
  <2> QED BY <1>5, <2>3, <2>4 DEF InsertImported
<1> QED
  BY <1>1, <1>2, <1>4, <1>5 DEF Import

\* The steps push and import share.
LEMMA IndexStep ==
    ASSUME IInv, TypeOK', NEW p \in Sessions,
           Refresh(p) \/ IndexArticle(p) \/ IndexFails(p)
    PROVE  IInv'
<1> DEFINE s == sess[p]
<1>0. TypeOK /\ s \in Session /\ SessOK(s)
  BY DEF IInv, TypeOK
<1>1. UNCHANGED <<article, log, pt, items, links>>
  BY DEF Refresh, IndexArticle, IndexFails
<1>2. Grow
  BY <1>1 DEF Grow
<1>3. CASE Refresh(p)
  <2> DEFINE r == [s EXCEPT !.pc = "index", !.text = article[s.art].text]
  <2>1. s.pc = "refresh" /\ sess'[p] = r /\ \A q \in Sessions \ {p} : sess'[q] = sess[q]
    BY <1>0, <1>3, PutFrame DEF Refresh
  <2>2. /\ r.pc = "index" /\ r.art = s.art /\ r.todo = s.todo /\ r.op = s.op
        /\ r.want = s.want
    BY <1>0 DEF Session
  <2>3. SessOK(sess[p])'
    BY <1>0, <1>1, <2>1, <2>2 DEF SessOK
  <2> QED BY <1>1, <1>2, <2>1, <2>3, TablesKept, PutKeeps
<1>4. CASE IndexArticle(p)
  <2>1. CASE s.op = "push"
    <3> DEFINE r == [s EXCEPT !.pc = "link"]
    <3>1. s.pc = "index" /\ sess'[p] = r /\ \A q \in Sessions \ {p} : sess'[q] = sess[q]
      BY <1>0, <1>4, <2>1, PutFrame DEF IndexArticle
    <3>2. /\ r.pc = "link" /\ r.art = s.art /\ r.todo = s.todo /\ r.op = s.op
          /\ r.want = s.want
      BY <1>0 DEF Session
    <3>3. SessOK(sess[p])'
      BY <1>0, <1>1, <2>1, <3>1, <3>2 DEF SessOK
    <3> QED BY <1>1, <1>2, <3>1, <3>3, TablesKept, PutKeeps
  <2>2. CASE s.op # "push"
    <3>1. sess'[p] = AfterImport(s) /\ \A q \in Sessions \ {p} : sess'[q] = sess[q]
      BY <1>0, <1>4, <2>2, PutFrame DEF IndexArticle
    <3>2. SessOK(sess[p])'
      <4>1. CASE s.todo = {}
        BY <3>1, <4>1, IdleOK DEF AfterImport
      <4>2. CASE s.todo # {}
        <5> DEFINE r == [Idle EXCEPT !.pc = "list", !.op = "import", !.todo = s.todo]
        <5>1. sess'[p] = r
          BY <3>1, <4>2 DEF AfterImport
        <5>2. r.pc = "list" /\ r.op = "import" /\ r.art = NIL /\ r.todo = s.todo
          BY DEF Idle
        <5> QED BY <1>0, <1>1, <5>1, <5>2 DEF SessOK
      <4> QED BY <4>1, <4>2
    <3> QED BY <1>1, <1>2, <3>1, <3>2, TablesKept, PutKeeps
  <2> QED BY <2>1, <2>2
<1>5. CASE IndexFails(p)
  BY <1>0, <1>1, <1>2, <1>5, PutFrame, IdleOK, TablesKept, PutKeeps DEF IndexFails
<1> QED
  BY <1>3, <1>4, <1>5

\* A relink, a crash, the poll cycle and the people who use the ITSM.
LEMMA EnvironmentStep ==
    ASSUME IInv, TypeOK', RelinkKbToTickets \/ Environment
    PROVE  IInv'
<1>1. CASE Crash
  <2>1. UNCHANGED <<article, log, pt, items, links>>
        /\ \A q \in Sessions : sess'[q] = Idle
    BY <1>1 DEF Crash
  <2>2. Grow
    BY <2>1 DEF Grow
  <2>3. ASSUME NEW q \in Sessions PROVE SessOK(sess[q])'
    BY <2>1, IdleOK
  <2> QED BY <2>1, <2>2, <2>3, TablesKept DEF IInv
<1>2. CASE \/ RelinkKbToTickets
           \/ \E t \in Tickets, a \in ArticleIds, d \in {"COVERED", "DRAFTED"} :
                 RecordTicket(t, a, d)
           \/ \E k \in KbIds, v \in Versions : EditInItsm(k, v)
  <2>1. UNCHANGED <<article, log, sess>>
    BY <1>2 DEF RelinkKbToTickets, RecordTicket, EditInItsm
  <2>2. Grow
    <3>1. ASSUME NEW k \in KbIds, NEW v \in Versions, EditInItsm(k, v) PROVE Grow
      BY <3>1 DEF EditInItsm, Grow, IInv, TypeOK, Item
    <3>2. CASE UNCHANGED items
      BY <2>1, <3>2 DEF Grow
    <3> QED BY <1>2, <3>1, <3>2 DEF RelinkKbToTickets, RecordTicket
  <2>3. ASSUME NEW q \in Sessions PROVE SessOK(sess[q])'
    BY <2>1, <2>2, SessKept
  <2> QED BY <2>1, <2>2, <2>3, TablesKept DEF IInv
<1> QED
  BY <1>1, <1>2 DEF Environment

\* The inductive invariant survives every step: one case per action.
LEMMA InvStep == IInv /\ [Next]_vars => IInv'
<1> SUFFICES ASSUME IInv, [Next]_vars PROVE IInv'
  OBVIOUS
<1>1. TypeOK'
  BY TypeStep
<1>2. CASE UNCHANGED vars
  <2>1. Grow
    BY <1>2 DEF Grow, vars
  <2>2. ASSUME NEW q \in Sessions PROVE SessOK(sess[q])'
    BY <1>2, <2>1, SessKept DEF vars
  <2>3. TablesOK'
    BY <1>2, <2>1, TablesKept DEF vars
  <2> QED BY <1>1, <2>2, <2>3 DEF IInv
<1> QED
  BY <1>1, <1>2, ReviewStep, PushStep, ImportStep, IndexStep, EnvironmentStep
  DEF Next

\* The inductive invariant holds in every reachable state.
LEMMA Invariance == Spec => []IInv
BY InvInit, InvStep, PTL DEF Spec

-----------------------------------------------------------------------------
(* With one request at a time the workflow implements ArticleLifecycle: the  *)
(* row a request read is still the row it commits to.                        *)

\* The status changes the handlers' guards let through.
Allowed(from, to) ==
    \/ to = from
    \/ to = "EDITED" /\ from = "DRAFT"
    \/ to = "APPROVED" /\ from \in {"DRAFT", "EDITED"}
    \/ to = "PUSHED" /\ from \in Pushable
    \/ to = "REJECTED" /\ from \in {"DRAFT", "EDITED", "APPROVED", "IMPORTED", "REJECTED"}
    \/ to = "IMPORTED" /\ from = "NONE"

SoloOK(s) ==
    /\ s.pc \in {"commit", "create", "publish"} \/ (s.pc = "upsert" /\ s.art # NIL)
          => s.seen = article[s.art]
    /\ s.pc = "commit" \/ (s.pc = "upsert" /\ s.art # NIL)
          => Allowed(s.seen.status, s.want.status)
    /\ s.pc \in {"create", "publish"} => s.seen.status \in Pushable

Solo ==
    /\ \A p, q \in Sessions : sess[p].pc # "idle" /\ sess[q].pc # "idle" => p = q
    /\ \A p \in Sessions : SoloOK(sess[p])

\* A request starts only when there is no other.
LEMMA StartsAlone ==
    ASSUME MaxConcurrent = 1, Solo, NEW p \in Sessions, MayStart(p),
           NEW q \in Sessions
    PROVE  sess[q].pc = "idle"
<1> SUFFICES ASSUME sess[q].pc # "idle" PROVE FALSE
  OBVIOUS
<1>1. Active = {q}
  BY DEF Active, Solo
<1>2. Cardinality(Active) = 1
  BY <1>1, FS_Singleton
<1> QED
  BY <1>2 DEF MayStart

\* A step of the only session keeps Solo if that session's record is right.
LEMMA SoloKept ==
    ASSUME MaxConcurrent = 1, Solo, NEW p \in Sessions,
           MayStart(p) \/ sess[p].pc # "idle",
           \A q \in Sessions \ {p} : sess'[q] = sess[q],
           SoloOK(sess[p])'
    PROVE  Solo'
<1>1. ASSUME NEW q \in Sessions \ {p} PROVE sess[q].pc = "idle"
  BY StartsAlone DEF Solo
<1>2. ASSUME NEW q \in Sessions \ {p} PROVE sess'[q].pc = "idle" /\ SoloOK(sess[q])'
  BY <1>1 DEF SoloOK
<1> QED
  BY <1>2 DEF Solo

\* A session that has committed, or is yet to read, relies on no row.
LEMMA NothingHeld ==
    ASSUME NEW p \in Sessions,
           sess'[p].pc \in {"idle", "list", "refresh", "index", "link"}
    PROVE  SoloOK(sess[p])'
BY DEF SoloOK

\* With no request under way, no request has read a row.
LEMMA SoloInit == Init => Solo
BY DEF Init, Solo, SoloOK, Idle

\* While requests come one at a time, the row a request read stays as it read it.
LEMMA SoloStep ==
    ASSUME MaxConcurrent = 1, IInv, Solo, [Next]_vars
    PROVE  Solo'
<1>0. /\ TypeOK
      /\ \A p \in Sessions : sess[p] \in Session /\ SessOK(sess[p]) /\ SoloOK(sess[p])
      /\ \A a \in ArticleIds : article[a] \in Article
  BY DEF IInv, TypeOK, Solo
<1>1. ASSUME NEW p \in Sessions, MayStart(p) \/ sess[p].pc # "idle", NEW n, Put(p, n),
             n.pc \in {"idle", "list", "refresh", "index", "link"}
      PROVE  Solo'
  <2>1. sess'[p] = n /\ \A q \in Sessions \ {p} : sess'[q] = sess[q]
    BY <1>0, <1>1, PutFrame
  <2> QED BY <1>1, <2>1, NothingHeld, SoloKept
<1>2. ASSUME NEW p \in Sessions, sess[p].pc # "idle", Put(p, Idle) PROVE Solo'
  BY <1>1, <1>2 DEF Idle
<1>3. ASSUME NEW p \in Sessions, NEW a \in ArticleIds, NEW op, NEW w,
             Request(p, op, a, w), Allowed(article[a].status, w.status)
      PROVE  Solo'
  <2> DEFINE s == [Idle EXCEPT !.pc = "commit", !.op = op, !.art = a,
                               !.seen = article[a], !.want = w]
  <2>1. /\ UNCHANGED article /\ MayStart(p)
        /\ sess'[p] = s /\ \A q \in Sessions \ {p} : sess'[q] = sess[q]
    BY <1>0, <1>3, PutFrame DEF Request
  <2>2. s.pc = "commit" /\ s.art = a /\ s.seen = article[a] /\ s.want = w
    BY DEF Idle
  <2>3. SoloOK(sess[p])'
    BY <1>3, <2>1, <2>2 DEF SoloOK
  <2> QED BY <2>1, <2>3, SoloKept
<1>4. ASSUME NEW p \in Sessions, Review(p) PROVE Solo'
  <2>1. ASSUME NEW a \in ArticleIds, NEW v \in Versions, UpdateDraft(p, a, v)
        PROVE  Solo'
    BY <1>0, <1>3, <2>1 DEF UpdateDraft, Article, Allowed
  <2>2. ASSUME NEW a \in ArticleIds, ApproveDraft(p, a) PROVE Solo'
    BY <1>0, <1>3, <2>2 DEF ApproveDraft, Article, Allowed
  <2>3. ASSUME NEW a \in ArticleIds, RejectDraft(p, a) PROVE Solo'
    BY <1>0, <1>3, <2>3 DEF RejectDraft, Request, Article, Status, Allowed
  <2>4. CASE CommitReview(p)
    BY <1>2, <2>4 DEF CommitReview
  <2> QED BY <1>4, <2>1, <2>2, <2>3, <2>4 DEF Review
<1>5. ASSUME NEW p \in Sessions, Push(p) PROVE Solo'
  <2>1. ASSUME NEW a \in ArticleIds, PushDraft(p, a) PROVE Solo'
    <3> DEFINE r == [Idle EXCEPT !.pc = "create", !.op = "push", !.art = a,
                                 !.seen = article[a], !.want = article[a]]
    <3>1. /\ UNCHANGED article /\ MayStart(p) /\ article[a].status \in Pushable
          /\ sess'[p] = r /\ \A q \in Sessions \ {p} : sess'[q] = sess[q]
      BY <1>0, <2>1, PutFrame DEF PushDraft
    <3>2. r.pc = "create" /\ r.art = a /\ r.seen = article[a]
      BY DEF Idle
    <3>3. SoloOK(sess[p])'
      BY <3>1, <3>2 DEF SoloOK
    <3> QED BY <3>1, <3>3, SoloKept
  <2>2. ASSUME NEW k \in KbIds, CreateKbDraft(p, k) PROVE Solo'
    <3> DEFINE r == [sess[p] EXCEPT !.pc = "publish", !.want.kb = k,
                                    !.want.status = "PUSHED"]
    <3>1. /\ UNCHANGED article /\ sess[p].pc = "create"
          /\ sess'[p] = r /\ \A q \in Sessions \ {p} : sess'[q] = sess[q]
      BY <1>0, <2>2, PutFrame DEF CreateKbDraft
    <3>2. r.pc = "publish" /\ r.art = sess[p].art /\ r.seen = sess[p].seen
      BY <1>0 DEF Session
    <3>3. SoloOK(sess[p])'
      BY <1>0, <3>1, <3>2 DEF SoloOK
    <3> QED BY <3>1, <3>3, SoloKept
  <2>3. CASE CreateKbDraftFails(p)
    BY <1>2, <2>3 DEF CreateKbDraftFails
  <2>4. CASE CommitPush(p)
    <3>1. [sess[p] EXCEPT !.pc = "refresh"].pc = "refresh"
      BY <1>0 DEF Session
    <3> QED BY <1>1, <1>2, <2>4, <3>1 DEF CommitPush
  <2>5. CASE LinkTickets(p)
    BY <1>2, <2>5 DEF LinkTickets
  <2> QED BY <1>5, <2>1, <2>2, <2>3, <2>4, <2>5 DEF Push
<1>6. ASSUME NEW p \in Sessions, Import(p) PROVE Solo'
  <2>1. CASE ImportFromItsm(p)
    <3>1. [Idle EXCEPT !.pc = "list", !.op = "import", !.todo = Listing].pc = "list"
      BY DEF Idle
    <3> QED BY <1>1, <2>1, <3>1 DEF ImportFromItsm
  <2>2. ASSUME NEW i \in Listed, ReadByKbId(p, i) PROVE Solo'
    <3> DEFINE text == [ver |-> i.ver, form |-> "plain"]
               r == [sess[p] EXCEPT !.pc = "upsert", !.todo = @ \ {i}]
    <3>1. UNCHANGED article /\ sess[p].pc = "list" /\ sess[p].art = NIL
      BY <1>0, <2>2 DEF ReadByKbId, SessOK
    <3>2. ASSUME NEW a \in ArticleIds,
                 Put(p, [r EXCEPT !.art = a, !.seen = article[a],
                                  !.want = [article[a] EXCEPT !.text = text]])
          PROVE  Solo'
      <4> DEFINE n == [r EXCEPT !.art = a, !.seen = article[a],
                                !.want = [article[a] EXCEPT !.text = text]]
      <4>1. sess'[p] = n /\ \A q \in Sessions \ {p} : sess'[q] = sess[q]
        BY <1>0, <3>2, PutFrame
      <4>2. /\ n.pc = "upsert" /\ n.art = a /\ n.seen = article[a]
            /\ n.want.status = article[a].status
        BY <1>0 DEF Session, Article
      <4>3. SoloOK(sess[p])'
        BY <3>1, <4>1, <4>2 DEF SoloOK, Allowed
      <4> QED BY <3>1, <4>1, <4>3, SoloKept
    <3>3. ASSUME Put(p, [r EXCEPT !.want =
                           [status |-> "IMPORTED", text |-> text, kb |-> i.kb]])
          PROVE  Solo'
      <4> DEFINE n == [r EXCEPT !.want =
                         [status |-> "IMPORTED", text |-> text, kb |-> i.kb]]
      <4>1. sess'[p] = n /\ \A q \in Sessions \ {p} : sess'[q] = sess[q]
        BY <1>0, <3>3, PutFrame
      <4>2. n.pc = "upsert" /\ n.art = NIL
        BY <1>0, <3>1 DEF Session
      <4>3. SoloOK(sess[p])'
        BY <4>1, <4>2 DEF SoloOK
      <4> QED BY <3>1, <4>1, <4>3, SoloKept
    <3> QED BY <2>2, <3>2, <3>3 DEF ReadByKbId
  <2>3. CASE UpdateImported(p)
    <3>1. [sess[p] EXCEPT !.pc = "refresh"].pc = "refresh"
      BY <1>0 DEF Session
    <3> QED BY <1>1, <2>3, <3>1 DEF UpdateImported
  <2>4. ASSUME NEW a \in ArticleIds, InsertImported(p, a) PROVE Solo'
    <3>1. [sess[p] EXCEPT !.pc = "refresh", !.art = a].pc = "refresh"
      BY <1>0 DEF Session
    <3> QED BY <1>1, <1>2, <2>4, <3>1 DEF InsertImported
  <2> QED BY <1>6, <2>1, <2>2, <2>3, <2>4 DEF Import
<1>7. ASSUME NEW p \in Sessions, Refresh(p) PROVE Solo'
  <2>1. [sess[p] EXCEPT !.pc = "index", !.text = article[sess[p].art].text].pc = "index"
    BY <1>0 DEF Session
  <2> QED BY <1>1, <1>7, <2>1 DEF Refresh
<1>8. ASSUME NEW p \in Sessions, IndexArticle(p) PROVE Solo'
  <2>1. [sess[p] EXCEPT !.pc = "link"].pc = "link"
    BY <1>0 DEF Session
  <2>2. AfterImport(sess[p]).pc \in {"idle", "list"}
    BY DEF AfterImport, Idle
  <2> QED BY <1>1, <1>8, <2>1, <2>2 DEF IndexArticle
<1>9. ASSUME NEW p \in Sessions, IndexFails(p) PROVE Solo'
  BY <1>2, <1>9 DEF IndexFails
<1>10. CASE Crash
  <2>1. \A q \in Sessions : sess'[q] = Idle
    BY <1>10 DEF Crash
  <2>2. \A q \in Sessions : sess'[q].pc = "idle"
    BY <2>1 DEF Idle
  <2> QED BY <2>2, NothingHeld DEF Solo
<1>11. CASE \/ RelinkKbToTickets \/ UNCHANGED vars
            \/ \E t \in Tickets, a \in ArticleIds, d \in {"COVERED", "DRAFTED"} :
                  RecordTicket(t, a, d)
            \/ \E k \in KbIds, v \in Versions : EditInItsm(k, v)
  <2>1. UNCHANGED <<article, sess>>
    BY <1>11 DEF RelinkKbToTickets, vars, RecordTicket, EditInItsm
  <2> QED BY <2>1 DEF Solo, SoloOK
<1> QED
  BY <1>4, <1>5, <1>6, <1>7, <1>8, <1>9, <1>10, <1>11 DEF Next, Environment

StatusOf == [a \in ArticleIds |-> article[a].status]

\* A row that makes an allowed change takes a step of the abstract life.
LEMMA MoveRefines ==
    ASSUME TypeOK, NEW a \in ArticleIds,
           \A b \in ArticleIds \ {a} : article'[b] = article[b],
           Allowed(article[a].status, article'[a].status)
    PROVE  [Life!Next]_StatusOf
<1> DEFINE to == article'[a].status
           from == article[a].status
<1>1. CASE to = from
  BY <1>1 DEF StatusOf
<1>2. CASE to # from
  <2>1. StatusOf' = [StatusOf EXCEPT ![a] = to] /\ StatusOf[a] = from
    BY DEF StatusOf
  <2>2. \/ Life!Edit(a) \/ Life!Approve(a) \/ Life!Publish(a)
        \/ Life!Reject(a) \/ Life!Import(a)
    BY <1>2, <2>1 DEF Allowed, Pushable, StatusOf, Life!Move, Life!Edit,
       Life!Approve, Life!Publish, Life!Reject, Life!Import
  <2> QED BY <2>2 DEF Life!Next
<1> QED
  BY <1>1, <1>2

\* The empty table of articles is the initial state of ArticleLifecycle.
LEMMA LifeInit == Init => Life!Init
BY DraftAssumption DEF Init, Life!Init, NoArticle

\* Only the four commits write rows.
LEMMA LifeStep ==
    ASSUME MaxConcurrent = 1, IInv, Solo, [Next]_vars
    PROVE  [Life!Next]_StatusOf
<1>0. /\ TypeOK
      /\ \A p \in Sessions : SessOK(sess[p]) /\ SoloOK(sess[p])
  BY DEF IInv, Solo
<1>1. CASE UNCHANGED article
  BY <1>1 DEF StatusOf
<1>2. ASSUME NEW p \in Sessions, CommitReview(p) \/ UpdateImported(p)
      PROVE  [Life!Next]_StatusOf
  <2>. PICK a \in ArticleIds : a = sess[p].art
    BY <1>0, <1>2 DEF CommitReview, UpdateImported, SessOK
  <2>1. /\ sess[p].seen = article[a]
        /\ Allowed(article[a].status, sess[p].want.status)
    BY <1>0, <1>2 DEF CommitReview, UpdateImported, SoloOK
  <2>2. article' = [article EXCEPT ![a] = Merged(@, article[a], sess[p].want)]
    BY <1>2, <2>1 DEF CommitReview, UpdateImported
  <2>3. /\ article'[a].status = sess[p].want.status
        /\ \A b \in ArticleIds \ {a} : article'[b] = article[b]
    BY <1>0, <2>2 DEF TypeOK, Merged
  <2> QED BY <1>0, <2>1, <2>3, MoveRefines
<1>3. ASSUME NEW p \in Sessions, CommitPush(p) PROVE [Life!Next]_StatusOf
  <2>. PICK a \in ArticleIds : a = sess[p].art
    BY <1>0, <1>3 DEF CommitPush, SessOK
  <2>1. /\ sess[p].seen = article[a] /\ article[a].status \in Pushable
        /\ sess[p].want.status = "PUSHED"
    BY <1>0, <1>3 DEF CommitPush, SessOK, SoloOK
  <2>2. CASE article' = [article EXCEPT ![a] = Merged(@, article[a], sess[p].want)]
    <3>1. /\ article'[a].status = "PUSHED"
          /\ \A b \in ArticleIds \ {a} : article'[b] = article[b]
      BY <1>0, <2>1, <2>2 DEF TypeOK, Merged
    <3> QED BY <1>0, <2>1, <3>1, MoveRefines DEF Allowed
  <2> QED BY <1>1, <1>3, <2>1, <2>2 DEF CommitPush
<1>4. ASSUME NEW p \in Sessions, NEW a \in ArticleIds, InsertImported(p, a)
      PROVE  [Life!Next]_StatusOf
  <2>1. CASE article' = [article EXCEPT ![a] = sess[p].want] /\ article[a].status = "NONE"
    <3>1. sess[p].want.status = "IMPORTED"
      BY <1>0, <1>4 DEF InsertImported, SessOK
    <3>2. /\ article'[a].status = "IMPORTED"
          /\ \A b \in ArticleIds \ {a} : article'[b] = article[b]
      BY <1>0, <2>1, <3>1 DEF TypeOK
    <3> QED BY <1>0, <2>1, <3>2, MoveRefines DEF Allowed
  <2> QED BY <1>1, <1>4, <2>1 DEF InsertImported
<1>5. ASSUME NEW p \in Sessions,
             \/ Refresh(p) \/ IndexArticle(p) \/ IndexFails(p)
             \/ CreateKbDraftFails(p) \/ LinkTickets(p) \/ ImportFromItsm(p)
             \/ \E k \in KbIds : CreateKbDraft(p, k)
             \/ \E i \in Listed : ReadByKbId(p, i)
             \/ \E a \in ArticleIds : PushDraft(p, a) \/ ApproveDraft(p, a)
                                     \/ RejectDraft(p, a)
             \/ \E a \in ArticleIds, v \in Versions : UpdateDraft(p, a, v)
      PROVE  UNCHANGED article
  BY <1>5 DEF Refresh, IndexArticle, IndexFails, CreateKbDraftFails, LinkTickets,
     ImportFromItsm, CreateKbDraft, ReadByKbId, PushDraft, ApproveDraft,
     RejectDraft, UpdateDraft, Request
<1>6. RelinkKbToTickets \/ Environment \/ UNCHANGED vars => UNCHANGED article
  BY DEF RelinkKbToTickets, Environment, Crash, RecordTicket, EditInItsm, vars
<1> QED
  BY <1>1, <1>2, <1>3, <1>4, <1>5, <1>6 DEF Next, Review, Push, Import

-----------------------------------------------------------------------------
(* Theorems *)

\* Whatever the requests, failures and crashes, the tables keep their types.
THEOREM ReviewTypeCorrect == Spec => []TypeOK
<1>1. IInv => TypeOK
  BY DEF IInv
<1> QED BY <1>1, Invariance, PTL

\* An article kbgen shows as published names an item the ITSM has, and a pushed
\* one its push log entry, for any number of concurrent requests and failures:
\* no interleaving of the commits publishes without an item.
THEOREM PublishedExist == Spec => []PublishedHaveItems
<1>1. IInv => PublishedHaveItems
  BY DEF IInv, TablesOK
<1> QED BY <1>1, Invariance, PTL

\* One request at a time, the workflow keeps what ArticleLifecycle promises: a
\* draft is published or rejected once and for good, whatever fails, crashes or
\* is imported in between.
THEOREM LifeImplemented == MaxConcurrent = 1 => (Spec => LifeSpec)
<1> SUFFICES ASSUME MaxConcurrent = 1 PROVE Spec => LifeSpec
  OBVIOUS
<1>1. Init => IInv /\ Solo /\ Life!Init
  BY InvInit, SoloInit, LifeInit
<1>2. IInv /\ Solo /\ [Next]_vars => IInv' /\ Solo' /\ [Life!Next]_StatusOf
  BY InvStep, SoloStep, LifeStep
<1> QED
  BY <1>1, <1>2, PTL DEF Spec, LifeSpec, Life!Spec, StatusOf

\* One request at a time, PUSHED and REJECTED are final, as the review panel
\* says; with two requests at once they are not.
THEOREM FinalWhenAlone == MaxConcurrent = 1 => (Spec => FinalStatus)
<1> DEFINE Final == \A a \in ArticleIds :
                       article[a].status \in {"PUSHED", "REJECTED"}
                          => article'[a].status = article[a].status
<1> SUFFICES ASSUME MaxConcurrent = 1 PROVE Spec => FinalStatus
  OBVIOUS
<1>1. Init => IInv /\ Solo
  BY InvInit, SoloInit
<1>2. ASSUME IInv, Solo, [Next]_vars PROVE IInv' /\ Solo' /\ Final
  <2>1. [Life!Next]_StatusOf
    BY <1>2, LifeStep
  <2>2. \A a \in ArticleIds : StatusOf[a] = article[a].status
                             /\ StatusOf'[a] = article'[a].status
    BY DEF StatusOf
  <2>3. ASSUME NEW a \in ArticleIds, StatusOf[a] \in {"PUSHED", "REJECTED"}
        PROVE  StatusOf'[a] = StatusOf[a]
    BY <2>1, <2>3 DEF Life!Next, Life!Move, Life!Edit, Life!Approve, Life!Publish,
       Life!Reject, Life!Import, StatusOf
  <2> QED BY <1>2, <2>2, <2>3, InvStep, SoloStep
<1> QED
  BY <1>1, <1>2, PTL DEF Spec, FinalStatus

-----------------------------------------------------------------------------
(* What kbgen knows of the items its pushes created.  Only the pipeline's    *)
(* drafts are ever pushed, so that an imported row keeps the item it was     *)
(* inserted for, and the item of a draft is in the log.                      *)

Traced(k) == \E a \in ArticleIds : <<a, k>> \in log \/ article[a].kb = k
Publishing(k) == \E p \in Sessions : sess[p].pc = "publish" /\ sess[p].want.kb = k

TraceHeld(s) ==
    /\ s.pc \in {"create", "publish"} => s.art \in Drafts
    /\ s.pc = "commit" \/ (s.pc = "upsert" /\ s.art # NIL) =>
          /\ s.want.status # "NONE"
          /\ s.art \notin Drafts => s.want.status \in {"IMPORTED", "REJECTED"}

RowTraced(a) ==
    /\ a \in Drafts => /\ article[a].status # "NONE"
                       /\ article[a].kb # NIL => <<a, article[a].kb>> \in log
    /\ a \notin Drafts => article[a].status \in {"NONE", "IMPORTED", "REJECTED"}
    /\ article[a].status = "NONE" => article[a].kb = NIL

TraceInv ==
    /\ \A a \in ArticleIds : RowTraced(a)
    /\ \A p \in Sessions : TraceHeld(sess[p])
    /\ PushesLeaveTraces

\* What a step must respect: what is traced stays so, and without a fault a
\* push ends with its item traced.
LEMMA TracesKept ==
    ASSUME PushesLeaveTraces, faults' = 0 => faults = 0,
           \A k \in KbIds : Traced(k) => Traced(k)',
           faults' = 0 =>
              \A k \in KbIds :
                 /\ items'[k].by # NIL => items[k].by # NIL \/ Publishing(k)'
                 /\ Publishing(k) => Publishing(k)' \/ Traced(k)'
    PROVE  PushesLeaveTraces'
BY DEF PushesLeaveTraces, Traced, Publishing

\* A step that writes no row, of a session that publishes nothing or fails.
LEMMA TraceSession ==
    ASSUME IInv, TraceInv, NEW p \in Sessions,
           \A q \in Sessions \ {p} : sess'[q] = sess[q],
           UNCHANGED article, log \subseteq log',
           faults' \in {faults, faults + 1},
           faults' = faults => /\ sess[p].pc # "publish"
                               /\ \A k \in KbIds : items'[k].by = items[k].by,
           TraceHeld(sess[p])'
    PROVE  TraceInv'
<1>1. /\ \A a \in ArticleIds : RowTraced(a)'
      /\ \A k \in KbIds : Traced(k) => Traced(k)'
  BY DEF TraceInv, RowTraced, Traced
<1>2. \A q \in Sessions : TraceHeld(sess[q])'
  BY DEF TraceInv, TraceHeld
<1>3. /\ faults' = 0 => faults' = faults
      /\ faults' = 0 => faults = 0
  BY DEF IInv, TypeOK
<1>4. ASSUME faults' = faults, NEW k \in KbIds, Publishing(k) PROVE Publishing(k)'
  BY <1>4 DEF Publishing
<1>5. PushesLeaveTraces'
  BY <1>1, <1>3, <1>4, TracesKept DEF TraceInv
<1> QED
  BY <1>1, <1>2, <1>5 DEF TraceInv

\* A commit to one row: a draft keeps its item or logs the new one, and another
\* row keeps its item.
LEMMA TraceRow ==
    ASSUME IInv, TraceInv, NEW p \in Sessions,
           \A q \in Sessions \ {p} : sess'[q] = sess[q],
           UNCHANGED <<items, faults>>, log \subseteq log', NEW a \in ArticleIds,
           \A b \in ArticleIds \ {a} : article'[b] = article[b],
           RowTraced(a)',
           article'[a].kb = article[a].kb \/ article[a].status = "NONE" \/ a \in Drafts,
           sess[p].pc = "publish" => <<a, sess[p].want.kb>> \in log',
           TraceHeld(sess[p])'
    PROVE  TraceInv'
<1>1. \A b \in ArticleIds : RowTraced(b)'
  BY DEF TraceInv, RowTraced
<1>2. \A q \in Sessions : TraceHeld(sess[q])'
  BY DEF TraceInv, TraceHeld
<1>3. ASSUME NEW k \in KbIds, Traced(k) PROVE Traced(k)'
  <2>1. PICK b \in ArticleIds : <<b, k>> \in log \/ article[b].kb = k
    BY <1>3 DEF Traced
  <2>2. <<b, k>> \in log' \/ article'[b].kb = k
    BY <2>1, NilAssumption DEF TraceInv, RowTraced
  <2> QED BY <2>2 DEF Traced
<1>4. ASSUME NEW k \in KbIds, Publishing(k) PROVE Publishing(k)' \/ Traced(k)'
  BY <1>4 DEF Publishing, Traced
<1>5. PushesLeaveTraces'
  BY <1>3, <1>4, TracesKept DEF TraceInv
<1> QED
  BY <1>1, <1>2, <1>5 DEF TraceInv

\* The pipeline has drafted its articles, and no push has created an item.
LEMMA TraceInit == Init => TraceInv
BY DEF Init, TraceInv, RowTraced, TraceHeld, PushesLeaveTraces, Idle, NoArticle, NoItem

\* One case per action.
LEMMA TraceStep == IInv /\ TraceInv /\ [Next]_vars => TraceInv'
<1> SUFFICES ASSUME IInv, TraceInv, [Next]_vars PROVE TraceInv'
  OBVIOUS
<1>0. /\ TypeOK /\ faults \in Nat
      /\ \A p \in Sessions : /\ sess[p] \in Session /\ SessOK(sess[p])
                             /\ TraceHeld(sess[p])
      /\ \A a \in ArticleIds : article[a] \in Article /\ RowTraced(a)
      /\ Idle.pc = "idle"
  BY DEF IInv, TypeOK, TraceInv, Idle
<1>1. ASSUME NEW p \in Sessions, NEW n, Put(p, n), UNCHANGED article,
             log \subseteq log', faults' \in {faults, faults + 1},
             faults' = faults => /\ sess[p].pc # "publish"
                                 /\ \A k \in KbIds : items'[k].by = items[k].by,
             TraceHeld(n)
      PROVE  TraceInv'
  <2>1. sess'[p] = n /\ \A q \in Sessions \ {p} : sess'[q] = sess[q]
    BY <1>0, <1>1, PutFrame
  <2>2. TraceHeld(sess[p])'
    BY <1>1, <2>1 DEF TraceHeld
  <2> QED BY <1>1, <2>1, <2>2, TraceSession
<1>2. TraceHeld(Idle)
  BY <1>0 DEF TraceHeld
<1>3. ASSUME NEW p \in Sessions, NEW a \in ArticleIds, NEW op, NEW w,
             Request(p, op, a, w), w.status # "NONE",
             a \notin Drafts => w.status \in {"IMPORTED", "REJECTED"}
      PROVE  TraceInv'
  <2> DEFINE n == [Idle EXCEPT !.pc = "commit", !.op = op, !.art = a,
                               !.seen = article[a], !.want = w]
  <2>1. n.pc = "commit" /\ n.art = a /\ n.want = w
    BY DEF Idle
  <2>2. TraceHeld(n)
    BY <1>3, <2>1 DEF TraceHeld
  <2> QED BY <1>1, <1>3, <2>2 DEF Request, MayStart
<1>4. ASSUME NEW p \in Sessions, NEW a \in ArticleIds,
             \/ \E v \in Versions : UpdateDraft(p, a, v)
             \/ ApproveDraft(p, a) \/ RejectDraft(p, a)
      PROVE  TraceInv'
  <2>1. article[a].status # "NONE"
    BY <1>4 DEF UpdateDraft, ApproveDraft, RejectDraft, Request
  <2>2. ASSUME NEW v \in Versions, UpdateDraft(p, a, v) PROVE TraceInv'
    <3> DEFINE w == [article[a] EXCEPT !.text = [ver |-> v, form |-> "md"],
                                       !.status = IF @ = "DRAFT" THEN "EDITED" ELSE @]
    <3>1. /\ w.status = IF article[a].status = "DRAFT" THEN "EDITED" ELSE article[a].status
          /\ article[a].status # "REJECTED" /\ Request(p, "edit", a, w)
      BY <1>0, <2>2 DEF UpdateDraft, Article
    <3>2. a \notin Drafts => w.status \in {"IMPORTED", "REJECTED"}
      BY <1>0, <2>1, <3>1 DEF RowTraced
    <3>3. w.status # "NONE"
      BY <2>1, <3>1
    <3> HIDE DEF w
    <3> QED BY <1>3, <3>1, <3>2, <3>3
  <2>3. CASE ApproveDraft(p, a)
    <3>1. a \in Drafts /\ Request(p, "approve", a, [article[a] EXCEPT !.status = "APPROVED"])
      BY <1>0, <2>3 DEF ApproveDraft, RowTraced
    <3> QED BY <1>0, <1>3, <3>1 DEF Article
  <2>4. CASE RejectDraft(p, a)
    BY <1>0, <1>3, <2>4 DEF RejectDraft, Article
  <2> QED BY <1>4, <2>2, <2>3, <2>4
\* A review or an import writes over a row and leaves its item alone.
<1>5. ASSUME NEW p \in Sessions, CommitReview(p) \/ UpdateImported(p) PROVE TraceInv'
  <2>. PICK a \in ArticleIds : a = sess[p].art
    BY <1>0, <1>5 DEF CommitReview, UpdateImported, SessOK
  <2> DEFINE n == IF CommitReview(p) THEN Idle ELSE [sess[p] EXCEPT !.pc = "refresh"]
  <2>1. /\ KeepsItem(sess[p]) /\ sess[p].pc # "publish" /\ sess[p].want.status # "NONE"
        /\ a \notin Drafts => sess[p].want.status \in {"IMPORTED", "REJECTED"}
    BY <1>0, <1>5 DEF CommitReview, UpdateImported, SessOK, TraceHeld
  <2>2. /\ article' = [article EXCEPT ![a] = Merged(@, sess[p].seen, sess[p].want)]
        /\ UNCHANGED <<items, faults, log>>
        /\ Put(p, Idle) \/ Put(p, [sess[p] EXCEPT !.pc = "refresh"])
    BY <1>5 DEF CommitReview, UpdateImported
  <2>3. /\ \A q \in Sessions \ {p} : sess'[q] = sess[q]
        /\ sess'[p].pc \in {"idle", "refresh"}
    BY <1>0, <2>2, PutFrame DEF Session
  <2>4. TraceHeld(sess[p])'
    BY <2>3 DEF TraceHeld
  <2>5. /\ article'[a].kb = article[a].kb
        /\ article'[a].status \in {article[a].status, sess[p].want.status}
        /\ \A b \in ArticleIds \ {a} : article'[b] = article[b]
    BY <1>0, <2>1, <2>2 DEF TypeOK, Merged, KeepsItem
  <2>6. RowTraced(a)'
    BY <1>0, <2>1, <2>2, <2>5 DEF RowTraced
  <2> QED BY <2>1, <2>2, <2>3, <2>4, <2>5, <2>6, TraceRow
<1>6. ASSUME NEW p \in Sessions, NEW a \in ArticleIds, PushDraft(p, a) PROVE TraceInv'
  <2> DEFINE n == [Idle EXCEPT !.pc = "create", !.op = "push", !.art = a,
                               !.seen = article[a], !.want = article[a]]
  <2>1. n.pc = "create" /\ n.art = a
    BY DEF Idle
  <2>2. a \in Drafts
    BY <1>0, <1>6 DEF PushDraft, Pushable, RowTraced
  <2>3. TraceHeld(n)
    BY <2>1, <2>2 DEF TraceHeld
  <2> QED BY <1>1, <1>6, <2>3 DEF PushDraft, MayStart
<1>7. ASSUME NEW p \in Sessions, NEW k \in KbIds, CreateKbDraft(p, k) PROVE TraceInv'
  <2> DEFINE n == [sess[p] EXCEPT !.pc = "publish", !.want.kb = k,
                                  !.want.status = "PUSHED"]
  <2>1. /\ sess'[p] = n /\ \A q \in Sessions \ {p} : sess'[q] = sess[q]
        /\ sess[p].pc = "create" /\ UNCHANGED <<article, log, faults>>
    BY <1>0, <1>7, PutFrame DEF CreateKbDraft
  <2>2. n.pc = "publish" /\ n.art = sess[p].art /\ n.want.kb = k
    BY <1>0 DEF Session, Article
  <2>3. \A q \in Sessions : TraceHeld(sess[q])'
    <3>1. TraceHeld(n)
      BY <1>0, <2>1, <2>2 DEF TraceHeld
    <3>2. TraceHeld(sess[p])'
      BY <2>1, <3>1 DEF TraceHeld
    <3>3. ASSUME NEW q \in Sessions \ {p} PROVE TraceHeld(sess[q])'
      BY <1>0, <2>1 DEF TraceHeld
    <3> QED BY <3>2, <3>3
  <2>4. /\ \A a \in ArticleIds : RowTraced(a)'
        /\ \A j \in KbIds : Traced(j) => Traced(j)'
    BY <1>0, <2>1 DEF RowTraced, Traced
  <2>5. \A j \in KbIds \ {k} : items'[j].by = items[j].by
    BY <1>0, <1>7 DEF CreateKbDraft, Created, TypeOK
  <2>6. Publishing(k)' /\ \A j \in KbIds : Publishing(j) => Publishing(j)'
    BY <2>1, <2>2 DEF Publishing
  <2>7. PushesLeaveTraces'
    BY <2>1, <2>4, <2>5, <2>6, TracesKept DEF TraceInv
  <2> QED BY <2>3, <2>4, <2>7 DEF TraceInv
<1>8. ASSUME NEW p \in Sessions, CreateKbDraftFails(p) PROVE TraceInv'
  <2>1. /\ faults' \in {faults, faults + 1} /\ sess[p].pc = "create"
        /\ faults' = faults => UNCHANGED items
    BY <1>0, <1>8 DEF CreateKbDraftFails, Fault
  <2> QED BY <1>1, <1>2, <1>8, <2>1 DEF CreateKbDraftFails
\* A push whose item an import has taken fails, and the imported row has it.
<1>9. ASSUME NEW p \in Sessions, CommitPush(p) PROVE TraceInv'
  <2>. PICK a \in ArticleIds : a = sess[p].art
    BY <1>0, <1>9 DEF CommitPush, SessOK
  <2>1. /\ sess[p].pc = "publish" /\ a \in Drafts /\ UNCHANGED <<items, faults>>
        /\ sess[p].want.status = "PUSHED" /\ sess[p].seen.status # "PUSHED"
        /\ sess[p].want.kb \notin {NIL, sess[p].seen.kb}
    BY <1>0, <1>9 DEF CommitPush, SessOK, TraceHeld
  <2>2. CASE KbFree(a, sess[p].want.kb)
    <3>1. /\ article' = [article EXCEPT ![a] = Merged(@, sess[p].seen, sess[p].want)]
          /\ log' = log \cup {<<a, sess[p].want.kb>>}
          /\ Put(p, [sess[p] EXCEPT !.pc = "refresh"])
      BY <1>9, <2>2 DEF CommitPush
    <3>2. /\ \A q \in Sessions \ {p} : sess'[q] = sess[q]
          /\ sess'[p].pc = "refresh"
      BY <1>0, <3>1, PutFrame DEF Session
    <3>3. /\ article'[a].kb = sess[p].want.kb /\ article'[a].status = "PUSHED"
          /\ \A b \in ArticleIds \ {a} : article'[b] = article[b]
      BY <1>0, <2>1, <3>1 DEF TypeOK, Merged
    <3>4. RowTraced(a)' /\ TraceHeld(sess[p])'
      BY <2>1, <3>1, <3>2, <3>3 DEF RowTraced, TraceHeld
    <3> QED BY <2>1, <3>1, <3>2, <3>3, <3>4, TraceRow
  <2>3. CASE ~KbFree(a, sess[p].want.kb)
    <3>1. UNCHANGED <<article, log>> /\ Put(p, Idle)
      BY <1>9, <2>3 DEF CommitPush
    <3>2. sess'[p] = Idle /\ \A q \in Sessions \ {p} : sess'[q] = sess[q]
      BY <1>0, <3>1, PutFrame
    <3>3. \A q \in Sessions : TraceHeld(sess[q])'
      BY <1>0, <1>2, <3>2 DEF TraceHeld
    <3>4. /\ \A b \in ArticleIds : RowTraced(b)'
          /\ \A j \in KbIds : Traced(j) => Traced(j)'
      BY <1>0, <3>1 DEF RowTraced, Traced
    <3>5. ASSUME NEW j \in KbIds, Publishing(j) PROVE Publishing(j)' \/ Traced(j)'
      <4>1. PICK q \in Sessions : sess[q].pc = "publish" /\ sess[q].want.kb = j
        BY <3>5 DEF Publishing
      <4>2. CASE q = p
        BY <2>3, <3>1, <4>1, <4>2 DEF KbFree, Traced
      <4>3. CASE q # p
        BY <3>2, <4>1, <4>3 DEF Publishing
      <4> QED BY <4>2, <4>3
    <3>6. PushesLeaveTraces'
      BY <2>1, <3>4, <3>5, TracesKept DEF TraceInv
    <3> QED BY <3>3, <3>4, <3>6 DEF TraceInv
  <2> QED BY <2>2, <2>3
<1>10. ASSUME NEW p \in Sessions, LinkTickets(p) PROVE TraceInv'
  <2>1. faults' \in {faults, faults + 1}
    BY <1>10 DEF LinkTickets, Link, Fault
  <2> QED BY <1>1, <1>2, <1>10, <2>1 DEF LinkTickets
<1>11. ASSUME NEW p \in Sessions, ImportFromItsm(p) PROVE TraceInv'
  <2>1. TraceHeld([Idle EXCEPT !.pc = "list", !.op = "import", !.todo = Listing])
    BY DEF TraceHeld, Idle
  <2> QED BY <1>1, <1>11, <2>1 DEF ImportFromItsm, MayStart
<1>12. ASSUME NEW p \in Sessions, NEW i \in Listed, ReadByKbId(p, i) PROVE TraceInv'
  <2> DEFINE text == [ver |-> i.ver, form |-> "plain"]
             s == [sess[p] EXCEPT !.pc = "upsert", !.todo = @ \ {i}]
  <2>1. /\ sess[p].pc = "list" /\ sess[p].art = NIL
        /\ UNCHANGED <<article, log, items, faults>> /\ i.kb # NIL
    BY <1>0, <1>12 DEF ReadByKbId, SessOK, Listed
  <2>2. ASSUME NEW a \in ArticleIds, article[a].kb = i.kb
        PROVE  TraceHeld([s EXCEPT !.art = a, !.seen = article[a],
                                   !.want = [article[a] EXCEPT !.text = text]])
    <3> DEFINE n == [s EXCEPT !.art = a, !.seen = article[a],
                              !.want = [article[a] EXCEPT !.text = text]]
    <3>1. n.pc = "upsert" /\ n.art = a /\ n.want.status = article[a].status
      BY <1>0 DEF Session, Article
    <3> QED BY <1>0, <2>1, <2>2, <3>1 DEF TraceHeld, RowTraced
  <2>3. TraceHeld([s EXCEPT !.want =
                     [status |-> "IMPORTED", text |-> text, kb |-> i.kb]])
    <3> DEFINE n == [s EXCEPT !.want =
                       [status |-> "IMPORTED", text |-> text, kb |-> i.kb]]
    <3>1. n.pc = "upsert" /\ n.art = NIL
      BY <1>0, <2>1 DEF Session
    <3> QED BY <3>1 DEF TraceHeld
  <2> QED BY <1>1, <1>12, <2>1, <2>2, <2>3 DEF ReadByKbId
<1>13. ASSUME NEW p \in Sessions, NEW a \in ArticleIds, InsertImported(p, a)
       PROVE  TraceInv'
  <2>1. /\ sess[p].pc = "upsert" /\ UNCHANGED <<items, faults, log>>
        /\ sess[p].want.status = "IMPORTED"
    BY <1>0, <1>13 DEF InsertImported, SessOK
  <2>2. CASE Put(p, Idle) /\ UNCHANGED article
    BY <1>1, <1>2, <2>1, <2>2
  <2>3. CASE /\ article[a].status = "NONE"
             /\ article' = [article EXCEPT ![a] = sess[p].want]
             /\ Put(p, [sess[p] EXCEPT !.pc = "refresh", !.art = a])
    <3> DEFINE n == [sess[p] EXCEPT !.pc = "refresh", !.art = a]
    <3>0. n.pc = "refresh"
      BY <1>0 DEF Session
    <3>1. /\ \A q \in Sessions \ {p} : sess'[q] = sess[q]
          /\ sess'[p].pc = "refresh"
      BY <1>0, <2>3, <3>0, PutFrame
    <3>2. /\ article'[a] = sess[p].want /\ a \notin Drafts
          /\ \A b \in ArticleIds \ {a} : article'[b] = article[b]
      BY <1>0, <2>3 DEF TypeOK, RowTraced
    <3>3. RowTraced(a)' /\ TraceHeld(sess[p])'
      BY <2>1, <3>1, <3>2 DEF RowTraced, TraceHeld
    <3> QED BY <2>1, <2>3, <3>1, <3>2, <3>3, TraceRow
  <2> QED BY <1>13, <2>2, <2>3 DEF InsertImported
<1>14. ASSUME NEW p \in Sessions, Refresh(p) \/ IndexArticle(p) \/ IndexFails(p)
       PROVE  TraceInv'
  <2>1. ASSUME NEW n, n.pc \in {"idle", "index", "link", "list"} PROVE TraceHeld(n)
    BY <2>1 DEF TraceHeld
  <2>2. /\ UNCHANGED <<article, log, items>> /\ sess[p].pc # "publish"
        /\ faults' \in {faults, faults + 1}
    BY <1>14 DEF Refresh, IndexArticle, IndexFails, Fault
  <2>3. ASSUME NEW n, Put(p, n), n.pc \in {"idle", "index", "link", "list"}
        PROVE  TraceInv'
    BY <1>1, <2>1, <2>2, <2>3
  <2>4. CASE Refresh(p)
    <3>1. [sess[p] EXCEPT !.pc = "index", !.text = article[sess[p].art].text].pc = "index"
      BY <1>0 DEF Session
    <3> QED BY <2>3, <2>4, <3>1 DEF Refresh
  <2>5. CASE IndexArticle(p)
    <3>1. /\ [sess[p] EXCEPT !.pc = "link"].pc = "link"
          /\ AfterImport(sess[p]).pc \in {"idle", "list"}
      BY <1>0 DEF Session, AfterImport, Idle
    <3> QED BY <2>3, <2>5, <3>1 DEF IndexArticle
  <2>6. CASE IndexFails(p)
    BY <1>0, <2>3, <2>6 DEF IndexFails
  <2> QED BY <1>14, <2>4, <2>5, <2>6
<1>15. CASE Crash
  <2>1. /\ \A q \in Sessions : sess'[q] = Idle
        /\ UNCHANGED <<article, log>> /\ faults' # 0
    BY <1>0, <1>15 DEF Crash, Fault
  <2> QED BY <1>0, <1>2, <2>1 DEF TraceInv, RowTraced, TraceHeld, PushesLeaveTraces
<1>16. CASE \/ RelinkKbToTickets \/ UNCHANGED vars
            \/ \E t \in Tickets, a \in ArticleIds, d \in {"COVERED", "DRAFTED"} :
                  RecordTicket(t, a, d)
            \/ \E k \in KbIds, v \in Versions : EditInItsm(k, v)
  <2>1. /\ UNCHANGED <<article, log, sess>> /\ faults' \in {faults, faults + 1}
        /\ \A k \in KbIds : items'[k].by = items[k].by
    <3>1. ASSUME NEW k \in KbIds, NEW v \in Versions, EditInItsm(k, v)
          PROVE  \A j \in KbIds : items'[j].by = items[j].by
      BY <1>0, <3>1 DEF EditInItsm, TypeOK, Item
    <3>2. /\ UNCHANGED <<article, log, sess>> /\ faults' \in {faults, faults + 1}
          /\ \/ UNCHANGED items
             \/ \E k \in KbIds, v \in Versions : EditInItsm(k, v)
      BY <1>16 DEF RelinkKbToTickets, Link, Fault, vars, RecordTicket, EditInItsm
    <3> QED BY <3>1, <3>2
  <2>2. /\ \A a \in ArticleIds : RowTraced(a)'
        /\ \A p \in Sessions : TraceHeld(sess[p])'
        /\ \A k \in KbIds : (Traced(k) => Traced(k)') /\ (Publishing(k) => Publishing(k)')
    BY <1>0, <2>1 DEF RowTraced, TraceHeld, Traced, Publishing
  <2>3. PushesLeaveTraces'
    BY <1>0, <2>1, <2>2, TracesKept DEF TraceInv
  <2> QED BY <2>2, <2>3 DEF TraceInv
<1> QED
  BY <1>4, <1>5, <1>6, <1>7, <1>8, <1>9, <1>10, <1>11, <1>12, <1>13, <1>14, <1>15,
     <1>16 DEF Next, Review, Push, Import, Environment

\* For any number of requests at once, and as long as no call fails and nothing
\* crashes: an item a push created is in kbgen's log or named by a row, though
\* an import or another push came before its commit.
THEOREM PushesTraced == Spec => []PushesLeaveTraces
<1>1. Init => IInv /\ TraceInv
  BY InvInit, TraceInit
<1>2. IInv /\ TraceInv /\ [Next]_vars => IInv' /\ TraceInv'
  BY InvStep, TraceStep
<1>3. TraceInv => PushesLeaveTraces
  BY DEF TraceInv
<1> QED
  BY <1>1, <1>2, <1>3, PTL DEF Spec

-----------------------------------------------------------------------------
(* One request at a time: what is published, and what failures leave behind. *)
(* The counts compare sets that shrink and grow as requests take an article  *)
(* in hand; Strays and Stale are what they are once every request is over.   *)

\* What the only request may rely on besides SoloOK: the text it publishes or
\* indexes is the row's, and its import listed wordings the items have had.
HeldOK(s) ==
    /\ s.pc = "commit" => s.seen.status # "PUSHED"
    /\ s.pc \in {"create", "publish"} => s.op = "push" /\ s.want.text = s.seen.text
    /\ s.pc = "publish" =>
          /\ items[s.want.kb].by = s.art
          /\ s.want.text.ver \in items[s.want.kb].had
          /\ \A b \in ArticleIds : article[b].kb # s.want.kb
    /\ s.pc = "index" => s.text = article[s.art].text
    /\ s.pc # "idle" => \A i \in s.todo : i.ver \in items[i.kb].had
    /\ s.pc = "upsert" /\ s.art # NIL =>
          /\ s.want.status = s.seen.status
          /\ s.want.kb # NIL
          /\ s.want.text.ver \in items[s.want.kb].had

\* A row that may still be pushed names no item, and the text of a pushed one
\* is a wording of its item.
RowsOK ==
    /\ \A k \in KbIds : items[k].made => items[k].ver \in items[k].had
    /\ \A a \in ArticleIds :
          article[a].status \in Pushable \cup {"NONE"} => article[a].kb = NIL
    /\ PushedTextPublished

Strays ==
    {k \in KbIds : /\ items[k].by # NIL /\ article[items[k].by].kb # k
                   /\ ~Publishing(k)}

Reindexing(a) ==
    \E p \in Sessions : sess[p].pc \in {"refresh", "index"} /\ sess[p].art = a
Stale ==
    {a \in ArticleIds : /\ article[a].status = "PUSHED"
                        /\ chunks[a] # article[a].text
                        /\ ~Reindexing(a)}

\* A set that failures fill, one element each.
Paid(S) == IsFiniteSet(S) /\ Cardinality(S) <= faults

SerialTables == RowsOK /\ Paid(Strays) /\ Paid(Stale) /\ Paid(Unlinked)
SerialInv ==
    /\ Solo
    /\ SerialTables
    /\ \A p \in Sessions : HeldOK(sess[p])

\* Only one session acts in a step: the others are idle, before and after it.
ActsAlone(p) ==
    \A q \in Sessions \ {p} : sess[q].pc = "idle" /\ sess'[q] = sess[q]

\* The session a step replaces the record of acts alone.
LEMMA PutAlone ==
    ASSUME MaxConcurrent = 1, TypeOK, Solo, NEW p \in Sessions, NEW s,
           MayStart(p) \/ sess[p].pc # "idle", Put(p, s)
    PROVE  sess'[p] = s /\ ActsAlone(p)
<1>1. ASSUME NEW q \in Sessions \ {p} PROVE sess[q].pc = "idle"
  BY StartsAlone DEF Solo
<1> QED
  BY <1>1 DEF TypeOK, Put, ActsAlone

\* While the others are idle, only the acting session's record is in question.
LEMMA AloneHeld ==
    ASSUME NEW p \in Sessions, ActsAlone(p), HeldOK(sess[p])'
    PROVE  \A q \in Sessions : HeldOK(sess[q])'
<1>1. ASSUME NEW q \in Sessions \ {p} PROVE HeldOK(sess[q])'
  BY DEF ActsAlone, HeldOK
<1> QED
  BY <1>1

\* A paid set may gain one element with a fault, and lose any.
LEMMA PaidFor ==
    ASSUME NEW S, NEW T, NEW d, Paid(S), faults \in Nat, faults' \in Nat,
           \/ T \subseteq S /\ faults' >= faults
           \/ T \subseteq S \cup {d} /\ faults' = faults + 1
    PROVE  IsFiniteSet(T) /\ Cardinality(T) <= faults'
<1>1. /\ IsFiniteSet(S \cup {d}) /\ Cardinality(S \cup {d}) \in Nat
      /\ Cardinality(S) \in Nat /\ Cardinality(S \cup {d}) <= Cardinality(S) + 1
  BY FS_AddElement, FS_CardinalityType DEF Paid
<1>2. CASE T \subseteq S /\ faults' >= faults
  <2>1. IsFiniteSet(T) /\ Cardinality(T) <= Cardinality(S)
    BY <1>2, FS_Subset DEF Paid
  <2> QED BY <1>1, <1>2, <2>1, FS_CardinalityType DEF Paid
<1>3. CASE T \subseteq S \cup {d} /\ faults' = faults + 1
  <2>1. IsFiniteSet(T) /\ Cardinality(T) <= Cardinality(S \cup {d})
    BY <1>1, <1>3, FS_Subset
  <2> QED BY <1>1, <1>3, <2>1, FS_CardinalityType DEF Paid
<1> QED
  BY <1>2, <1>3

\* The three sets grow by one element at most, and only with a fault.
LEMMA CountsKept ==
    ASSUME SerialTables, TypeOK, TypeOK', RowsOK', NEW d, NEW e, NEW f,
           \/ /\ faults' = faults + 1
              /\ Strays' \subseteq Strays \cup {d}
              /\ Stale' \subseteq Stale \cup {e}
              /\ Unlinked' \subseteq Unlinked \cup {f}
           \/ /\ faults' \in {faults, faults + 1}
              /\ Strays' \subseteq Strays
              /\ Stale' \subseteq Stale
              /\ Unlinked' \subseteq Unlinked
    PROVE  SerialTables'
<1>1. /\ Paid(Strays) /\ Paid(Stale) /\ Paid(Unlinked)
      /\ faults \in Nat /\ faults' \in Nat
  BY DEF SerialTables, TypeOK
<1>2. ASSUME NEW S, NEW T, NEW x, Paid(S),
             \/ faults' = faults + 1 /\ T \subseteq S \cup {x}
             \/ faults' \in {faults, faults + 1} /\ T \subseteq S
      PROVE  IsFiniteSet(T) /\ Cardinality(T) <= faults'
  <2>1. \/ T \subseteq S /\ faults' >= faults
        \/ T \subseteq S \cup {x} /\ faults' = faults + 1
    BY <1>1, <1>2
  <2> QED BY <1>1, <1>2, <2>1, PaidFor
<1>3. IsFiniteSet(Strays') /\ Cardinality(Strays') <= faults'
  BY <1>1, <1>2
<1>4. IsFiniteSet(Stale') /\ Cardinality(Stale') <= faults'
  BY <1>1, <1>2
<1>5. IsFiniteSet(Unlinked') /\ Cardinality(Unlinked') <= faults'
  BY <1>1, <1>2
<1> QED
  BY <1>3, <1>4, <1>5 DEF SerialTables, Paid

\* The others publish, index and link nothing.
LEMMA AlonePublishes ==
    ASSUME NEW p \in Sessions, ActsAlone(p)
    PROVE  /\ \A k : Publishing(k) <=> sess[p].pc = "publish" /\ sess[p].want.kb = k
           /\ \A k : Publishing(k)' <=> sess'[p].pc = "publish" /\ sess'[p].want.kb = k
           /\ \A a : Reindexing(a) <=>
                 sess[p].pc \in {"refresh", "index"} /\ sess[p].art = a
           /\ \A a : Reindexing(a)' <=>
                 sess'[p].pc \in {"refresh", "index"} /\ sess'[p].art = a
BY DEF ActsAlone, Publishing, Reindexing

\* The session has links to make for article a.
LinkingFor(s, a) ==
    /\ s.op = "push" /\ s.art = a /\ s.pc \in {"refresh", "index", "link"}
    /\ s.want.kb = article[a].kb

LEMMA AloneLinks ==
    ASSUME NEW p \in Sessions, ActsAlone(p)
    PROVE  \A a : /\ Linking(a) <=> LinkingFor(sess[p], a)
                  /\ Linking(a)' <=> LinkingFor(sess[p], a)'
BY DEF ActsAlone, Linking, LinkingFor

\* An article is without a link after the step only if it was before, or if the
\* step is the end of its push.
LEMMA UnlinkedKept ==
    ASSUME NEW f, UNCHANGED pt, links \subseteq links',
           \A a \in ArticleIds \ {f} :
              article'[a].status = "PUSHED" /\ ~Linking(a)' =>
                 /\ article[a].status = "PUSHED" /\ article[a].kb = article'[a].kb
                 /\ ~Linking(a)
    PROVE  Unlinked' \subseteq Unlinked \cup {f}
<1> SUFFICES ASSUME NEW a \in Unlinked', a # f PROVE a \in Unlinked
  OBVIOUS
<1>1. /\ a \in ArticleIds \ {f} /\ article'[a].status = "PUSHED" /\ ~Linking(a)'
      /\ \E t \in Answers(a)' : /\ pt'[t].match = a => ~pt'[t].late
                                /\ <<article'[a].kb, t>> \notin links'
  BY DEF Unlinked
<1>2. Answers(a)' = Answers(a)
  BY DEF Answers
<1> QED
  BY <1>1, <1>2 DEF Unlinked

\* A step that leaves rows, chunks and items alone: what its session lets go of
\* before it is done is paid for by a fault.
LEMMA TablesQuiet ==
    ASSUME TypeOK, TypeOK', SerialTables, NEW p \in Sessions, ActsAlone(p),
           UNCHANGED <<article, chunks, pt, items>>, links \subseteq links',
           \/ faults' = faults + 1
           \/ /\ UNCHANGED faults
              /\ sess[p].pc \notin {"publish", "refresh", "index", "link"}
           \/ /\ UNCHANGED faults /\ sess[p].pc = "refresh"
              /\ sess'[p].pc = "index" /\ sess'[p].art = sess[p].art
              /\ sess'[p].op = sess[p].op /\ sess'[p].want = sess[p].want
    PROVE  SerialTables'
<1>1. RowsOK'
  BY DEF SerialTables, RowsOK, PushedTextPublished
<1>2. Strays' \subseteq Strays \cup {sess[p].want.kb}
  BY AlonePublishes DEF Strays
<1>3. Stale' \subseteq Stale \cup {sess[p].art}
  BY AlonePublishes DEF Stale
<1>4. Unlinked' \subseteq Unlinked \cup {sess[p].art}
  <2>1. \A a \in ArticleIds \ {sess[p].art} : ~Linking(a)
    BY AloneLinks DEF LinkingFor
  <2> QED BY <2>1, UnlinkedKept
<1>5. CASE faults' = faults + 1
  BY <1>1, <1>2, <1>3, <1>4, <1>5, CountsKept
<1>6. CASE UNCHANGED faults
  <2>1. Strays' \subseteq Strays /\ Stale' \subseteq Stale
    BY <1>6, AlonePublishes DEF Strays, Stale, TypeOK
  <2>2. \A a \in ArticleIds : Linking(a) => Linking(a)'
    BY <1>6, AloneLinks DEF LinkingFor, TypeOK
  <2>3. Unlinked' \subseteq Unlinked \cup {NIL}
    BY <2>2, UnlinkedKept
  <2>4. NIL \notin Unlinked'
    BY DEF Unlinked
  <2> QED BY <1>1, <1>6, <2>1, <2>3, <2>4, CountsKept
<1> QED
  BY <1>5, <1>6

\* A commit to one row a: it does not take the row's item from it, gives it the
\* item that was created for it, and makes no published text stale that is not
\* indexed next, and none published that is not linked next.
LEMMA RowWritten ==
    ASSUME TypeOK, TypeOK', SerialTables, NEW p \in Sessions, ActsAlone(p),
           UNCHANGED <<chunks, pt, items, links, faults>>, NEW a \in ArticleIds,
           \A b \in ArticleIds \ {a} : article'[b] = article[b],
           article'[a].status \in Pushable \cup {"NONE"} => article'[a].kb = NIL,
           article'[a].status = "PUSHED" =>
              /\ article'[a].text.ver \in items[article'[a].kb].had
              /\ sess'[p].pc = "refresh" /\ sess'[p].art = a
              /\ \/ article[a].status = "PUSHED" /\ article[a].kb = article'[a].kb
                 \/ sess'[p].op = "push" /\ sess'[p].want.kb = article'[a].kb,
           article[a].kb \in {NIL, article'[a].kb},
           sess[p].pc \notin {"refresh", "index", "link"},
           sess[p].pc = "publish" =>
              items[sess[p].want.kb].by = a /\ article'[a].kb = sess[p].want.kb
    PROVE  SerialTables'
<1>1. RowsOK'
  BY DEF SerialTables, RowsOK, PushedTextPublished
<1>2. Strays' \subseteq Strays
  <2> SUFFICES ASSUME NEW k \in Strays' PROVE k \in Strays
    OBVIOUS
  <2>1. /\ k \in KbIds /\ items[k].by # NIL /\ items[k].by \in ArticleIds
        /\ article'[items[k].by].kb # k
    BY DEF Strays, TypeOK, Item
  <2>2. article[items[k].by].kb # k
    BY <2>1
  <2>3. ~Publishing(k)
    BY <2>1, AlonePublishes
  <2> QED BY <2>1, <2>2, <2>3 DEF Strays
<1>3. Stale' \subseteq Stale
  BY AlonePublishes DEF Stale
<1>4. Unlinked' \subseteq Unlinked
  <2>1. ASSUME NEW b \in ArticleIds, article'[b].status = "PUSHED", ~Linking(b)'
        PROVE  article[b].status = "PUSHED" /\ article[b].kb = article'[b].kb
    <3>1. CASE b = a
      BY <2>1, <3>1, AloneLinks DEF LinkingFor
    <3> QED BY <2>1, <3>1
  <2>2. \A b : ~Linking(b)
    BY AloneLinks DEF LinkingFor
  <2>3. Unlinked' \subseteq Unlinked \cup {NIL}
    BY <2>1, <2>2, UnlinkedKept
  <2>4. NIL \notin Unlinked'
    BY DEF Unlinked
  <2> QED BY <2>3, <2>4
<1> QED
  BY <1>1, <1>2, <1>3, <1>4, CountsKept

\* An item that is created: no row names it yet, and it is published or paid for.
LEMMA ItemMade ==
    ASSUME IInv, TypeOK', SerialTables, NEW p \in Sessions, ActsAlone(p),
           UNCHANGED <<article, chunks, pt, links>>, sess[p].pc = "create",
           NEW k \in KbIds, NextItem(k), Created(p, k),
           \/ faults' = faults + 1
           \/ /\ UNCHANGED faults
              /\ sess'[p].pc = "publish" /\ sess'[p].want.kb = k
    PROVE  SerialTables'
<1>0. /\ TypeOK /\ ~items[k].made
      /\ \A j \in KbIds \ {k} : items'[j] = items[j]
      /\ items'[k].ver \in items'[k].had
  BY DEF IInv, TypeOK, NextItem, Created
<1>1. \A b \in ArticleIds : article[b].kb # k
  BY <1>0 DEF IInv, TablesOK, RowOK
<1>2. RowsOK'
  <2>1. ASSUME NEW a \in ArticleIds, article[a].status = "PUSHED"
        PROVE  article[a].kb \in KbIds \ {k}
    BY <1>1, <2>1 DEF IInv, TablesOK, PublishedHaveItems, TypeOK, Article
  <2> QED BY <1>0, <2>1 DEF SerialTables, RowsOK, PushedTextPublished
<1>3. Stale' \subseteq Stale
  BY AlonePublishes DEF Stale
<1>4. Strays' \subseteq Strays \cup {k}
  BY <1>0, AlonePublishes DEF Strays
<1>5. Unlinked' \subseteq Unlinked
  <2>1. \A a : ~Linking(a)
    BY AloneLinks DEF LinkingFor
  <2>2. Unlinked' \subseteq Unlinked \cup {NIL}
    BY <2>1, UnlinkedKept
  <2>3. NIL \notin Unlinked'
    BY DEF Unlinked
  <2> QED BY <2>2, <2>3
<1>6. CASE faults' = faults + 1
  BY <1>0, <1>2, <1>3, <1>4, <1>5, <1>6, CountsKept
<1>7. CASE UNCHANGED faults /\ sess'[p].pc = "publish" /\ sess'[p].want.kb = k
  <2>1. Strays' \subseteq Strays
    BY <1>4, <1>7, AlonePublishes DEF Strays
  <2> QED BY <1>0, <1>2, <1>3, <1>5, <1>7, <2>1, CountsKept
<1> QED
  BY <1>6, <1>7

\* A request that is over, or only begins a review, holds nothing.
LEMMA NothingToHold ==
    ASSUME NEW p \in Sessions,
           \/ sess'[p].pc = "idle"
           \/ sess'[p].pc \in {"commit", "create", "refresh", "link"} /\ sess'[p].todo = {},
           sess'[p].pc = "commit" => sess'[p].seen.status # "PUSHED",
           sess'[p].pc = "create" =>
              sess'[p].op = "push" /\ sess'[p].want.text = sess'[p].seen.text
    PROVE  HeldOK(sess[p])'
BY DEF HeldOK

\* The reviewers' requests and their commits.
LEMMA SerialReview ==
    ASSUME MaxConcurrent = 1, IInv, IInv', SerialInv, NEW p \in Sessions, Review(p)
    PROVE  SerialTables' /\ \A q \in Sessions : HeldOK(sess[q])'
<1>0. /\ TypeOK /\ TypeOK' /\ Solo /\ SerialTables /\ HeldOK(sess[p]) /\ SoloOK(sess[p])
      /\ SessOK(sess[p]) /\ sess[p] \in Session
      /\ \A a \in ArticleIds : article[a] \in Article
  BY DEF IInv, TypeOK, SerialInv, Solo
<1>1. ASSUME NEW a \in ArticleIds, NEW op, NEW w, Request(p, op, a, w),
             article[a].status # "PUSHED"
      PROVE  SerialTables' /\ \A q \in Sessions : HeldOK(sess[q])'
  <2> DEFINE n == [Idle EXCEPT !.pc = "commit", !.op = op, !.art = a,
                               !.seen = article[a], !.want = w]
  <2>1. /\ sess'[p] = n /\ ActsAlone(p) /\ sess[p].pc = "idle"
        /\ UNCHANGED <<article, chunks, pt, items, links, faults>>
    BY <1>0, <1>1, PutAlone DEF Request, MayStart
  <2>2. n.pc = "commit" /\ n.seen = article[a] /\ n.todo = {}
    BY DEF Idle
  <2>3. HeldOK(sess[p])'
    BY <1>1, <2>1, <2>2, NothingToHold
  <2> QED BY <1>0, <2>1, <2>3, AloneHeld, TablesQuiet
<1>2. ASSUME NEW a \in ArticleIds,
             \/ \E v \in Versions : UpdateDraft(p, a, v)
             \/ ApproveDraft(p, a) \/ RejectDraft(p, a)
      PROVE  SerialTables' /\ \A q \in Sessions : HeldOK(sess[q])'
  BY <1>1, <1>2 DEF UpdateDraft, ApproveDraft, RejectDraft
<1>3. CASE CommitReview(p)
  <2>. PICK a \in ArticleIds : a = sess[p].art
    BY <1>0, <1>3 DEF CommitReview, SessOK
  <2>1. /\ sess[p].pc = "commit" /\ sess[p].seen = article[a]
        /\ KeepsItem(sess[p]) /\ Allowed(article[a].status, sess[p].want.status)
        /\ article[a].status # "PUSHED"
    BY <1>0, <1>3 DEF CommitReview, SoloOK, SessOK, HeldOK
  <2>2. /\ sess'[p] = Idle /\ ActsAlone(p) /\ UNCHANGED <<chunks, pt, items, links, faults>>
        /\ article' = [article EXCEPT ![a] = Merged(@, article[a], sess[p].want)]
    BY <1>0, <1>3, <2>1, PutAlone DEF CommitReview
  <2>3. /\ \A b \in ArticleIds \ {a} : article'[b] = article[b]
        /\ article'[a].kb = article[a].kb
        /\ article'[a].status = sess[p].want.status
    BY <1>0, <2>1, <2>2 DEF TypeOK, Merged, KeepsItem
  <2>4. /\ article'[a].status # "PUSHED"
        /\ article'[a].status \in Pushable \cup {"NONE"} => article'[a].kb = NIL
    BY <1>0, <2>1, <2>3 DEF KeepsItem, Allowed, Pushable, SerialTables, RowsOK
  <2>5. HeldOK(sess[p])'
    BY <2>2, NothingToHold DEF Idle
  <2> QED BY <1>0, <2>1, <2>2, <2>3, <2>4, <2>5, AloneHeld, RowWritten
<1> QED
  BY <1>2, <1>3 DEF Review

\* A push: the item gets the wording of the row it was read from, and the row
\* is committed as it was read, with the item.
LEMMA SerialPush ==
    ASSUME MaxConcurrent = 1, IInv, IInv', SerialInv, NEW p \in Sessions, Push(p)
    PROVE  SerialTables' /\ \A q \in Sessions : HeldOK(sess[q])'
<1>0. /\ TypeOK /\ TypeOK' /\ Solo /\ SerialTables /\ HeldOK(sess[p]) /\ SoloOK(sess[p])
      /\ SessOK(sess[p]) /\ sess[p] \in Session
      /\ \A a \in ArticleIds : article[a] \in Article
      /\ Idle.pc = "idle"
  BY DEF IInv, TypeOK, SerialInv, Solo, Idle
<1>1. ASSUME NEW a \in ArticleIds, PushDraft(p, a)
      PROVE  SerialTables' /\ \A q \in Sessions : HeldOK(sess[q])'
  <2> DEFINE n == [Idle EXCEPT !.pc = "create", !.op = "push", !.art = a,
                               !.seen = article[a], !.want = article[a]]
  <2>1. /\ sess'[p] = n /\ ActsAlone(p) /\ sess[p].pc = "idle"
        /\ UNCHANGED <<article, chunks, pt, items, links, faults>>
    BY <1>0, <1>1, PutAlone DEF PushDraft, MayStart
  <2>2. /\ n.pc = "create" /\ n.op = "push" /\ n.seen = article[a] /\ n.want = article[a]
        /\ n.todo = {}
    BY DEF Idle
  <2>3. HeldOK(sess[p])'
    BY <2>1, <2>2, NothingToHold
  <2> QED BY <1>0, <2>1, <2>3, AloneHeld, TablesQuiet
<1>2. ASSUME NEW k \in KbIds, CreateKbDraft(p, k)
      PROVE  SerialTables' /\ \A q \in Sessions : HeldOK(sess[q])'
  <2> DEFINE n == [sess[p] EXCEPT !.pc = "publish", !.want.kb = k,
                                  !.want.status = "PUSHED"]
  <2>1. /\ sess'[p] = n /\ ActsAlone(p) /\ sess[p].pc = "create" /\ NextItem(k)
        /\ Created(p, k) /\ UNCHANGED <<article, chunks, pt, links, faults>>
    BY <1>0, <1>2, PutAlone DEF CreateKbDraft
  <2>2. /\ n.pc = "publish" /\ n.art = sess[p].art /\ n.seen = sess[p].seen
        /\ n.want.kb = k /\ n.want.text = sess[p].want.text /\ n.todo = sess[p].todo
        /\ n.op = sess[p].op
    BY <1>0 DEF Session, Article
  <2>3. sess[p].op = "push" /\ sess[p].want.text = sess[p].seen.text
    BY <1>0, <2>1 DEF HeldOK
  <2>4. /\ ~items[k].made /\ items'[k].by = sess[p].art
        /\ sess[p].seen.text.ver \in items'[k].had
        /\ \A j \in KbIds \ {k} : items'[j] = items[j]
    BY <1>0, <2>1 DEF Created, NextItem, TypeOK
  <2>5. \A b \in ArticleIds : article[b].kb # k
    BY <1>0, <2>4 DEF IInv, TablesOK, RowOK
  <2>6. \A i \in sess[p].todo : i.kb \in KbIds \ {k}
    BY <1>0, <2>4 DEF SessOK, Session, Listed
  <2>7. HeldOK(sess[p])'
    BY <1>0, <2>1, <2>2, <2>3, <2>4, <2>5, <2>6 DEF HeldOK
  <2> QED BY <1>0, <2>1, <2>2, <2>7, AloneHeld, ItemMade
<1>3. CASE CreateKbDraftFails(p)
  <2>1. /\ sess'[p] = Idle /\ ActsAlone(p) /\ sess[p].pc = "create"
        /\ UNCHANGED <<article, chunks, pt, links>>
    BY <1>0, <1>3, PutAlone DEF CreateKbDraftFails
  <2>2. HeldOK(sess[p])'
    BY <1>0, <2>1, NothingToHold
  <2>3. CASE UNCHANGED items
    <3>1. faults' = faults + 1 \/ UNCHANGED faults
      BY <1>3 DEF CreateKbDraftFails, Fault
    <3> QED BY <1>0, <2>1, <2>2, <2>3, <3>1, AloneHeld, TablesQuiet
  <2>4. ASSUME NEW k \in KbIds, NextItem(k), Created(p, k), faults' = faults + 1
        PROVE  SerialTables' /\ \A q \in Sessions : HeldOK(sess[q])'
    BY <1>0, <2>1, <2>2, <2>4, AloneHeld, ItemMade
  <2> QED BY <1>3, <2>3, <2>4 DEF CreateKbDraftFails, Fault
<1>4. CASE CommitPush(p)
  <2>. PICK a \in ArticleIds : a = sess[p].art
    BY <1>0, <1>4 DEF CommitPush, SessOK
  <2>1. /\ sess[p].pc = "publish" /\ sess[p].seen = article[a]
        /\ sess[p].op = "push" /\ article[a].status \in Pushable /\ article[a].kb = NIL
        /\ sess[p].want.status = "PUSHED" /\ sess[p].want.kb \notin {NIL, article[a].kb}
        /\ sess[p].want.text = article[a].text
    BY <1>0, <1>4 DEF CommitPush, SoloOK, SessOK, HeldOK, SerialTables, RowsOK
  <2>2. KbFree(a, sess[p].want.kb)
    BY <1>0, <2>1 DEF HeldOK, KbFree
  <2>3. /\ sess'[p] = [sess[p] EXCEPT !.pc = "refresh"] /\ ActsAlone(p)
        /\ UNCHANGED <<chunks, pt, items, links, faults>>
        /\ article' = [article EXCEPT ![a] = Merged(@, article[a], sess[p].want)]
    BY <1>0, <1>4, <2>1, <2>2, PutAlone DEF CommitPush
  <2>4. /\ \A b \in ArticleIds \ {a} : article'[b] = article[b]
        /\ article'[a].kb = sess[p].want.kb /\ article'[a].status = "PUSHED"
        /\ article'[a].text = article[a].text
    BY <1>0, <2>1, <2>3 DEF TypeOK, Merged, Pushable
  <2>5. /\ sess'[p].pc = "refresh" /\ sess'[p].art = a /\ sess'[p].todo = sess[p].todo
        /\ sess'[p].op = "push" /\ sess'[p].want = sess[p].want
    BY <1>0, <2>1, <2>3 DEF Session
  <2>6. HeldOK(sess[p])'
    BY <1>0, <2>1, <2>3, <2>5 DEF HeldOK
  <2>7. /\ items[sess[p].want.kb].by = a
        /\ article'[a].text.ver \in items[sess[p].want.kb].had
    BY <1>0, <2>1, <2>4 DEF HeldOK
  <2>8. article'[a].status \notin Pushable \cup {"NONE"}
    BY <2>4 DEF Pushable
  <2> QED BY <1>0, <2>1, <2>3, <2>4, <2>5, <2>6, <2>7, <2>8, AloneHeld, RowWritten
<1>5. CASE LinkTickets(p)
  <2>. PICK a \in ArticleIds : a = sess[p].art
    BY <1>0, <1>5 DEF LinkTickets, SessOK
  <2> DEFINE L == {sess[p].want.kb} \X LinkTargets(a)
  <2>1. /\ sess'[p] = Idle /\ ActsAlone(p) /\ sess[p].pc = "link"
        /\ UNCHANGED <<article, chunks, pt, items>> /\ Link(L)
    BY <1>0, <1>5, PutAlone DEF LinkTickets
  <2>2. HeldOK(sess[p])'
    BY <1>0, <2>1, NothingToHold
  <2>3. PICK failed \in SUBSET L :
           /\ links' = links \cup (L \ failed)
           /\ IF failed = {} THEN UNCHANGED faults ELSE Fault
    BY <2>1 DEF Link
  <2>4. CASE faults' = faults + 1
    BY <1>0, <2>1, <2>2, <2>3, <2>4, AloneHeld, TablesQuiet
  \* All the links are made, so that the article is not without one.
  <2>5. CASE UNCHANGED faults /\ failed = {}
    <3>1. /\ Unlinked' \subseteq Unlinked \cup {a}
          /\ \A b : ~Linking(b)'
      <4>1. \A b \in ArticleIds \ {a} : ~Linking(b)
        BY <2>1, AloneLinks DEF LinkingFor
      <4>2. \A b : ~Linking(b)'
        BY <1>0, <2>1, AloneLinks DEF LinkingFor
      <4> QED BY <2>1, <2>3, <4>1, <4>2, UnlinkedKept
    <3>2. ASSUME a \in Unlinked' PROVE a \in Unlinked
      <4>1. PICK t \in Answers(a)' :
               /\ a \in ArticleIds /\ article[a].status = "PUSHED"
               /\ (pt[t].match = a => ~pt[t].late) /\ <<article[a].kb, t>> \notin links'
        BY <2>1, <3>2 DEF Unlinked
      <4>2. t \in Answers(a) /\ t \in LinkTargets(a)
        BY <2>1 DEF Answers, LinkTargets
      <4>3. article[a].kb # sess[p].want.kb
        BY <2>3, <2>5, <4>1, <4>2
      <4>4. ~Linking(a)
        BY <2>1, <4>3, AloneLinks DEF LinkingFor
      <4> QED BY <2>3, <4>1, <4>2, <4>4 DEF Unlinked
    <3>3. Strays' \subseteq Strays /\ Stale' \subseteq Stale
      BY <2>1, AlonePublishes DEF Strays, Stale
    <3>4. RowsOK'
      BY <1>0, <2>1 DEF SerialTables, RowsOK, PushedTextPublished
    <3>5. SerialTables'
      BY <1>0, <2>5, <3>1, <3>2, <3>3, <3>4, CountsKept
    <3> QED BY <2>1, <2>2, <3>5, AloneHeld
  <2> QED BY <2>3, <2>4, <2>5 DEF Fault
<1> QED
  BY <1>1, <1>2, <1>3, <1>4, <1>5 DEF Push

\* An import: it writes a wording that its listing read from the item.
LEMMA SerialImport ==
    ASSUME MaxConcurrent = 1, IInv, IInv', SerialInv, NEW p \in Sessions, Import(p)
    PROVE  SerialTables' /\ \A q \in Sessions : HeldOK(sess[q])'
<1>0. /\ TypeOK /\ TypeOK' /\ Solo /\ SerialTables /\ HeldOK(sess[p]) /\ SoloOK(sess[p])
      /\ SessOK(sess[p]) /\ sess[p] \in Session
      /\ \A a \in ArticleIds : article[a] \in Article
      /\ Idle.pc = "idle"
  BY DEF IInv, TypeOK, SerialInv, Solo, Idle
<1>1. CASE ImportFromItsm(p)
  <2> DEFINE n == [Idle EXCEPT !.pc = "list", !.op = "import", !.todo = Listing]
  <2>1. /\ sess'[p] = n /\ ActsAlone(p) /\ sess[p].pc = "idle"
        /\ UNCHANGED <<article, chunks, pt, items, links, faults>>
    BY <1>0, <1>1, PutAlone DEF ImportFromItsm, MayStart
  <2>2. n.pc = "list" /\ n.todo = Listing
    BY DEF Idle
  <2>3. \A i \in Listing : i.ver \in items[i.kb].had
    BY <1>0 DEF Listing, SerialTables, RowsOK
  <2>4. HeldOK(sess[p])'
    BY <2>1, <2>2, <2>3 DEF HeldOK
  <2> QED BY <1>0, <2>1, <2>4, AloneHeld, TablesQuiet
<1>2. ASSUME NEW i \in Listed, ReadByKbId(p, i)
      PROVE  SerialTables' /\ \A q \in Sessions : HeldOK(sess[q])'
  <2> DEFINE text == [ver |-> i.ver, form |-> "plain"]
             s == [sess[p] EXCEPT !.pc = "upsert", !.todo = @ \ {i}]
  <2>1. /\ sess[p].pc = "list" /\ sess[p].art = NIL /\ i \in sess[p].todo
        /\ UNCHANGED <<article, chunks, pt, items, links, faults>> /\ i.kb \in KbIds
        /\ i.ver \in items[i.kb].had
    BY <1>0, <1>2 DEF ReadByKbId, SessOK, HeldOK, Listed
  <2>2. ASSUME NEW a \in ArticleIds, article[a].kb = i.kb,
               Put(p, [s EXCEPT !.art = a, !.seen = article[a],
                                !.want = [article[a] EXCEPT !.text = text]])
        PROVE  HeldOK(sess[p])' /\ ActsAlone(p)
    <3> DEFINE n == [s EXCEPT !.art = a, !.seen = article[a],
                              !.want = [article[a] EXCEPT !.text = text]]
    <3>1. sess'[p] = n /\ ActsAlone(p)
      BY <1>0, <2>1, <2>2, PutAlone
    <3>2. /\ n.pc = "upsert" /\ n.seen = article[a] /\ n.todo \subseteq sess[p].todo
          /\ n.want.status = article[a].status /\ n.want.kb = i.kb
          /\ n.want.text.ver = i.ver
      BY <1>0, <2>2 DEF Session, Article
    <3> QED BY <1>0, <2>1, <3>1, <3>2 DEF HeldOK
  <2>3. ASSUME Put(p, [s EXCEPT !.want =
                         [status |-> "IMPORTED", text |-> text, kb |-> i.kb]])
        PROVE  HeldOK(sess[p])' /\ ActsAlone(p)
    <3> DEFINE n == [s EXCEPT !.want =
                       [status |-> "IMPORTED", text |-> text, kb |-> i.kb]]
    <3>1. sess'[p] = n /\ ActsAlone(p)
      BY <1>0, <2>1, <2>3, PutAlone
    <3>2. n.pc = "upsert" /\ n.art = NIL /\ n.todo \subseteq sess[p].todo
      BY <1>0, <2>1 DEF Session
    <3> QED BY <1>0, <2>1, <3>1, <3>2 DEF HeldOK
  <2>4. HeldOK(sess[p])' /\ ActsAlone(p)
    BY <1>2, <2>2, <2>3 DEF ReadByKbId
  <2> QED BY <1>0, <2>1, <2>4, AloneHeld, TablesQuiet
<1>3. CASE UpdateImported(p)
  <2>. PICK a \in ArticleIds : a = sess[p].art
    BY <1>0, <1>3 DEF UpdateImported, SessOK
  <2>1. /\ sess[p].pc = "upsert" /\ sess[p].seen = article[a]
        /\ KeepsItem(sess[p]) /\ sess[p].want.status = article[a].status
        /\ sess[p].want.kb = article[a].kb /\ article[a].kb # NIL
        /\ sess[p].want.text.ver \in items[article[a].kb].had
    BY <1>0, <1>3 DEF UpdateImported, SoloOK, SessOK, HeldOK, KeepsItem
  <2>2. /\ sess'[p] = [sess[p] EXCEPT !.pc = "refresh"] /\ ActsAlone(p)
        /\ UNCHANGED <<chunks, pt, items, links, faults>>
        /\ article' = [article EXCEPT ![a] = Merged(@, article[a], sess[p].want)]
    BY <1>0, <1>3, <2>1, PutAlone DEF UpdateImported
  <2>3. /\ \A b \in ArticleIds \ {a} : article'[b] = article[b]
        /\ article'[a].kb = article[a].kb /\ article'[a].status = article[a].status
        /\ article'[a].text = sess[p].want.text
    BY <1>0, <2>1, <2>2 DEF TypeOK, Merged
  <2>4. /\ sess'[p].pc = "refresh" /\ sess'[p].art = a /\ sess'[p].todo = sess[p].todo
    BY <1>0, <2>2 DEF Session
  <2>5. HeldOK(sess[p])'
    BY <1>0, <2>1, <2>2, <2>4 DEF HeldOK
  <2>6. article'[a].status \in Pushable \cup {"NONE"} => article'[a].kb = NIL
    BY <1>0, <2>3 DEF SerialTables, RowsOK
  <2>7. article'[a].text.ver \in items[article'[a].kb].had
    BY <2>1, <2>3
  <2>8. article[a].kb \in {NIL, article'[a].kb}
    BY <2>3
  <2>9. SerialTables'
    BY <1>0, <2>1, <2>2, <2>3, <2>4, <2>6, <2>7, <2>8, RowWritten
  <2> QED BY <2>2, <2>5, <2>9, AloneHeld
<1>4. ASSUME NEW a \in ArticleIds, InsertImported(p, a)
      PROVE  SerialTables' /\ \A q \in Sessions : HeldOK(sess[q])'
  <2>1. sess[p].pc = "upsert" /\ sess[p].art = NIL /\ UNCHANGED <<chunks, pt, items, links, faults>>
        /\ sess[p].want.status = "IMPORTED"
    BY <1>0, <1>4 DEF InsertImported, SessOK
  <2>2. CASE Put(p, Idle) /\ UNCHANGED article
    <3>1. sess'[p] = Idle /\ ActsAlone(p)
      BY <1>0, <2>1, <2>2, PutAlone
    <3>2. HeldOK(sess[p])'
      BY <1>0, <3>1, NothingToHold
    <3> QED BY <1>0, <2>1, <2>2, <3>1, <3>2, AloneHeld, TablesQuiet
  <2>3. CASE /\ article[a].status = "NONE"
             /\ article' = [article EXCEPT ![a] = sess[p].want]
             /\ Put(p, [sess[p] EXCEPT !.pc = "refresh", !.art = a])
    <3>1. sess'[p] = [sess[p] EXCEPT !.pc = "refresh", !.art = a] /\ ActsAlone(p)
      BY <1>0, <2>1, <2>3, PutAlone
    <3>2. sess'[p].pc = "refresh" /\ sess'[p].todo = sess[p].todo
      BY <1>0, <3>1 DEF Session
    <3>3. HeldOK(sess[p])'
      BY <1>0, <2>1, <3>2 DEF HeldOK
    <3>4. /\ \A b \in ArticleIds \ {a} : article'[b] = article[b]
          /\ article'[a].status = "IMPORTED" /\ article[a].kb = NIL
      BY <1>0, <2>1, <2>3 DEF TypeOK, SerialTables, RowsOK
    <3>5. article'[a].status \notin Pushable \cup {"NONE", "PUSHED"}
      BY <3>4 DEF Pushable
    <3> QED BY <1>0, <2>1, <3>1, <3>3, <3>4, <3>5, AloneHeld, RowWritten
  <2> QED BY <1>4, <2>2, <2>3 DEF InsertImported
<1> QED
  BY <1>1, <1>2, <1>3, <1>4 DEF Import

\* Indexing leaves the article's chunks fresh, or fails with a fault.
LEMMA SerialIndex ==
    ASSUME MaxConcurrent = 1, IInv, IInv', SerialInv, NEW p \in Sessions,
           Refresh(p) \/ IndexArticle(p) \/ IndexFails(p)
    PROVE  SerialTables' /\ \A q \in Sessions : HeldOK(sess[q])'
<1>0. /\ TypeOK /\ TypeOK' /\ Solo /\ SerialTables /\ HeldOK(sess[p])
      /\ SessOK(sess[p]) /\ sess[p] \in Session /\ Idle.pc = "idle"
  BY DEF IInv, TypeOK, SerialInv, Solo, Idle
<1>1. CASE Refresh(p)
  <2> DEFINE n == [sess[p] EXCEPT !.pc = "index", !.text = article[sess[p].art].text]
  <2>1. /\ sess'[p] = n /\ ActsAlone(p) /\ sess[p].pc = "refresh"
        /\ UNCHANGED <<article, chunks, pt, items, links, faults>>
    BY <1>0, <1>1, PutAlone DEF Refresh
  <2>2. /\ n.pc = "index" /\ n.art = sess[p].art /\ n.todo = sess[p].todo
        /\ n.text = article[sess[p].art].text
        /\ n.op = sess[p].op /\ n.want = sess[p].want
    BY <1>0 DEF Session
  <2>3. HeldOK(sess[p])'
    BY <1>0, <2>1, <2>2 DEF HeldOK
  <2> QED BY <1>0, <2>1, <2>2, <2>3, AloneHeld, TablesQuiet
<1>2. CASE IndexArticle(p)
  <2>. PICK a \in ArticleIds : a = sess[p].art
    BY <1>0, <1>2 DEF IndexArticle, SessOK
  <2> DEFINE n == IF sess[p].op = "push" THEN [sess[p] EXCEPT !.pc = "link"]
                                         ELSE AfterImport(sess[p])
  <2>1. /\ sess'[p] = n /\ ActsAlone(p) /\ sess[p].pc = "index"
        /\ UNCHANGED <<article, pt, items, links, faults>>
        /\ chunks' = [chunks EXCEPT ![a] = article[a].text]
    BY <1>0, <1>2, PutAlone DEF IndexArticle, HeldOK
  <2>2. n.pc \in {"idle", "link", "list"} /\ n.todo \subseteq sess[p].todo
    BY <1>0 DEF Session, AfterImport, Idle
  <2>3. HeldOK(sess[p])'
    BY <1>0, <2>1, <2>2 DEF HeldOK
  <2>4. RowsOK'
    BY <1>0, <2>1 DEF SerialTables, RowsOK, PushedTextPublished
  <2>5. Strays' \subseteq Strays
    BY <2>1, AlonePublishes DEF Strays
  <2>6. Stale' \subseteq Stale
    BY <1>0, <2>1, AlonePublishes DEF Stale, TypeOK
  \* A push that had links to make still has.
  <2>7. Unlinked' \subseteq Unlinked
    <3>1. ASSUME NEW b, Linking(b) PROVE Linking(b)'
      <4>1. LinkingFor(sess[p], b)
        BY <2>1, <3>1, AloneLinks
      <4>2. n.pc = "link" /\ n.op = "push" /\ n.art = sess[p].art /\ n.want = sess[p].want
        BY <1>0, <4>1 DEF LinkingFor, Session
      <4>3. LinkingFor(sess[p], b)'
        BY <2>1, <4>1, <4>2 DEF LinkingFor
      <4> QED BY <2>1, <4>3, AloneLinks
    <3>2. Unlinked' \subseteq Unlinked \cup {NIL}
      BY <2>1, <3>1, UnlinkedKept
    <3>3. NIL \notin Unlinked'
      BY DEF Unlinked
    <3> QED BY <3>2, <3>3
  <2>8. SerialTables'
    BY <1>0, <2>1, <2>4, <2>5, <2>6, <2>7, CountsKept
  <2> QED BY <2>1, <2>3, <2>8, AloneHeld
<1>3. CASE IndexFails(p)
  <2>1. /\ sess'[p] = Idle /\ ActsAlone(p) /\ sess[p].pc = "index"
        /\ UNCHANGED <<article, chunks, pt, items, links>> /\ faults' = faults + 1
    BY <1>0, <1>3, PutAlone DEF IndexFails, Fault
  <2>2. HeldOK(sess[p])'
    BY <1>0, <2>1, NothingToHold
  <2> QED BY <1>0, <2>1, <2>2, AloneHeld, TablesQuiet
<1> QED
  BY <1>1, <1>2, <1>3

\* A crash costs a fault; what people do in the ITSM and what the poll cycle
\* records leave no published article without the links it had or is to get.
LEMMA SerialEnvironment ==
    ASSUME IInv, IInv', SerialInv, Environment \/ RelinkKbToTickets \/ UNCHANGED vars
    PROVE  SerialTables' /\ \A q \in Sessions : HeldOK(sess[q])'
<1>0. /\ TypeOK /\ TypeOK' /\ Solo /\ SerialTables /\ Idle.pc = "idle"
      /\ \A q \in Sessions : /\ HeldOK(sess[q]) /\ SessOK(sess[q])
                             /\ sess[q] \in Session
  BY DEF IInv, TypeOK, SerialInv, Idle
<1>1. CASE Crash
  <2>1. PICK p \in Sessions : sess[p].pc # "idle"
    BY <1>1 DEF Crash, Active
  <2>2. /\ \A q \in Sessions : sess'[q] = Idle
        /\ UNCHANGED <<article, chunks, pt, items, links>> /\ faults' = faults + 1
    BY <1>1 DEF Crash, Fault
  <2>3. \A q \in Sessions : HeldOK(sess[q])'
    BY <1>0, <2>2, NothingToHold
  <2>4. \A q \in Sessions \ {p} : sess[q].pc = "idle"
    BY <1>0, <2>1 DEF Solo
  <2>5. Strays' \subseteq Strays \cup {sess[p].want.kb}
    BY <2>2, <2>4 DEF Strays, Publishing
  <2>6. Stale' \subseteq Stale \cup {sess[p].art}
    BY <2>2, <2>4 DEF Stale, Reindexing
  <2>7. Unlinked' \subseteq Unlinked \cup {sess[p].art}
    <3>1. \A a \in ArticleIds \ {sess[p].art} : ~Linking(a)
      BY <2>4 DEF Linking
    <3> QED BY <2>2, <3>1, UnlinkedKept
  <2>8. RowsOK'
    BY <1>0, <2>2 DEF SerialTables, RowsOK, PushedTextPublished
  <2>9. SerialTables'
    <3>1. SerialTables /\ TypeOK /\ TypeOK' /\ faults' = faults + 1
      BY <1>0, <2>2
    <3> QED BY <2>5, <2>6, <2>7, <2>8, <3>1, CountsKept
  <2> QED BY <2>3, <2>9
\* An edit in the ITSM adds to the wordings an item has had.
<1>2. ASSUME NEW k \in KbIds, NEW v \in Versions, EditInItsm(k, v)
      PROVE  SerialTables' /\ \A q \in Sessions : HeldOK(sess[q])'
  <2>1. /\ UNCHANGED <<article, chunks, pt, links, sess, faults>>
        /\ \A j \in KbIds : /\ items'[j].by = items[j].by
                            /\ items'[j].made = items[j].made
                            /\ items[j].had \subseteq items'[j].had
                            /\ items'[j].ver \in items[j].had => items'[j].ver \in items'[j].had
                            /\ items[j].ver \in items[j].had => items'[j].ver \in items'[j].had
    BY <1>0, <1>2 DEF EditInItsm, TypeOK, Item
  <2>2. ASSUME NEW q \in Sessions PROVE HeldOK(sess[q])'
    <3>1. /\ HeldOK(sess[q]) /\ sess'[q] = sess[q]
          /\ \A i \in sess[q].todo : i.kb \in KbIds
          /\ sess[q].want.kb \in KbIds \cup {NIL}
          /\ sess[q].pc = "publish" => sess[q].want.kb # NIL
      BY <1>0, <2>1 DEF Session, Listed, Article, SessOK
    <3>2. ASSUME NEW i \in sess[q].todo, i.ver \in items[i.kb].had
          PROVE  i.ver \in items'[i.kb].had
      BY <2>1, <3>1, <3>2
    <3>3. ASSUME sess[q].want.kb \in KbIds,
                 sess[q].want.text.ver \in items[sess[q].want.kb].had
          PROVE  sess[q].want.text.ver \in items'[sess[q].want.kb].had
      BY <2>1, <3>3
    <3>4. sess[q].want.kb \in KbIds =>
             items'[sess[q].want.kb].by = items[sess[q].want.kb].by
      BY <2>1
    <3> QED BY <2>1, <3>1, <3>2, <3>3, <3>4 DEF HeldOK
  <2>3. Strays' \subseteq Strays /\ Stale' \subseteq Stale /\ Unlinked' \subseteq Unlinked
    <3>1. /\ \A j : Publishing(j)' <=> Publishing(j)
          /\ \A a : (Reindexing(a)' <=> Reindexing(a)) /\ (Linking(a)' <=> Linking(a))
      BY <2>1 DEF Publishing, Reindexing, Linking
    <3>2. ASSUME NEW j \in KbIds
          PROVE  /\ items'[j].by = items[j].by
                 /\ article'[items'[j].by].kb = article[items[j].by].kb
      <4>1. items'[j].by = items[j].by /\ article' = article
        BY <2>1
      <4> QED BY <4>1
    <3>3. Strays' \subseteq Strays
      BY <3>1, <3>2 DEF Strays
    <3>4. Stale' \subseteq Stale
      BY <2>1, <3>1 DEF Stale
    <3>5. Unlinked' \subseteq Unlinked
      BY <2>1, <3>1 DEF Unlinked, Answers
    <3> QED BY <3>3, <3>4, <3>5
  <2>4. RowsOK'
    <3>1. ASSUME NEW a \in ArticleIds, article[a].status = "PUSHED"
          PROVE  article[a].text.ver \in items'[article[a].kb].had
      <4>1. article[a].kb \in KbIds /\ article[a].text.ver \in items[article[a].kb].had
        BY <1>0, <3>1 DEF IInv, TablesOK, PublishedHaveItems, TypeOK, Article,
           SerialTables, RowsOK, PushedTextPublished
      <4> QED BY <2>1, <4>1
    <3>2. ASSUME NEW j \in KbIds, items'[j].made PROVE items'[j].ver \in items'[j].had
      BY <1>0, <2>1, <3>2 DEF SerialTables, RowsOK
    <3>3. ASSUME NEW a \in ArticleIds
          PROVE  article'[a].status \in Pushable \cup {"NONE"} => article'[a].kb = NIL
      BY <1>0, <2>1 DEF SerialTables, RowsOK
    <3> QED BY <2>1, <3>1, <3>2, <3>3 DEF RowsOK, PushedTextPublished
  <2> QED BY <1>0, <2>1, <2>2, <2>3, <2>4, CountsKept
\* A ticket recorded after the publication is late; before it, nothing is due.
<1>3. ASSUME NEW t \in Tickets, NEW a \in ArticleIds, NEW d \in {"COVERED", "DRAFTED"},
             RecordTicket(t, a, d)
      PROVE  SerialTables' /\ \A q \in Sessions : HeldOK(sess[q])'
  <2>1. /\ UNCHANGED <<article, chunks, items, links, sess, faults>>
        /\ pt[t] = NoRow /\ (a \in Drafts => Source[a] # t)
        /\ pt'[t].match = a /\ pt'[t].late = (article[a].status = "PUSHED")
        /\ \A u \in Tickets \ {t} : pt'[u] = pt[u]
    BY <1>0, <1>3 DEF RecordTicket, TypeOK
  <2>2. \A q \in Sessions : HeldOK(sess[q])'
    BY <1>0, <2>1 DEF HeldOK
  <2>3. Strays' = Strays /\ Stale' = Stale /\ RowsOK'
    BY <1>0, <2>1 DEF Strays, Publishing, Stale, Reindexing, SerialTables, RowsOK,
       PushedTextPublished
  <2>4. Unlinked' \subseteq Unlinked
    <3> SUFFICES ASSUME NEW b \in Unlinked' PROVE b \in Unlinked
      OBVIOUS
    <3>1. PICK u \in Answers(b)' :
             /\ b \in ArticleIds /\ article[b].status = "PUSHED" /\ ~Linking(b)'
             /\ (pt'[u].match = b => ~pt'[u].late) /\ <<article[b].kb, u>> \notin links
      BY <2>1 DEF Unlinked
    <3>2. ~Linking(b)
      BY <2>1, <3>1 DEF Linking
    <3>3. u \in Answers(b) /\ (pt[u].match = b => ~pt[u].late)
      <4>1. CASE u = t
        <5>1. b # a
          BY <2>1, <3>1, <4>1
        <5>2. u \in Answers(b)
          BY <2>1, <3>1, <4>1, <5>1 DEF Answers
        <5>3. pt[u].match # b
          BY <2>1, <3>1, <4>1 DEF NoRow
        <5> QED BY <5>2, <5>3
      <4>2. CASE u # t
        BY <2>1, <3>1, <4>2 DEF Answers
      <4> QED BY <4>1, <4>2
    <3> QED BY <3>1, <3>2, <3>3 DEF Unlinked
  <2> QED BY <1>0, <2>1, <2>2, <2>3, <2>4, CountsKept
<1>4. CASE RelinkKbToTickets \/ UNCHANGED vars
  <2>1. /\ UNCHANGED <<article, chunks, pt, items, sess>> /\ links \subseteq links'
        /\ faults' \in {faults, faults + 1}
    BY <1>4 DEF RelinkKbToTickets, Link, Fault, vars
  <2>2. \A q \in Sessions : HeldOK(sess[q])'
    BY <1>0, <2>1 DEF HeldOK
  <2>3. Strays' = Strays /\ Stale' = Stale /\ RowsOK'
    BY <1>0, <2>1 DEF Strays, Publishing, Stale, Reindexing, SerialTables, RowsOK,
       PushedTextPublished
  <2>4. Unlinked' \subseteq Unlinked
    BY <2>1 DEF Unlinked, Answers, Linking
  <2> QED BY <1>0, <2>1, <2>2, <2>3, <2>4, CountsKept
<1> QED
  BY <1>1, <1>2, <1>3, <1>4 DEF Environment

\* The serial invariant survives every step.
LEMMA SerialStep ==
    ASSUME MaxConcurrent = 1, IInv, SerialInv, [Next]_vars
    PROVE  SerialInv'
<1>1. IInv' /\ Solo'
  BY InvStep, SoloStep DEF SerialInv
<1> QED
  BY <1>1, SerialReview, SerialPush, SerialImport, SerialIndex, SerialEnvironment
  DEF SerialInv, Next

\* The drafts the pipeline left are unpublished, and no item is kbgen's.
LEMMA SerialStart == Init => SerialInv
<1> SUFFICES ASSUME Init PROVE SerialInv
  OBVIOUS
<1>1. /\ \A q \in Sessions : sess[q].pc = "idle" /\ HeldOK(sess[q])
      /\ \A a \in ArticleIds : article[a].kb = NIL /\ article[a].status # "PUSHED"
      /\ \A k \in KbIds : items[k].by = NIL /\ items[k].ver \in items[k].had
  BY DEF Init, HeldOK, Idle, NoArticle, NoItem
<1>2. RowsOK
  BY <1>1 DEF RowsOK, PushedTextPublished
<1>3. Strays = {} /\ Stale = {} /\ Unlinked = {}
  BY <1>1 DEF Strays, Stale, Unlinked
<1>4. Paid({})
  BY FS_EmptySet DEF Paid, Init
<1> QED
  BY <1>1, <1>2, <1>3, <1>4, SoloInit DEF SerialInv, SerialTables

\* With one request at a time, the serial invariant holds.
LEMMA SerialInvariance == MaxConcurrent = 1 => (Spec => [](IInv /\ SerialInv))
<1> SUFFICES ASSUME MaxConcurrent = 1 PROVE Spec => [](IInv /\ SerialInv)
  OBVIOUS
<1>1. Init => IInv /\ SerialInv
  BY InvInit, SerialStart
<1>2. IInv /\ SerialInv /\ [Next]_vars => IInv' /\ SerialInv'
  BY InvStep, SerialStep
<1> QED
  BY <1>1, <1>2, PTL DEF Spec

\* One request at a time, the wording of a published article is one its item
\* has had, through every edit, failed push, edit in the ITSM and import: no
\* review changes what was published.
THEOREM PublishedAsShown == MaxConcurrent = 1 => (Spec => []PushedTextPublished)
<1> SUFFICES ASSUME MaxConcurrent = 1 PROVE Spec => []PushedTextPublished
  OBVIOUS
<1>1. SerialInv => PushedTextPublished
  BY DEF SerialInv, SerialTables, RowsOK
<1> QED
  BY <1>1, SerialInvariance, PTL

\* One request at a time, every item that was created for an article and is not
\* the article's was paid for by a failed call or a crash, one each.
THEOREM ItemsPaidFor == MaxConcurrent = 1 => (Spec => []LostItemsNeedFaults)
<1> SUFFICES ASSUME MaxConcurrent = 1 PROVE Spec => []LostItemsNeedFaults
  OBVIOUS
<1>1. ASSUME IInv, SerialInv PROVE LostItemsNeedFaults
  <2>1. LostItems \subseteq Strays
    <3> SUFFICES ASSUME NEW k \in LostItems PROVE k \in Strays
      OBVIOUS
    <3>1. /\ k \in KbIds /\ items[k].by # NIL /\ article[items[k].by].kb # k
          /\ ~InHand(items[k].by)
      BY DEF LostItems
    <3>2. ~Publishing(k)
      BY <1>1, <3>1 DEF Publishing, InHand, SerialInv, HeldOK
    <3> QED BY <3>1, <3>2 DEF Strays
  <2>2. Paid(Strays) /\ faults \in Nat
    BY <1>1 DEF SerialInv, SerialTables, IInv, TypeOK
  <2>3. /\ Cardinality(LostItems) <= Cardinality(Strays)
        /\ Cardinality(LostItems) \in Nat /\ Cardinality(Strays) \in Nat
    BY <2>1, <2>2, FS_Subset, FS_CardinalityType DEF Paid
  <2> QED BY <2>2, <2>3 DEF Paid, LostItemsNeedFaults
<1>2. IInv /\ SerialInv => LostItemsNeedFaults
  BY <1>1
<1> QED
  BY <1>2, SerialInvariance, PTL

\* One request at a time, a published article whose item misses the link to a
\* ticket it answers was paid for by a failed call or a crash, one each.
THEOREM LinksPaidFor == MaxConcurrent = 1 => (Spec => []MissingLinksNeedFaults)
<1> SUFFICES ASSUME MaxConcurrent = 1 PROVE Spec => []MissingLinksNeedFaults
  OBVIOUS
<1>1. SerialInv => MissingLinksNeedFaults
  BY DEF SerialInv, SerialTables, Paid, MissingLinksNeedFaults
<1> QED
  BY <1>1, SerialInvariance, PTL

\* One request at a time, the search knows a pushed article by its present text
\* once the request is over, but for one article per failed indexing or crash.
THEOREM IndexPaidFor == MaxConcurrent = 1 => (Spec => []PushedIndexFresh)
<1> SUFFICES ASSUME MaxConcurrent = 1 PROVE Spec => []PushedIndexFresh
  OBVIOUS
<1>1. ASSUME IInv, SerialInv PROVE PushedIndexFresh
  <2> DEFINE S == {a \in ArticleIds : /\ article[a].status = "PUSHED"
                                      /\ chunks[a] # article[a].text
                                      /\ ~InHand(a)}
  <2>1. S \subseteq Stale
    BY DEF Stale, Reindexing, InHand
  <2>2. Paid(Stale) /\ faults \in Nat
    BY <1>1 DEF SerialInv, SerialTables, IInv, TypeOK
  <2>3. /\ Cardinality(S) <= Cardinality(Stale)
        /\ Cardinality(S) \in Nat /\ Cardinality(Stale) \in Nat
    BY <2>1, <2>2, FS_Subset, FS_CardinalityType DEF Paid
  <2>4. Cardinality(S) <= faults
    BY <2>2, <2>3 DEF Paid
  <2> QED BY <2>4 DEF PushedIndexFresh
<1>2. IInv /\ SerialInv => PushedIndexFresh
  BY <1>1
<1> QED
  BY <1>2, SerialInvariance, PTL
=============================================================================
