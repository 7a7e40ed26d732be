---------------------------- MODULE IndexerProofs ----------------------------
(* Proofs about Indexer, for any articles, texts and number of calls at once. *)
EXTENDS Indexer, FiniteSetTheorems, TLAPS

USE NilAssumption

-----------------------------------------------------------------------------
(* The inductive invariant.  Whoever commits has deleted every row there is: *)
(* a call that would leave rows of another one behind fails on its INSERT.   *)

IsSession(s) == DOMAIN s = {"pc", "art", "text", "old", "vecs", "attempts", "dead"}

SessOK(s) ==
    /\ IsSession(s)
    /\ s.pc \in Pc
    /\ s.pc = "idle" => s = Idle
    /\ s.pc # "idle" => s.art \in ArticleIds /\ s.text \in Texts
    /\ s.pc \in {"deleting", "insert"} => s.dead \in {{}, chunk[s.art]}
    /\ s.pc = "commit" => s.dead = chunk[s.art]

\* A chunk set is whole: that of a text, or empty.
Pairs(rows) == {<<r.idx, r.content>> : r \in rows}
Whole(rows) == \E t \in Texts \cup {<<>>} : Pairs(rows) = RowsOf(t)

IInv ==
    /\ text \in [ArticleIds -> Texts]
    /\ chunk = [a \in ArticleIds |-> chunk[a]]
    /\ sess = [p \in Sessions |-> sess[p]]
    /\ \A a \in ArticleIds : Whole(chunk[a])
    /\ \A p \in Sessions : SessOK(sess[p])
    /\ \A p, q \in Sessions :
          sess[p].pc = "commit" /\ sess[q].pc = "commit" /\ sess[p].art = sess[q].art
             => p = q

-----------------------------------------------------------------------------
(* Lemmas about texts and rows *)

\* A text is never empty, and its chunks say which one it is.
LEMMA TextFacts ==
    /\ \A t \in Texts : t \in Seq(Contents) /\ t # <<>> /\ 1 \in DOMAIN t
    /\ \A t \in Texts : RowsOf(t) # {}
    /\ \A t, u \in Texts : RowsOf(t) = RowsOf(u) => t = u
<1>1. \A t \in Texts : t \in Seq(Contents) /\ t # <<>> /\ 1 \in DOMAIN t
  BY TextAssumption
<1>2. \A t \in Texts : RowsOf(t) # {}
  BY <1>1 DEF RowsOf
<1>3. ASSUME NEW t \in Texts, NEW u \in Texts, RowsOf(t) = RowsOf(u)
      PROVE  t = u
  <2>1. ASSUME NEW i \in DOMAIN t PROVE i \in DOMAIN u /\ u[i] = t[i]
    <3>1. <<i, t[i]>> \in RowsOf(u)
      BY <1>3 DEF RowsOf
    <3>2. PICK k \in DOMAIN u : <<i, t[i]>> = <<k, u[k]>>
      BY <3>1 DEF RowsOf
    <3> QED BY <3>2
  <2>2. ASSUME NEW i \in DOMAIN u PROVE i \in DOMAIN t
    <3>1. <<i, u[i]>> \in RowsOf(t)
      BY <1>3 DEF RowsOf
    <3>2. PICK k \in DOMAIN t : <<i, u[i]>> = <<k, t[k]>>
      BY <3>1 DEF RowsOf
    <3> QED BY <3>2
  <2>3. DOMAIN t = DOMAIN u
    BY <2>1, <2>2
  <2>4. t = [i \in DOMAIN t |-> t[i]] /\ u = [i \in DOMAIN u |-> u[i]]
    BY <1>1
  <2> QED BY <2>1, <2>3, <2>4
<1> QED
  BY <1>1, <1>2, <1>3

\* A chunk set that is not empty has a row with the first index.
LEMMA WholeHasFirst ==
    ASSUME NEW rows, Whole(rows), rows # {}
    PROVE  \E r \in rows : r.idx = 1
<1>1. PICK t \in Texts \cup {<<>>} : Pairs(rows) = RowsOf(t)
  BY DEF Whole
<1>2. Pairs(rows) # {}
  BY DEF Pairs
<1>3. t # <<>>
  BY <1>1, <1>2 DEF RowsOf
<1>4. <<1, t[1]>> \in Pairs(rows)
  BY <1>1, <1>3, TextFacts DEF RowsOf
<1> QED
  BY <1>4 DEF Pairs

\* The new rows are the chunks of the text the call was given.
LEMMA NewRowsWhole ==
    ASSUME NEW s, s.text \in Texts
    PROVE  Pairs(NewRows(s)) = RowsOf(s.text) /\ Whole(NewRows(s))
<1> DEFINE row(i) == [idx |-> i, content |-> s.text[i], vec |-> Vector(s, i)]
<1>1. Pairs(NewRows(s)) = RowsOf(s.text)
  <2>1. Pairs(NewRows(s)) = {<<row(i).idx, row(i).content>> : i \in DOMAIN s.text}
    <3> HIDE DEF row
    <3>1. NewRows(s) = {row(i) : i \in DOMAIN s.text}
      BY DEF NewRows, row
    <3> QED BY <3>1 DEF Pairs
  <2>2. \A i : row(i).idx = i /\ row(i).content = s.text[i]
    OBVIOUS
  <2> HIDE DEF row
  <2> QED BY <2>1, <2>2 DEF RowsOf
<1> QED
  BY <1>1 DEF Whole

-----------------------------------------------------------------------------

\* A step of one call leaves the records of the others alone.
LEMMA PutFrame ==
    ASSUME IInv, NEW p \in Sessions, NEW s, Put(p, s)
    PROVE  /\ sess'[p] = s
           /\ \A q \in Sessions \ {p} : sess'[q] = sess[q]
           /\ sess' = [q \in Sessions |-> sess'[q]]
BY DEF IInv, Put

\* A call that has not begun is right.
LEMMA IdleOK == SessOK(Idle)
BY DEF SessOK, IsSession, Idle, Pc

\* A step that touches no row keeps the invariant if the call that takes it
\* stays right and does not reach its commit beside another one.
LEMMA PutKeeps ==
    ASSUME IInv, UNCHANGED chunk, text' \in [ArticleIds -> Texts],
           NEW p \in Sessions, NEW s, Put(p, s), SessOK(s),
           s.pc = "commit" => \A q \in Sessions \ {p} :
                                 sess[q].art = s.art => sess[q].pc # "commit"
    PROVE  IInv'
<1>1. /\ sess'[p] = s
      /\ \A q \in Sessions \ {p} : sess'[q] = sess[q]
      /\ sess' = [q \in Sessions |-> sess'[q]]
  BY PutFrame
<1>2. \A q \in Sessions : SessOK(sess[q])'
  BY <1>1 DEF IInv, SessOK
<1>3. \A a \in ArticleIds : Whole(chunk[a])'
  BY DEF IInv, Whole
<1> QED
  BY <1>1, <1>2, <1>3 DEF IInv

\* The empty tables satisfy the inductive invariant.
LEMMA InvInit == Init => IInv
<1> SUFFICES ASSUME Init PROVE IInv
  OBVIOUS
<1>1. Whole({})
  BY DEF Whole, Pairs, RowsOf
<1>2. \A p \in Sessions : SessOK(sess[p]) /\ sess[p].pc # "commit"
  BY IdleOK DEF Init, Idle
<1> QED
  BY <1>1, <1>2 DEF Init, IInv

\* The commit replaces every row, and leaves the others nothing to delete.
LEMMA CommitStep ==
    ASSUME IInv, NEW p \in Sessions, CommitChunks(p)
    PROVE  /\ IInv'
           /\ chunk'[sess[p].art] = NewRows(sess[p])
           /\ \A b \in ArticleIds \ {sess[p].art} : chunk'[b] = chunk[b]
           /\ sess'[p] = Idle
           /\ \A q \in Sessions \ {p} :
                 /\ sess'[q].pc = sess[q].pc
                 /\ sess'[q].art = sess[q].art
                 /\ sess'[q].text = sess[q].text
<1>. PICK s : s = sess[p]
  OBVIOUS
<1>. PICK a \in ArticleIds : a = s.art
  BY DEF CommitChunks, IInv, SessOK
<1>1. /\ s.pc = "commit" /\ SessOK(s) /\ s.dead = chunk[a] /\ s.text \in Texts
      /\ text' = text
  BY DEF CommitChunks, IInv, SessOK
<1>2. /\ chunk' = [b \in ArticleIds |-> chunk'[b]]
      /\ chunk'[a] = NewRows(s)
      /\ \A b \in ArticleIds \ {a} : chunk'[b] = chunk[b]
  BY <1>1 DEF CommitChunks, IInv
<1>3. /\ sess' = [q \in Sessions |-> sess'[q]]
      /\ sess'[p] = Idle
      /\ \A q \in Sessions \ {p} :
            sess'[q] = IF sess[q].art = a THEN [sess[q] EXCEPT !.dead = @ \ s.dead]
                       ELSE sess[q]
  BY DEF CommitChunks, IInv
<1>4. ASSUME NEW q \in Sessions \ {p}
      PROVE  /\ sess'[q].pc = sess[q].pc /\ sess'[q].art = sess[q].art
             /\ sess'[q].text = sess[q].text
             /\ SessOK(sess[q])'
  <2>1. SessOK(sess[q])
    BY DEF IInv
  <2>2. CASE sess[q].art = a
    <3>1. sess'[q] = [sess[q] EXCEPT !.dead = @ \ s.dead]
      BY <1>3, <2>2
    <3>2. /\ IsSession(sess'[q])
          /\ sess'[q].pc = sess[q].pc /\ sess'[q].art = sess[q].art
          /\ sess'[q].text = sess[q].text
          /\ sess'[q].dead = sess[q].dead \ s.dead
      BY <2>1, <3>1 DEF SessOK, IsSession
    <3>3. sess[q].pc # "commit" /\ sess[q].pc # "idle"
      BY <1>1, <2>1, <2>2 DEF IInv, SessOK, Idle
    <3>4. sess[q].pc \in {"deleting", "insert"} => sess'[q].dead = {}
      BY <1>1, <2>1, <2>2, <3>2 DEF SessOK
    <3> QED BY <2>1, <3>2, <3>3, <3>4 DEF SessOK, IsSession
  <2>3. CASE sess[q].art # a
    <3>1. sess'[q] = sess[q]
      BY <1>3, <2>3
    <3> QED BY <1>2, <2>1, <2>3, <3>1 DEF SessOK, IsSession
  <2> QED BY <2>2, <2>3
<1>5. SessOK(sess[p])'
  BY <1>3, IdleOK DEF SessOK, IsSession, Idle
<1>6. ASSUME NEW b \in ArticleIds PROVE Whole(chunk'[b])
  BY <1>1, <1>2, NewRowsWhole DEF IInv
<1>7. IInv'
  <2>1. \A b \in ArticleIds : Whole(chunk[b])'
    BY <1>6 DEF Whole
  <2>2. \A q \in Sessions : SessOK(sess[q])'
    BY <1>4, <1>5
  <2>3. text' \in [ArticleIds -> Texts]
    BY <1>1 DEF IInv
  <2>4. sess'[p].pc # "commit"
    BY <1>3 DEF Idle
  <2> QED BY <1>2, <1>3, <1>4, <2>1, <2>2, <2>3, <2>4 DEF IInv
<1> QED
  BY <1>2, <1>3, <1>4, <1>7

\* The inductive invariant survives every step: one case per action.
LEMMA InvStep == IInv /\ [Next]_vars => IInv'
<1> SUFFICES ASSUME IInv, [Next]_vars PROVE IInv'
  OBVIOUS
<1>0. /\ \A p \in Sessions : SessOK(sess[p])
      /\ text \in [ArticleIds -> Texts]
  BY DEF IInv
\* What the handler of a call does between two awaits, its article and text kept.
<1>1. ASSUME NEW p \in Sessions, NEW s, Put(p, s), UNCHANGED <<text, chunk>>,
             IsSession(s), s.pc \in {"select", "embed", "delete"},
             s.art \in ArticleIds, s.text \in Texts
      PROVE  IInv'
  BY <1>0, <1>1, PutKeeps DEF SessOK, Pc
<1>2. ASSUME NEW p \in Sessions, Put(p, Idle), UNCHANGED <<text, chunk>> PROVE IInv'
  BY <1>0, <1>2, PutKeeps, IdleOK DEF Idle
<1>3. ASSUME NEW p \in Sessions, NEW a \in ArticleIds, Begin(p, a) PROVE IInv'
  <2> DEFINE s == [Idle EXCEPT !.pc = "select", !.art = a, !.text = text[a]]
  <2>1. IsSession(s) /\ s.pc = "select" /\ s.art = a /\ s.text = text[a]
    <3>1. IsSession(Idle)
      BY IdleOK DEF SessOK
    <3> QED BY <3>1 DEF IsSession
  <2> QED BY <1>0, <1>1, <1>3, <2>1 DEF Begin
<1>4. ASSUME NEW p \in Sessions, SelectExisting(p) PROVE IInv'
  <2>1. SessOK(sess[p]) /\ sess[p].pc = "select"
    BY <1>0, <1>4 DEF SelectExisting
  <2> DEFINE r == [sess[p] EXCEPT !.old = chunk[sess[p].art]]
             s == [r EXCEPT !.pc = IF ToEmbed(r) = <<>> THEN "delete" ELSE "embed"]
  <2>2. /\ IsSession(s) /\ s.pc \in {"delete", "embed"}
        /\ s.art = sess[p].art /\ s.text = sess[p].text
    <3>1. IsSession(r) /\ r.art = sess[p].art /\ r.text = sess[p].text
      BY <2>1 DEF SessOK, IsSession
    <3> HIDE DEF r
    <3> QED BY <3>1 DEF IsSession
  <2>3. Put(p, s) /\ UNCHANGED <<text, chunk>>
    BY <1>4 DEF SelectExisting
  <2> HIDE DEF s
  <2> QED BY <1>1, <2>1, <2>2, <2>3 DEF SessOK
<1>5. ASSUME NEW p \in Sessions, EmbedBatch(p) PROVE IInv'
  <2>1. SessOK(sess[p]) /\ sess[p].pc = "embed"
    BY <1>0, <1>5 DEF EmbedBatch
  <2>2. PICK v, c : c \in {"delete", "embed"} /\
           Put(p, [sess[p] EXCEPT !.vecs = v, !.attempts = 0, !.pc = c])
    BY <1>5 DEF EmbedBatch
  <2> DEFINE s == [sess[p] EXCEPT !.vecs = v, !.attempts = 0, !.pc = c]
  <2>3. /\ IsSession(s) /\ s.pc \in {"delete", "embed"}
        /\ s.art = sess[p].art /\ s.text = sess[p].text
    <3>1. IsSession(sess[p])
      BY <2>1 DEF SessOK
    <3> QED BY <2>2, <3>1 DEF IsSession
  <2> HIDE DEF s
  <2> QED BY <1>1, <1>5, <2>1, <2>2, <2>3 DEF SessOK, EmbedBatch, s
<1>6. ASSUME NEW p \in Sessions, EmbedFails(p) PROVE IInv'
  <2>1. SessOK(sess[p]) /\ sess[p].pc = "embed" /\ UNCHANGED <<text, chunk>>
    BY <1>0, <1>6 DEF EmbedFails
  <2> DEFINE s == [sess[p] EXCEPT !.attempts = @ + 1]
  <2>2. IsSession(s) /\ s.pc = "embed" /\ s.art = sess[p].art /\ s.text = sess[p].text
    BY <2>1 DEF SessOK, IsSession
  <2>3. Put(p, Idle) \/ Put(p, s)
    BY <1>6 DEF EmbedFails
  <2> HIDE DEF s
  <2> QED BY <1>1, <1>2, <2>1, <2>2, <2>3 DEF SessOK
\* The DELETE, the INSERT and the end of the transaction.
<1>7. ASSUME NEW p \in Sessions, StartDelete(p) PROVE IInv'
  <2>1. SessOK(sess[p]) /\ sess[p].pc = "delete" /\ UNCHANGED <<text, chunk>>
    BY <1>0, <1>7 DEF StartDelete
  <2> DEFINE s == [sess[p] EXCEPT !.pc = "deleting", !.dead = chunk[sess[p].art]]
  <2>2. /\ IsSession(s) /\ s.pc = "deleting" /\ s.art = sess[p].art
        /\ s.text = sess[p].text /\ s.dead = chunk[s.art]
    <3>1. IsSession(sess[p])
      BY <2>1 DEF SessOK
    <3> QED BY <3>1 DEF IsSession
  <2>3. Put(p, s)
    BY <1>7 DEF StartDelete
  <2> HIDE DEF s
  <2> QED BY <1>0, <2>1, <2>2, <2>3, PutKeeps DEF SessOK, Pc
<1>8. ASSUME NEW p \in Sessions, FinishDelete(p) PROVE IInv'
  <2>1. SessOK(sess[p]) /\ sess[p].pc = "deleting" /\ UNCHANGED <<text, chunk>>
    BY <1>0, <1>8 DEF FinishDelete
  <2> DEFINE s == [sess[p] EXCEPT !.pc = "insert"]
  <2>2. /\ IsSession(s) /\ s.pc = "insert" /\ s.art = sess[p].art
        /\ s.text = sess[p].text /\ s.dead = sess[p].dead
    BY <2>1 DEF SessOK, IsSession
  <2>3. Put(p, s)
    BY <1>8 DEF FinishDelete
  <2> HIDE DEF s
  <2> QED BY <1>0, <2>1, <2>2, <2>3, PutKeeps DEF SessOK, Pc
<1>9. ASSUME NEW p \in Sessions, InsertChunks(p) PROVE IInv'
  <2>1. SessOK(sess[p]) /\ sess[p].pc = "insert" /\ UNCHANGED <<text, chunk>>
    BY <1>0, <1>9 DEF InsertChunks
  <2> DEFINE s == [sess[p] EXCEPT !.pc = "commit"]
  <2>2. /\ IsSession(s) /\ s.pc = "commit" /\ s.art = sess[p].art
        /\ s.text = sess[p].text /\ s.dead = sess[p].dead
    BY <2>1 DEF SessOK, IsSession
  <2>3. ASSUME Clash(p) = {}, \A q \in Others(p) : sess[q].pc # "commit", Put(p, s)
        PROVE  IInv'
    \* A row that is left has a first one beside it, which clashes.
    <3>1. s.dead = chunk[s.art]
      <4>1. CASE sess[p].dead = {} /\ chunk[sess[p].art] # {}
        <5>1. PICK r \in chunk[sess[p].art] : r.idx = 1
          BY <2>1, <4>1, WholeHasFirst DEF IInv, SessOK
        <5>2. r \in Clash(p)
          BY <2>1, <4>1, <5>1, TextFacts DEF Clash, SessOK
        <5> QED BY <2>3, <5>2
      <4> QED BY <2>1, <2>2, <4>1 DEF SessOK
    <3>2. \A q \in Sessions \ {p} : sess[q].art = s.art => sess[q].pc # "commit"
      BY <2>2, <2>3 DEF Others
    <3>3. SessOK(s)
      BY <2>1, <2>2, <3>1 DEF SessOK, Pc
    <3> HIDE DEF s
    <3> QED BY <1>0, <2>1, <2>3, <3>2, <3>3, PutKeeps
  <2> QED BY <1>2, <1>9, <2>1, <2>3 DEF InsertChunks
<1>10. CASE Crash
  <2>1. UNCHANGED <<text, chunk>> /\ sess' = [p \in Sessions |-> Idle]
    BY <1>10 DEF Crash
  <2>2. \A p \in Sessions : sess'[p] = Idle /\ sess'[p].pc # "commit"
    BY <2>1 DEF Idle
  <2>3. \A p \in Sessions : SessOK(sess[p])'
    BY <2>2, IdleOK DEF SessOK, IsSession, Idle
  <2> QED BY <2>1, <2>2, <2>3 DEF IInv, Whole
<1>11. ASSUME NEW a \in ArticleIds, NEW t \in Texts, EditArticle(a, t) PROVE IInv'
  BY <1>0, <1>11 DEF EditArticle, IInv, SessOK, Whole
<1>12. CASE UNCHANGED vars
  BY <1>12 DEF vars, IInv, SessOK, Whole
<1> QED
  BY <1>3, <1>4, <1>5, <1>6, <1>7, <1>8, <1>9, <1>10, <1>11, <1>12, CommitStep
     DEF Next, Step

\* The inductive invariant holds in every reachable state.
LEMMA Invariance == Spec => []IInv
BY InvInit, InvStep, PTL DEF Spec

-----------------------------------------------------------------------------
(* The refinement *)

Handed == [p \in Sessions |->
             IF sess[p].pc = "idle" THEN NIL
             ELSE [art |-> sess[p].art, text |-> sess[p].text]]
Indexed == [a \in ArticleIds |-> IndexedText(a)]

\* With no article indexed the two specifications begin alike.
LEMMA RefineInit == Init => Atomic!Init
<1> SUFFICES ASSUME Init PROVE Atomic!Init
  OBVIOUS
<1>1. \A a \in ArticleIds : IndexedText(a) = NIL
  BY DEF Init, IndexedText
<1>2. \A p \in Sessions : sess[p].pc = "idle"
  BY DEF Init, Idle
<1> QED
  BY <1>1, <1>2 DEF Init, Atomic!Init

\* What the steps that touch no row do to the calls.
LEMMA CallsFrame ==
    ASSUME IInv, NEW p \in Sessions, NEW s, Put(p, s)
    PROVE  Handed' = [Handed EXCEPT ![p] =
                        IF s.pc = "idle" THEN NIL ELSE [art |-> s.art, text |-> s.text]]
<1>1. sess'[p] = s /\ \A q \in Sessions \ {p} : sess'[q] = sess[q]
  BY PutFrame
<1> QED
  BY <1>1 DEF Handed

\* A commit is the replacement of AtomicIndex, every other step one of its stutters
\* or the hand-over of a text.
LEMMA RefineStep ==
    ASSUME IInv, [Next]_vars
    PROVE  [Atomic!Next]_<<text, Handed, Indexed>>
<1>0. /\ \A p \in Sessions : SessOK(sess[p])
      /\ text \in [ArticleIds -> Texts]
  BY DEF IInv
<1>1. UNCHANGED chunk => UNCHANGED Indexed
  BY DEF Indexed, IndexedText
<1>2. ASSUME NEW p \in Sessions, sess[p].pc # "idle"
      PROVE  Handed[p] = [art |-> sess[p].art, text |-> sess[p].text] /\ Handed[p] # NIL
  BY <1>0, <1>2 DEF Handed, SessOK
\* A step within a call changes nothing; one that ends it without a commit is
\* a failure.
<1>3. ASSUME NEW p \in Sessions, NEW s, Put(p, s), UNCHANGED <<text, chunk>>,
             sess[p].pc # "idle", s.pc # "idle",
             s.art = sess[p].art, s.text = sess[p].text
      PROVE  UNCHANGED <<text, Handed, Indexed>>
  <2>1. Handed' = [Handed EXCEPT ![p] = [art |-> s.art, text |-> s.text]]
    BY <1>3, CallsFrame
  <2>2. Handed' = Handed
    BY <1>2, <1>3, <2>1 DEF Handed
  <2> QED BY <1>1, <1>3, <2>2
<1>4. ASSUME NEW p \in Sessions, Put(p, Idle), UNCHANGED <<text, chunk>>,
             sess[p].pc # "idle"
      PROVE  Atomic!Next
  <2>1. Handed' = [Handed EXCEPT ![p] = NIL]
    BY <1>4, CallsFrame DEF Idle
  <2>2. Atomic!Fail(p)
    BY <1>1, <1>2, <1>4, <2>1 DEF Atomic!Fail, Handed, Indexed
  <2> QED BY <2>2 DEF Atomic!Next
<1>5. ASSUME NEW p \in Sessions, NEW a \in ArticleIds, Begin(p, a)
      PROVE  Atomic!Next
  <2> DEFINE s == [Idle EXCEPT !.pc = "select", !.art = a, !.text = text[a]]
  <2>1. s.pc = "select" /\ s.art = a /\ s.text = text[a]
    BY DEF Idle
  <2>2. Put(p, s) /\ UNCHANGED <<text, chunk>> /\ Handed[p] = NIL
    BY <1>5 DEF Begin, Handed
  <2> HIDE DEF s
  <2>3. Handed' = [Handed EXCEPT ![p] = [art |-> a, text |-> text[a]]]
    BY <2>1, <2>2, CallsFrame
  <2>4. Atomic!Begin(p, a)
    BY <1>1, <2>2, <2>3 DEF Atomic!Begin, Handed, Indexed
  <2> QED BY <2>4 DEF Atomic!Next
<1>6. ASSUME NEW p \in Sessions, CommitChunks(p) PROVE Atomic!Next
  <2>. PICK a \in ArticleIds : a = sess[p].art
    BY <1>0, <1>6 DEF CommitChunks, SessOK
  <2>. PICK t \in Texts : t = sess[p].text
    BY <1>0, <1>6 DEF CommitChunks, SessOK
  <2>1. /\ chunk'[a] = NewRows(sess[p])
        /\ \A b \in ArticleIds \ {a} : chunk'[b] = chunk[b]
        /\ sess'[p].pc = "idle"
        /\ \A q \in Sessions \ {p} :
              /\ sess'[q].pc = sess[q].pc
              /\ sess'[q].art = sess[q].art
              /\ sess'[q].text = sess[q].text
        /\ text' = text /\ sess[p].pc # "idle"
    BY <1>6, CommitStep DEF CommitChunks, Idle
  <2>2. Handed' = [Handed EXCEPT ![p] = NIL]
    BY <2>1 DEF Handed
  <2>3. Indexed' = [Indexed EXCEPT ![a] = t]
    <3>1. Pairs(chunk[a])' = RowsOf(t)
      BY <2>1, NewRowsWhole DEF Pairs
    <3>2. IndexedText(a)' = t
      <4>1. (CHOOSE u \in Texts : RowsOf(u) = RowsOf(t)) = t /\ RowsOf(t) # {}
        BY TextFacts
      <4> QED BY <3>1, <4>1 DEF IndexedText, Pairs
    <3>3. \A b \in ArticleIds \ {a} : IndexedText(b)' = IndexedText(b)
      BY <2>1 DEF IndexedText
    <3> QED BY <3>2, <3>3 DEF Indexed
  <2>4. Handed[p] = [art |-> a, text |-> t] /\ Handed[p] # NIL
    BY <1>2, <2>1
  <2>5. Atomic!Replace(p)
    BY <2>1, <2>2, <2>3, <2>4 DEF Atomic!Replace, Handed, Indexed
  <2> QED BY <2>5 DEF Atomic!Next
<1>7. CASE Crash
  <2>1. UNCHANGED <<text, chunk>> /\ \A p \in Sessions : sess'[p].pc = "idle"
    BY <1>7 DEF Crash, Idle
  <2>2. Atomic!Crash
    BY <1>1, <2>1 DEF Atomic!Crash, Indexed
  <2> QED BY <2>2 DEF Atomic!Next
<1>8. ASSUME NEW a \in ArticleIds, NEW t \in Texts, EditArticle(a, t)
      PROVE  Atomic!Next
  <2>1. Atomic!Edit(a, t)
    BY <1>1, <1>8 DEF EditArticle, Atomic!Edit, Indexed
  <2> QED BY <2>1 DEF Atomic!Next
<1>9. ASSUME NEW p \in Sessions, Step(p), ~CommitChunks(p)
      PROVE  Atomic!Next \/ UNCHANGED <<text, Handed, Indexed>>
  <2>1. IsSession(sess[p])
    BY <1>0 DEF SessOK
  <2>2. sess[p].pc # "idle" /\ UNCHANGED <<text, chunk>>
    BY <1>9 DEF Step, SelectExisting, EmbedBatch, EmbedFails, StartDelete,
       FinishDelete, InsertChunks
  <2>3. Put(p, Idle) \/ \E s : /\ Put(p, s) /\ s.pc # "idle"
                               /\ s.art = sess[p].art /\ s.text = sess[p].text
    <3>1. CASE SelectExisting(p)
      <4> DEFINE r == [sess[p] EXCEPT !.old = chunk[sess[p].art]]
                 s == [r EXCEPT !.pc = IF ToEmbed(r) = <<>> THEN "delete" ELSE "embed"]
      <4>1. IsSession(r) /\ r.art = sess[p].art /\ r.text = sess[p].text
        BY <2>1 DEF IsSession
      <4>2. Put(p, s)
        BY <3>1 DEF SelectExisting
      <4> HIDE DEF r
      <4>3. s.pc # "idle" /\ s.art = sess[p].art /\ s.text = sess[p].text
        BY <4>1 DEF IsSession
      <4> HIDE DEF s
      <4> QED BY <4>2, <4>3
    <3>2. CASE EmbedBatch(p)
      <4>1. PICK v, c : c \in {"delete", "embed"} /\
               Put(p, [sess[p] EXCEPT !.vecs = v, !.attempts = 0, !.pc = c])
        BY <3>2 DEF EmbedBatch
      <4> DEFINE s == [sess[p] EXCEPT !.vecs = v, !.attempts = 0, !.pc = c]
      <4>2. s.pc # "idle" /\ s.art = sess[p].art /\ s.text = sess[p].text
        BY <2>1, <4>1 DEF IsSession
      <4>3. Put(p, s)
        BY <4>1
      <4> HIDE DEF s
      <4> QED BY <4>2, <4>3
    <3>3. CASE EmbedFails(p)
      BY <2>1, <2>2, <3>3 DEF EmbedFails, IsSession
    <3>4. CASE StartDelete(p)
      <4> DEFINE s == [sess[p] EXCEPT !.pc = "deleting", !.dead = chunk[sess[p].art]]
      <4>1. Put(p, s) /\ s.pc # "idle" /\ s.art = sess[p].art /\ s.text = sess[p].text
        BY <2>1, <3>4 DEF StartDelete, IsSession
      <4> HIDE DEF s
      <4> QED BY <4>1
    <3>5. CASE FinishDelete(p)
      BY <2>1, <3>5 DEF FinishDelete, IsSession
    <3>6. CASE InsertChunks(p)
      BY <2>1, <3>6 DEF InsertChunks, IsSession
    <3> QED BY <1>9, <3>1, <3>2, <3>3, <3>4, <3>5, <3>6 DEF Step
  <2> QED BY <1>3, <1>4, <2>2, <2>3
<1>10. UNCHANGED vars => UNCHANGED <<text, Handed, Indexed>>
  BY DEF vars, Handed, Indexed, IndexedText
<1> QED
  BY <1>5, <1>6, <1>7, <1>8, <1>9, <1>10 DEF Next

-----------------------------------------------------------------------------
(* The vectors.  A call has the vectors of the first chunks that are new, in  *)
(* their order; once it has them all, and the vectors of its old rows, every  *)
(* chunk finds its own.                                                       *)

\* How many elements of S come before i.
Rank(S, i) == Cardinality({k \in S : k < i})

\* The elements of a finite set of numbers have ranks, from 1 to their number.
LEMMA Ranks ==
    ASSUME NEW S, S \subseteq Nat, IsFiniteSet(S)
    PROVE  /\ Cardinality(S) \in Nat
           /\ \A i, j \in S : Rank(S, i) = Rank(S, j)
                                => i = j
           /\ \A i \in S : Rank(S, i) \in 0 .. Cardinality(S) - 1
           /\ \A n \in 1 .. Cardinality(S) :
                 \E i \in S : Rank(S, i) = n - 1
<1> DEFINE n == Cardinality(S)
           below(i) == {k \in S : k < i}
           rank == [i \in S |-> Cardinality(below(i)) + 1]
<1>1. n \in Nat
  BY FS_CardinalityType
<1>2. ASSUME NEW i \in S
      PROVE  /\ IsFiniteSet(below(i)) /\ Cardinality(below(i)) \in Nat
             /\ Cardinality(below(i)) < n
  <2>1. /\ below(i) \subseteq S /\ i \in S /\ i \notin below(i)
    OBVIOUS
  <2> HIDE DEF below
  <2>2. IsFiniteSet(below(i)) /\ Cardinality(below(i)) <= n /\ Cardinality(below(i)) # n
    BY <2>1, FS_Subset
  <2>3. Cardinality(below(i)) \in Nat
    BY <2>2, FS_CardinalityType
  <2> QED BY <1>1, <2>2, <2>3
<1>3. ASSUME NEW i \in S, NEW j \in S, i < j
      PROVE  Cardinality(below(i)) < Cardinality(below(j))
  <2>1. below(i) \subseteq below(j) /\ i \in below(j) /\ i \notin below(i)
    BY <1>3
  <2> HIDE DEF below
  <2>2. /\ Cardinality(below(i)) <= Cardinality(below(j))
        /\ Cardinality(below(i)) # Cardinality(below(j))
    BY <1>2, <2>1, FS_Subset
  <2>3. Cardinality(below(i)) \in Nat /\ Cardinality(below(j)) \in Nat
    BY <1>2
  <2> QED BY <2>2, <2>3
<1>4. ASSUME NEW i \in S, NEW j \in S, Cardinality(below(i)) = Cardinality(below(j))
      PROVE  i = j
  <2>1. Cardinality(below(i)) \in Nat /\ Cardinality(below(j)) \in Nat
    BY <1>2
  <2>2. i \in Nat /\ j \in Nat
    OBVIOUS
  <2>3. ~(i < j) /\ ~(j < i)
    <3> HIDE DEF below
    <3> QED BY <1>3, <1>4, <2>1
  <2> HIDE DEF below
  <2> QED BY <2>2, <2>3
<1>5. rank \in Injection(S, 1 .. n)
  <2>1. \A i \in S : rank[i] = Cardinality(below(i)) + 1
    OBVIOUS
  <2>2. \A i \in S : Cardinality(below(i)) + 1 \in 1 .. n
    <3> HIDE DEF below
    <3> QED BY <1>1, <1>2
  <2>3. rank \in [S -> 1 .. n]
    <3> HIDE DEF below
    <3> QED BY <2>2
  <2>4. ASSUME NEW i \in S, NEW j \in S, rank[i] = rank[j] PROVE i = j
    <3>1. Cardinality(below(i)) \in Nat /\ Cardinality(below(j)) \in Nat
      BY <1>2
    <3>2. Cardinality(below(i)) = Cardinality(below(j))
      <4> HIDE DEF below, rank
      <4> QED BY <2>1, <2>4, <3>1
    <3> QED BY <1>4, <3>2
  <2> HIDE DEF rank
  <2> QED BY <2>3, <2>4 DEF Injection, IsInjective
<1>6. IsFiniteSet(1 .. n) /\ Cardinality(1 .. n) = n
  BY <1>1, FS_Interval
<1>7. rank \in Surjection(S, 1 .. n)
  <2> HIDE DEF rank
  <2> QED BY <1>5, <1>6, FS_Injection
<1>8. ASSUME NEW m \in 1 .. n PROVE \E i \in S : Cardinality(below(i)) = m - 1
  <2>1. PICK i \in S : rank[i] = m
    <3> HIDE DEF rank
    <3> QED BY <1>7 DEF Surjection
  <2>2. Cardinality(below(i)) \in Nat /\ Cardinality(below(i)) + 1 = m
    BY <1>2, <2>1
  <2> HIDE DEF below
  <2> QED BY <2>2
<1>9. \A i \in S : Cardinality(below(i)) \in 0 .. n - 1
  <2> HIDE DEF below
  <2> QED BY <1>1, <1>2
<1> QED BY <1>1, <1>4, <1>8, <1>9 DEF Rank

\* The list of the new chunks has each of them, in its place, once.
LEMMA ToEmbedFacts ==
    ASSUME NEW s, s.text \in Seq(Contents)
    PROVE  /\ ToEmbed(s) \in Seq(New(s))
           /\ \A i \in New(s) : \E j \in 1 .. Len(ToEmbed(s)) : ToEmbed(s)[j] = i
           /\ New(s) \subseteq DOMAIN s.text
<1> DEFINE n == Cardinality(New(s))
           rank(i) == Rank(New(s), i)
<1>1. New(s) \subseteq DOMAIN s.text /\ New(s) \subseteq Nat
  BY DEF New
<1>2. IsFiniteSet(New(s))
  <2>1. PICK m \in Nat : DOMAIN s.text = 1 .. m
    OBVIOUS
  <2>2. IsFiniteSet(1 .. m)
    BY FS_Interval
  <2> QED BY <1>1, <2>1, <2>2, FS_Subset
<1>3. /\ n \in Nat
      /\ \A i, j \in New(s) : rank(i) = rank(j) => i = j
      /\ \A i \in New(s) : rank(i) \in 0 .. n - 1
      /\ \A m \in 1 .. n : \E i \in New(s) : rank(i) = m - 1
  BY <1>1, <1>2, Ranks
<1>4. ToEmbed(s) = [j \in 1 .. n |-> CHOOSE i \in New(s) : rank(i) = j - 1]
  BY DEF ToEmbed, Rank
<1> HIDE DEF n, rank
<1>5. \A j \in 1 .. n : ToEmbed(s)[j] \in New(s) /\ rank(ToEmbed(s)[j]) = j - 1
  BY <1>3, <1>4
<1>6. ToEmbed(s) \in Seq(New(s)) /\ Len(ToEmbed(s)) = n
  BY <1>3, <1>4, <1>5
<1>7. ASSUME NEW i \in New(s) PROVE \E j \in 1 .. n : ToEmbed(s)[j] = i
  <2>1. PICK j : j = rank(i) + 1
    OBVIOUS
  <2>2. j \in 1 .. n /\ rank(i) = j - 1
    BY <1>3, <2>1
  <2> QED BY <1>3, <1>5, <2>2
<1> QED BY <1>1, <1>6, <1>7

\* It depends on the text and on the rows that were found, and on nothing else.
LEMMA SameToEmbed ==
    ASSUME NEW s, NEW u, u.text = s.text, u.old = s.old
    PROVE  ToEmbed(u) = ToEmbed(s)
BY DEF ToEmbed, New

Match(rows) == \A r \in rows : r.vec = r.content

\* The vectors a call has are those of the first new chunks, in order.
Prefix(s) ==
    /\ Len(s.vecs) <= Len(ToEmbed(s))
    /\ \A j \in 1 .. Len(s.vecs) : s.vecs[j] = s.text[ToEmbed(s)[j]]

VecOK(s) ==
    /\ Match(s.old)
    /\ s.pc = "select" => s.vecs = <<>>
    /\ s.pc = "embed" => Prefix(s)
    /\ s.pc \in {"delete", "deleting", "insert", "commit"} =>
          Prefix(s) /\ Len(s.vecs) = Len(ToEmbed(s))

VInv ==
    /\ IInv
    /\ TypeOK
    /\ EmbeddingsMatch
    /\ \A p \in Sessions : VecOK(sess[p])

\* A call with all its vectors gives every chunk its own.
LEMMA VectorRight ==
    ASSUME NEW s \in Session, VecOK(s), s.pc = "commit", NEW i \in DOMAIN s.text
    PROVE  Vector(s, i) = s.text[i]
<1>1. /\ s.text \in Seq(Contents) /\ s.vecs \in Seq(Contents)
      /\ Match(s.old) /\ Prefix(s) /\ Len(s.vecs) = Len(ToEmbed(s))
  BY DEF Session, VecOK
<1>2. ToEmbed(s) \in Seq(New(s))
  BY <1>1, ToEmbedFacts
<1>3. CASE \E j \in DOMAIN ToEmbed(s) : ToEmbed(s)[j] = i
  <2> DEFINE k == CHOOSE j \in DOMAIN ToEmbed(s) : ToEmbed(s)[j] = i
  <2>1. k \in DOMAIN ToEmbed(s) /\ ToEmbed(s)[k] = i
    BY <1>3
  <2>2. Vector(s, i) = s.vecs[k]
    BY <1>3 DEF Vector
  <2> HIDE DEF k
  <2>3. k \in 1 .. Len(s.vecs)
    BY <1>1, <1>2, <2>1
  <2> QED BY <1>1, <2>1, <2>2, <2>3 DEF Prefix
<1>4. CASE ~\E j \in DOMAIN ToEmbed(s) : ToEmbed(s)[j] = i
  <2>1. i \notin New(s)
    <3>1. DOMAIN ToEmbed(s) = 1 .. Len(ToEmbed(s))
      BY <1>2
    <3> QED BY <1>1, <1>4, <3>1, ToEmbedFacts
  <2>2. \E r \in s.old : r.content = s.text[i]
    BY <2>1 DEF New
  <2> DEFINE o == CHOOSE r \in s.old : r.content = s.text[i]
  <2>3. o \in s.old /\ o.content = s.text[i]
    BY <2>2
  <2>4. Vector(s, i) = o.vec
    BY <1>4 DEF Vector
  <2> HIDE DEF o
  <2> QED BY <1>1, <2>3, <2>4 DEF Match
<1> QED BY <1>3, <1>4

\* The rows of a commit are rows, each with its own vector.
LEMMA NewRowsMatch ==
    ASSUME NEW s \in Session, VecOK(s), s.pc = "commit"
    PROVE  NewRows(s) \in SUBSET Row /\ Match(NewRows(s))
<1>1. \A i \in DOMAIN s.text : Vector(s, i) = s.text[i]
  BY VectorRight
<1>2. \A i \in DOMAIN s.text : i \in Nat \ {0} /\ s.text[i] \in Contents
  BY DEF Session
<1>3. NewRows(s) = {[idx |-> i, content |-> s.text[i], vec |-> s.text[i]] : i \in DOMAIN s.text}
  BY <1>1 DEF NewRows
<1> QED
  BY <1>2, <1>3 DEF Row, Match

\* A step that touches no row keeps the invariant if its call stays right.
LEMMA VecPutKeeps ==
    ASSUME VInv, IInv', UNCHANGED <<text, chunk>>,
           NEW p \in Sessions, NEW s \in Session, Put(p, s), VecOK(s)
    PROVE  VInv'
<1>1. /\ sess'[p] = s
      /\ \A q \in Sessions \ {p} : sess'[q] = sess[q]
      /\ sess' = [q \in Sessions |-> sess'[q]]
  BY PutFrame DEF VInv
<1>2. sess' \in [Sessions -> Session]
  BY <1>1 DEF VInv, TypeOK
<1>3. \A q \in Sessions : VecOK(sess[q])'
  <2>1. ASSUME NEW q \in Sessions PROVE VecOK(sess'[q])
    BY <1>1 DEF VInv
  <2> QED BY <2>1 DEF VecOK, Prefix, ToEmbed, New, Match
<1>4. EmbeddingsMatch'
  BY DEF VInv, EmbeddingsMatch
<1> QED
  BY <1>2, <1>3, <1>4 DEF VInv, TypeOK

LEMMA VecIdle == Idle \in Session /\ VecOK(Idle)
BY BoundAssumption DEF Idle, Session, Pc, VecOK, Match, Row

LEMMA VecInit == Init => VInv
<1> SUFFICES ASSUME Init PROVE VInv
  OBVIOUS
<1>1. \A p \in Sessions : sess[p] \in Session /\ VecOK(sess[p])
  BY VecIdle DEF Init
<1>2. TypeOK
  BY <1>1 DEF Init, TypeOK
<1>3. EmbeddingsMatch
  BY DEF Init, EmbeddingsMatch
<1> QED
  BY <1>1, <1>2, <1>3, InvInit DEF VInv

\* The vectors stay right in every step: one case per action.
LEMMA VecStep == VInv /\ IInv' /\ [Next]_vars => VInv'
<1> SUFFICES ASSUME VInv, IInv', [Next]_vars PROVE VInv'
  OBVIOUS
<1>0. /\ \A p \in Sessions : sess[p] \in Session /\ VecOK(sess[p]) /\ SessOK(sess[p])
      /\ text \in [ArticleIds -> Texts]
      /\ chunk \in [ArticleIds -> SUBSET Row]
      /\ \A a \in ArticleIds : Match(chunk[a])
      /\ Texts \subseteq Seq(Contents)
  BY TextAssumption DEF VInv, TypeOK, IInv, EmbeddingsMatch, Match
<1>1. ASSUME NEW p \in Sessions, Put(p, Idle), UNCHANGED <<text, chunk>> PROVE VInv'
  BY <1>1, VecIdle, VecPutKeeps
<1>2. ASSUME NEW p \in Sessions, NEW a \in ArticleIds, Begin(p, a) PROVE VInv'
  <2> DEFINE s == [Idle EXCEPT !.pc = "select", !.art = a, !.text = text[a]]
  <2>1. s \in Session /\ VecOK(s)
    <3>1. text[a] \in Seq(Contents)
      BY <1>0
    <3>2. s \in Session
      BY <3>1, VecIdle DEF Session, Pc
    <3>3. s.pc = "select" /\ s.old = {} /\ s.vecs = <<>>
      BY DEF Idle
    <3> QED BY <3>2, <3>3 DEF VecOK, Match
  <2>2. Put(p, s) /\ UNCHANGED <<text, chunk>>
    BY <1>2 DEF Begin
  <2> HIDE DEF s
  <2> QED BY <2>1, <2>2, VecPutKeeps
<1>3. ASSUME NEW p \in Sessions, SelectExisting(p) PROVE VInv'
  <2>1. /\ sess[p] \in Session /\ sess[p].pc = "select" /\ sess[p].vecs = <<>>
        /\ sess[p].art \in ArticleIds
    BY <1>0, <1>3 DEF SelectExisting, VecOK, SessOK
  <2> DEFINE r == [sess[p] EXCEPT !.old = chunk[sess[p].art]]
             s == [r EXCEPT !.pc = IF ToEmbed(r) = <<>> THEN "delete" ELSE "embed"]
  <2>2. /\ r \in Session /\ r.vecs = <<>> /\ r.old = chunk[sess[p].art]
        /\ r.text \in Seq(Contents)
    BY <1>0, <2>1 DEF Session
  <2>3. Put(p, s) /\ UNCHANGED <<text, chunk>>
    BY <1>3 DEF SelectExisting
  <2>4. ToEmbed(r) \in Seq(New(r))
    BY <2>2, ToEmbedFacts
  <2> HIDE DEF r
  <2>5. /\ s \in Session /\ s.text = r.text /\ s.old = r.old /\ s.vecs = <<>>
        /\ s.pc = IF ToEmbed(r) = <<>> THEN "delete" ELSE "embed"
    BY <2>2 DEF Session, Pc
  <2> HIDE DEF s
  <2>6. ToEmbed(s) = ToEmbed(r)
    BY <2>5, SameToEmbed
  <2>7. Prefix(s) /\ (s.pc = "delete" => Len(s.vecs) = Len(ToEmbed(s)))
    BY <2>4, <2>5, <2>6 DEF Prefix
  <2>8. Match(s.old)
    BY <1>0, <2>1, <2>2, <2>5
  <2> QED BY <2>3, <2>5, <2>7, <2>8, VecPutKeeps DEF VecOK
<1>4. ASSUME NEW p \in Sessions, EmbedBatch(p) PROVE VInv'
  <2> PICK s : s = sess[p]
    OBVIOUS
  <2> PICK todo : todo = ToEmbed(s)
    OBVIOUS
  <2> DEFINE upto == IF Len(s.vecs) + Batch < Len(todo) THEN Len(s.vecs) + Batch
                     ELSE Len(todo)
             v == [j \in 1 .. upto |-> IF j <= Len(s.vecs) THEN s.vecs[j] ELSE s.text[todo[j]]]
             c == IF upto = Len(todo) THEN "delete" ELSE "embed"
             u == [s EXCEPT !.vecs = v, !.attempts = 0, !.pc = c]
  <2>1. /\ s \in Session /\ s.pc = "embed" /\ Prefix(s) /\ Match(s.old)
        /\ s.text \in Seq(Contents) /\ s.vecs \in Seq(Contents)
    BY <1>0, <1>4 DEF EmbedBatch, VecOK, Session
  <2>2. /\ todo \in Seq(New(s)) /\ New(s) \subseteq DOMAIN s.text
    BY <2>1, ToEmbedFacts
  <2>3. Len(s.vecs) \in Nat /\ Len(todo) \in Nat /\ Len(s.vecs) <= Len(todo) /\ Batch \in Nat
    BY <2>1, <2>2, BoundAssumption DEF Prefix
  <2>4. upto \in Nat /\ upto <= Len(todo) /\ Len(s.vecs) <= upto
    BY <2>3
  <2>5. Put(p, u) /\ UNCHANGED <<text, chunk>>
    BY <1>4 DEF EmbedBatch
  <2> HIDE DEF upto
  <2>6. \A j \in 1 .. upto : v[j] = s.text[todo[j]] /\ s.text[todo[j]] \in Contents
    <3>1. \A j \in 1 .. upto : s.text[todo[j]] \in Contents
      BY <2>1, <2>2, <2>3, <2>4
    <3> QED BY <2>1, <2>3, <2>4, <3>1 DEF Prefix
  <2>7. v \in Seq(Contents) /\ Len(v) = upto
    <3> HIDE DEF v
    <3>1. v = [j \in 1 .. upto |-> v[j]]
      BY DEF v
    <3> QED BY <2>4, <2>6, <3>1
  <2> HIDE DEF v
  <2>8. /\ u \in Session /\ u.text = s.text /\ u.old = s.old /\ u.vecs = v /\ u.pc = c
    <3>1. 0 \in 0 .. MaxAttempts - 1 /\ c \in {"delete", "embed"}
      BY BoundAssumption
    <3> HIDE DEF c
    <3> QED BY <2>1, <2>7, <3>1 DEF Session, Pc
  <2> HIDE DEF u
  <2>9. ToEmbed(u) = todo
    BY <2>8, SameToEmbed
  <2>10. Prefix(u) /\ (u.pc = "delete" => Len(u.vecs) = Len(ToEmbed(u)))
    BY <2>4, <2>6, <2>7, <2>8, <2>9 DEF Prefix
  <2> QED BY <2>1, <2>5, <2>8, <2>10, VecPutKeeps DEF VecOK
\* A step that changes neither the text, the old rows nor the vectors.
<1>5. ASSUME NEW p \in Sessions, NEW u \in Session, Put(p, u), UNCHANGED <<text, chunk>>,
             u.text = sess[p].text, u.old = sess[p].old, u.vecs = sess[p].vecs,
             \/ sess[p].pc = "embed" /\ u.pc = "embed"
             \/ /\ sess[p].pc \in {"delete", "deleting", "insert", "commit"}
                /\ u.pc \in {"delete", "deleting", "insert", "commit"}
      PROVE  VInv'
  <2>1. ToEmbed(u) = ToEmbed(sess[p])
    BY <1>5, SameToEmbed
  <2>2. VecOK(u)
    BY <1>0, <1>5, <2>1 DEF VecOK, Prefix
  <2> QED BY <1>5, <2>2, VecPutKeeps
<1>6. ASSUME NEW p \in Sessions, EmbedFails(p) PROVE VInv'
  <2> DEFINE u == [sess[p] EXCEPT !.attempts = @ + 1]
  <2>1. sess[p] \in Session /\ sess[p].pc = "embed" /\ UNCHANGED <<text, chunk>>
    BY <1>0, <1>6 DEF EmbedFails
  <2>2. CASE sess[p].attempts + 1 = MaxAttempts
    BY <1>1, <1>6, <2>1, <2>2 DEF EmbedFails
  <2>3. CASE sess[p].attempts + 1 # MaxAttempts
    <3>1. sess[p].attempts + 1 \in 0 .. MaxAttempts - 1
      BY <2>1, <2>3, BoundAssumption DEF Session
    <3>2. /\ u \in Session /\ u.pc = "embed" /\ u.text = sess[p].text
          /\ u.old = sess[p].old /\ u.vecs = sess[p].vecs
      BY <2>1, <3>1 DEF Session
    <3>3. Put(p, u)
      BY <1>6, <2>3 DEF EmbedFails
    <3> HIDE DEF u
    <3> QED BY <1>5, <2>1, <3>2, <3>3
  <2> QED BY <2>2, <2>3
<1>7. ASSUME NEW p \in Sessions, StartDelete(p) PROVE VInv'
  <2> DEFINE u == [sess[p] EXCEPT !.pc = "deleting", !.dead = chunk[sess[p].art]]
  <2>1. /\ sess[p] \in Session /\ sess[p].pc = "delete" /\ UNCHANGED <<text, chunk>>
        /\ sess[p].art \in ArticleIds
    BY <1>0, <1>7 DEF StartDelete, SessOK
  <2>2. /\ u \in Session /\ u.pc = "deleting" /\ u.text = sess[p].text
        /\ u.old = sess[p].old /\ u.vecs = sess[p].vecs
    BY <1>0, <2>1 DEF Session, Pc
  <2>3. Put(p, u)
    BY <1>7 DEF StartDelete
  <2> HIDE DEF u
  <2> QED BY <1>5, <2>1, <2>2, <2>3
<1>8. ASSUME NEW p \in Sessions, NEW c \in {"insert", "commit"},
             sess[p].pc \in {"deleting", "insert"},
             Put(p, [sess[p] EXCEPT !.pc = c]), UNCHANGED <<text, chunk>>
      PROVE  VInv'
  <2> DEFINE u == [sess[p] EXCEPT !.pc = c]
  <2>1. sess[p] \in Session
    BY <1>0
  <2>2. /\ u \in Session /\ u.pc = c /\ u.text = sess[p].text
        /\ u.old = sess[p].old /\ u.vecs = sess[p].vecs
    BY <2>1 DEF Session, Pc
  <2>3. Put(p, u)
    BY <1>8
  <2> HIDE DEF u
  <2> QED BY <1>5, <1>8, <2>2, <2>3
<1>9. ASSUME NEW p \in Sessions, FinishDelete(p) PROVE VInv'
  BY <1>8, <1>9 DEF FinishDelete
<1>10. ASSUME NEW p \in Sessions, InsertChunks(p) PROVE VInv'
  BY <1>1, <1>8, <1>10 DEF InsertChunks
<1>11. ASSUME NEW p \in Sessions, CommitChunks(p) PROVE VInv'
  <2> PICK s : s = sess[p]
    OBVIOUS
  <2>1. /\ s \in Session /\ VecOK(s) /\ s.pc = "commit" /\ s.art \in ArticleIds
        /\ text' = text
    BY <1>0, <1>11 DEF CommitChunks, SessOK
  <2>2. NewRows(s) \in SUBSET Row /\ Match(NewRows(s))
    BY <2>1, NewRowsMatch
  <2>3. /\ chunk' = [b \in ArticleIds |-> IF b = s.art THEN NewRows(s) ELSE chunk[b]]
    <3>1. /\ chunk'[s.art] = NewRows(s)
          /\ \A b \in ArticleIds \ {s.art} : chunk'[b] = chunk[b]
      BY <1>11, CommitStep DEF VInv
    <3>2. chunk' = [b \in ArticleIds |-> chunk'[b]]
      BY DEF IInv
    <3> QED BY <3>1, <3>2
  <2>4. /\ \A b \in ArticleIds : chunk'[b] \in SUBSET Row /\ Match(chunk'[b])
        /\ chunk' \in [ArticleIds -> SUBSET Row]
    BY <1>0, <2>2, <2>3
  <2>5. ASSUME NEW q \in Sessions PROVE sess'[q] \in Session /\ VecOK(sess'[q])
    <3>1. sess'[q] = IF q = p THEN Idle
                     ELSE IF sess[q].art = s.art THEN [sess[q] EXCEPT !.dead = @ \ s.dead]
                     ELSE sess[q]
      BY <1>11 DEF CommitChunks
    <3>2. sess[q] \in Session /\ VecOK(sess[q])
      BY <1>0
    <3>3. CASE sess'[q] = [sess[q] EXCEPT !.dead = @ \ s.dead]
      <4>1. /\ sess'[q] \in Session /\ sess'[q].pc = sess[q].pc
            /\ sess'[q].text = sess[q].text /\ sess'[q].old = sess[q].old
            /\ sess'[q].vecs = sess[q].vecs
        BY <3>2, <3>3 DEF Session
      <4>2. ToEmbed(sess'[q]) = ToEmbed(sess[q])
        BY <4>1, SameToEmbed
      <4> QED BY <3>2, <4>1, <4>2 DEF VecOK, Prefix
    <3> QED BY <3>1, <3>2, <3>3, VecIdle
  <2>6. sess' \in [Sessions -> Session]
    BY <2>5 DEF IInv
  <2>7. \A q \in Sessions : VecOK(sess[q])'
    BY <2>5 DEF VecOK, Prefix, ToEmbed, New, Match
  <2>8. EmbeddingsMatch'
    BY <2>4 DEF EmbeddingsMatch, Match
  <2>9. TypeOK'
    BY <1>0, <2>1, <2>4, <2>6 DEF TypeOK
  <2> QED BY <2>7, <2>8, <2>9 DEF VInv
<1>12. CASE Crash
  <2>1. UNCHANGED <<text, chunk>> /\ sess' = [p \in Sessions |-> Idle]
    BY <1>12 DEF Crash
  <2>2. \A p \in Sessions : sess'[p] \in Session /\ VecOK(sess'[p])
    BY <2>1, VecIdle
  <2>3. \A q \in Sessions : VecOK(sess[q])'
    BY <2>2 DEF VecOK, Prefix, ToEmbed, New, Match
  <2>4. sess' \in [Sessions -> Session]
    BY <2>1, <2>2
  <2> QED BY <1>0, <2>1, <2>3, <2>4 DEF VInv, TypeOK, EmbeddingsMatch
<1>13. ASSUME UNCHANGED <<chunk, sess>>, text' \in [ArticleIds -> Texts] PROVE VInv'
  <2>1. \A q \in Sessions : VecOK(sess'[q])
    BY <1>0, <1>13
  <2>2. \A q \in Sessions : VecOK(sess[q])'
    BY <2>1 DEF VecOK, Prefix, ToEmbed, New, Match
  <2> QED BY <1>13, <2>2 DEF VInv, TypeOK, EmbeddingsMatch
<1>14. ASSUME NEW a \in ArticleIds, NEW t \in Texts, EditArticle(a, t) PROVE VInv'
  <2>1. /\ UNCHANGED <<chunk, sess>> /\ text' \in [ArticleIds -> Texts]
    BY <1>0, <1>14 DEF EditArticle
  <2> QED BY <1>13, <2>1
<1>15. CASE UNCHANGED vars
  BY <1>0, <1>13, <1>15 DEF vars
<1> QED
  BY <1>2, <1>3, <1>4, <1>6, <1>7, <1>9, <1>10, <1>11, <1>12, <1>14, <1>15 DEF Next, Step

\* The vectors are right in every reachable state.
LEMMA VectorInvariance == Spec => []VInv
<1>1. Init => VInv
  BY VecInit
<1>2. VInv /\ [Next]_vars => VInv'
  BY InvStep, VecStep DEF VInv
<1> QED BY <1>1, <1>2, PTL DEF Spec

-----------------------------------------------------------------------------
(* Theorems *)

\* Replacing an article's chunks is atomic for the handlers and the search, as
\* the docstring of index_article says, however many calls overlap, fail or die:
\* TicketPipeline and DraftReview may treat it as one step.
THEOREM ReplacedAtomically == Spec => IndexedAtomically
<1>1. Init => Atomic!Init
  BY RefineInit
<1>2. IInv /\ [Next]_vars => [Atomic!Next]_<<text, Handed, Indexed>>
  BY RefineStep
<1> QED
  BY <1>1, <1>2, Invariance, PTL
     DEF Spec, IndexedAtomically, Atomic!Spec, Atomic!vars, Handed, Indexed

\* Every variable keeps its type: the rows, the attempts and the rows a DELETE
\* takes stay in their ranges for any number of calls at once.
THEOREM TypeCorrect == Spec => []TypeOK
BY VectorInvariance, PTL DEF VInv

\* Reusing vectors by content and zipping the new ones with their chunks, as
\* index_article does, never gives a chunk the vector of another text, whatever
\* the batch, the retries and the calls that overlap.
THEOREM VectorsMatch == Spec => []EmbeddingsMatch
BY VectorInvariance, PTL DEF VInv
=============================================================================
