------------------------------- MODULE Indexer -------------------------------
(***************************************************************************)
(* index_article (indexing/indexer.py) and the embedding of its chunks     *)
(* (llm/embeddings.py), step by step, with any number of calls for one     *)
(* article at once: a push indexes the article it has published while an   *)
(* import indexes the same one, or two imports meet.                       *)
(*                                                                         *)
(* A call reads the article's chunk rows, awaits the vectors of the chunks *)
(* whose text it did not find among them, and replaces the rows in one     *)
(* transaction.  PostgreSQL runs it as READ COMMITTED: the DELETE takes    *)
(* the rows that are committed when it starts, waits for a transaction     *)
(* that has deleted them already, and skips those that are gone then; the  *)
(* INSERT waits for uncommitted rows with its keys and fails on committed  *)
(* ones (uq_chunk_article_idx).                                            *)
(*                                                                         *)
(* Abstractions:                                                           *)
(*   - a text is the sequence of the contents chunk_article cuts it into   *)
(*     (module Chunker), so equal contents are equal hashes; chunk index i *)
(*     of the code is i + 1 here;                                          *)
(*   - a vector is the content it was computed from;                       *)
(*   - the deletion of an article by /admin/reset is in TicketPipeline.    *)
(***************************************************************************)
EXTENDS Integers, Sequences, FiniteSets

CONSTANTS
    ArticleIds,   \* ids of rows of kb.article
    Contents,     \* the contents a chunk may have
    Texts,        \* the texts an article may have
    Sessions,     \* the handlers that index, each with a session of its own
    NIL,
    Batch,        \* texts per embedding request (_OPENAI_BATCH)
    MaxAttempts   \* attempts per embedding request (stop_after_attempt)

ASSUME NilAssumption ==
    /\ NIL \notin ArticleIds
    /\ NIL \notin Texts
    /\ NIL \notin [art : ArticleIds, text : Texts]
ASSUME TextAssumption == Texts \subseteq Seq(Contents) \ {<<>>}
ASSUME BoundAssumption == Batch \in Nat \ {0} /\ MaxAttempts \in Nat \ {0}

VARIABLES
    text,    \* the title and body of each article
    chunk,   \* the committed rows of kb.chunk, per article
    sess     \* what each call holds

vars == <<text, chunk, sess>>

-----------------------------------------------------------------------------
Row == [idx : Nat \ {0}, content : Contents, vec : Contents]

Pc == {"idle", "select", "embed", "delete", "deleting", "insert", "commit"}
Session == [pc       : Pc,
            art      : ArticleIds \cup {NIL},
            text     : Seq(Contents),     \* new_chunks
            old      : SUBSET Row,        \* existing
            vecs     : Seq(Contents),     \* the vectors embed_many has so far
            attempts : 0 .. MaxAttempts - 1,  \* failed attempts at the next batch
            dead     : SUBSET Row]        \* the rows its DELETE takes
Idle == [pc |-> "idle", art |-> NIL, text |-> <<>>, old |-> {}, vecs |-> <<>>,
         attempts |-> 0, dead |-> {}]

TypeOK ==
    /\ text \in [ArticleIds -> Texts]
    /\ chunk \in [ArticleIds -> SUBSET Row]
    /\ sess \in [Sessions -> Session]

Put(p, s) == sess' = [sess EXCEPT ![p] = s]

\* The positions of the chunks whose content has no row yet, and their list.
New(s) == {i \in DOMAIN s.text : \A r \in s.old : r.content # s.text[i]}
ToEmbed(s) ==
    [j \in 1 .. Cardinality(New(s)) |->
        CHOOSE i \in New(s) : Cardinality({k \in New(s) : k < i}) = j - 1]

\* zip(to_embed, vecs) for a new content, the row's own vector for an old one;
\* of two rows with one content, either will do.
Vector(s, i) ==
    IF \E j \in DOMAIN ToEmbed(s) : ToEmbed(s)[j] = i
    THEN s.vecs[CHOOSE j \in DOMAIN ToEmbed(s) : ToEmbed(s)[j] = i]
    ELSE (CHOOSE r \in s.old : r.content = s.text[i]).vec

NewRows(s) ==
    {[idx |-> i, content |-> s.text[i], vec |-> Vector(s, i)] : i \in DOMAIN s.text}

\* The other calls that have an open transaction on the article.
Others(p) == {q \in Sessions \ {p} : sess[q].art = sess[p].art}

-----------------------------------------------------------------------------
(* The calls *)

\* A caller refreshes the article it has committed, and hands its text over.
Begin(p, a) ==
    /\ sess[p].pc = "idle"
    /\ Put(p, [Idle EXCEPT !.pc = "select", !.art = a, !.text = text[a]])
    /\ UNCHANGED <<text, chunk>>

SelectExisting(p) ==
    /\ sess[p].pc = "select"
    /\ LET s == [sess[p] EXCEPT !.old = chunk[sess[p].art]] IN
       Put(p, [s EXCEPT !.pc = IF ToEmbed(s) = <<>> THEN "delete" ELSE "embed"])
    /\ UNCHANGED <<text, chunk>>

\* Mutant: every request sends the texts from the first one on.
EmbedBatch_FromStart(p) ==
    LET s == sess[p]
        todo == ToEmbed(s)
        upto == IF Len(s.vecs) + Batch < Len(todo) THEN Len(s.vecs) + Batch ELSE Len(todo)
    IN
    /\ s.pc = "embed"
    /\ Put(p, [s EXCEPT !.vecs = [j \in 1 .. upto |->
                           IF j <= Len(@) THEN @[j] ELSE s.text[todo[j - Len(@)]]],
                        !.attempts = 0,
                        !.pc = IF upto = Len(todo) THEN "delete" ELSE "embed"])
    /\ UNCHANGED <<text, chunk>>

\* One request to the model: the next Batch texts, answered in order.
EmbedBatch(p) ==
    LET s == sess[p]
        todo == ToEmbed(s)
        upto == IF Len(s.vecs) + Batch < Len(todo) THEN Len(s.vecs) + Batch ELSE Len(todo)
    IN
    /\ s.pc = "embed"
    /\ Put(p, [s EXCEPT !.vecs = [j \in 1 .. upto |->
                                     IF j <= Len(@) THEN @[j] ELSE s.text[todo[j]]],
                        !.attempts = 0,
                        !.pc = IF upto = Len(todo) THEN "delete" ELSE "embed"])
    /\ UNCHANGED <<text, chunk>>

\* Mutants: one attempt too many; the request is retried for ever.
EmbedFails_OneMore(p) ==
    /\ sess[p].pc = "embed"
    /\ Put(p, IF sess[p].attempts = MaxAttempts THEN Idle
              ELSE [sess[p] EXCEPT !.attempts = @ + 1])
    /\ UNCHANGED <<text, chunk>>
EmbedFails_NoStop(p) ==
    /\ sess[p].pc = "embed"
    /\ Put(p, [sess[p] EXCEPT !.attempts = IF @ + 1 = MaxAttempts THEN 0 ELSE @ + 1])
    /\ UNCHANGED <<text, chunk>>

\* An attempt fails; the last one ends the call.
EmbedFails(p) ==
    /\ sess[p].pc = "embed"
    /\ Put(p, IF sess[p].attempts + 1 = MaxAttempts THEN Idle
              ELSE [sess[p] EXCEPT !.attempts = @ + 1])
    /\ UNCHANGED <<text, chunk>>

\* The DELETE starts: it will take what is committed now.
StartDelete(p) ==
    /\ sess[p].pc = "delete"
    /\ Put(p, [sess[p] EXCEPT !.pc = "deleting", !.dead = chunk[sess[p].art]])
    /\ UNCHANGED <<text, chunk>>

\* It has waited for every open transaction that deleted one of its rows.
FinishDelete(p) ==
    /\ sess[p].pc = "deleting"
    /\ \A q \in Others(p) :
          sess[q].pc \in {"insert", "commit"} => sess[q].dead \cap sess[p].dead = {}
    /\ Put(p, [sess[p] EXCEPT !.pc = "insert"])
    /\ UNCHANGED <<text, chunk>>

\* Committed rows with the keys of new ones.
Clash(p) == {r \in chunk[sess[p].art] \ sess[p].dead : r.idx \in DOMAIN sess[p].text}

\* Mutant: no UNIQUE constraint on the article and the index.
InsertChunks_Unconstrained(p) ==
    /\ sess[p].pc = "insert"
    /\ Put(p, [sess[p] EXCEPT !.pc = "commit"])
    /\ UNCHANGED <<text, chunk>>

\* The INSERT fails on a row that is there to stay, and waits for the end of a
\* transaction that has deleted its keys or inserted them too.
InsertChunks(p) ==
    /\ sess[p].pc = "insert"
    /\ \/ /\ \E r \in Clash(p) : \A q \in Others(p) :
                ~(sess[q].pc \in {"insert", "commit"} /\ r \in sess[q].dead)
          /\ Put(p, Idle)
       \/ /\ Clash(p) = {}
          /\ \A q \in Others(p) : sess[q].pc # "commit"
          /\ Put(p, [sess[p] EXCEPT !.pc = "commit"])
    /\ UNCHANGED <<text, chunk>>

\* From now on a DELETE that was waiting for these rows skips them.
CommitChunks(p) ==
    LET s == sess[p] IN
    /\ s.pc = "commit"
    /\ chunk' = [chunk EXCEPT ![s.art] = (@ \ s.dead) \cup NewRows(s)]
    /\ sess' = [q \in Sessions |->
                  IF q = p THEN Idle
                  ELSE IF sess[q].art = s.art THEN [sess[q] EXCEPT !.dead = @ \ s.dead]
                  ELSE sess[q]]
    /\ UNCHANGED text

\* A review, a push or an import commits another text.
EditArticle(a, t) ==
    /\ text' = [text EXCEPT ![a] = t]
    /\ UNCHANGED <<chunk, sess>>

\* The process dies; its transactions are rolled back.
Crash ==
    /\ sess' = [p \in Sessions |-> Idle]
    /\ UNCHANGED <<text, chunk>>

-----------------------------------------------------------------------------
Init ==
    /\ text \in [ArticleIds -> Texts]
    /\ chunk = [a \in ArticleIds |-> {}]
    /\ sess = [p \in Sessions |-> Idle]

Step(p) ==
    \/ SelectExisting(p) \/ EmbedBatch(p) \/ EmbedFails(p)
    \/ StartDelete(p) \/ FinishDelete(p) \/ InsertChunks(p) \/ CommitChunks(p)

Next ==
    \/ \E p \in Sessions : Step(p) \/ \E a \in ArticleIds : Begin(p, a)
    \/ \E a \in ArticleIds, t \in Texts : EditArticle(a, t)
    \/ Crash

Spec == Init /\ [][Next]_vars

\* The event loop resumes every call whose await is done, and PostgreSQL wakes
\* whoever waits for a transaction each time one ends.
FairSpec ==
    /\ Spec
    /\ \A p \in Sessions :
          WF_vars(Step(p)) /\ SF_vars(FinishDelete(p)) /\ SF_vars(InsertChunks(p))

-----------------------------------------------------------------------------
(* Properties *)

\* The search compares a query with the vector of the chunk it returns: reusing
\* vectors by hash and zipping the new ones with their chunks never gives a
\* chunk the vector of another text.
EmbeddingsMatch == \A a \in ArticleIds : \A r \in chunk[a] : r.vec = r.content

\* The text an article's rows are the chunks of; "torn" if they are none's.
RowsOf(t) == {<<i, t[i]>> : i \in DOMAIN t}
IndexedText(a) ==
    LET rows == {<<r.idx, r.content>> : r \in chunk[a]} IN
    IF rows = {} THEN NIL
    ELSE IF \E t \in Texts : RowsOf(t) = rows
         THEN CHOOSE t \in Texts : RowsOf(t) = rows
         ELSE <<"torn">>

\* "Replace the article's chunk set atomically": overlapping calls leave the
\* whole chunk set of a text one of them was given, never a mixture and never
\* nothing, and a call that fails leaves what was there.
Atomic == INSTANCE AtomicIndex WITH
    handed <- [p \in Sessions |->
                 IF sess[p].pc = "idle" THEN NIL
                 ELSE [art |-> sess[p].art, text |-> sess[p].text]],
    indexed <- [a \in ArticleIds |-> IndexedText(a)]
IndexedAtomically == Atomic!Spec

\* Every call ends, by a commit or an error: no two calls wait for each other's
\* rows, and no embedding request is retried for ever.
IndexingsEnd == \A p \in Sessions : sess[p].pc # "idle" ~> sess[p].pc = "idle"
=============================================================================
