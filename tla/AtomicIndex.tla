----------------------------- MODULE AtomicIndex -----------------------------
(***************************************************************************)
(* What index_article promises the handlers that call it: between the      *)
(* reading of an article's text and the end of the call, its chunks are    *)
(* replaced by those of that text in one step, or the call fails and the   *)
(* chunks stay.  TicketPipeline and DraftReview index articles in this way.*)
(***************************************************************************)
CONSTANTS ArticleIds, Texts, Sessions, NIL

VARIABLES
    text,     \* the text of each article
    handed,   \* the article and the text a running call was given, NIL if none
    indexed   \* the text each article's chunks were cut from, NIL if it has none

vars == <<text, handed, indexed>>

Init ==
    /\ text \in [ArticleIds -> Texts]
    /\ handed = [p \in Sessions |-> NIL]
    /\ indexed = [a \in ArticleIds |-> NIL]

Edit(a, t) ==
    /\ text' = [text EXCEPT ![a] = t]
    /\ UNCHANGED <<handed, indexed>>

Begin(p, a) ==
    /\ handed[p] = NIL
    /\ handed' = [handed EXCEPT ![p] = [art |-> a, text |-> text[a]]]
    /\ UNCHANGED <<text, indexed>>

Replace(p) ==
    /\ handed[p] # NIL
    /\ indexed' = [indexed EXCEPT ![handed[p].art] = handed[p].text]
    /\ handed' = [handed EXCEPT ![p] = NIL]
    /\ UNCHANGED text

Fail(p) ==
    /\ handed[p] # NIL
    /\ handed' = [handed EXCEPT ![p] = NIL]
    /\ UNCHANGED <<text, indexed>>

Crash ==
    /\ handed' = [p \in Sessions |-> NIL]
    /\ UNCHANGED <<text, indexed>>

Next ==
    \/ \E a \in ArticleIds, t \in Texts : Edit(a, t)
    \/ \E p \in Sessions : \/ \E a \in ArticleIds : Begin(p, a)
                           \/ Replace(p) \/ Fail(p)
    \/ Crash

Spec == Init /\ [][Next]_vars
=============================================================================
