--------------------------- MODULE MCTicketPipeline ---------------------------
(* Constants for model-checking TicketPipeline. *)
EXTENDS TicketPipeline, TLC

CONSTANTS t1, t2

\* Ranks: 2 is at or above the dedup threshold, 1 is at or above the
\* neighbour floor only.  t1 and t2 are two reports of one problem, and the
\* imported article is a neighbour of both.
MCRelevance ==
    [p \in Tickets \X (Tickets \cup {NIL}) |-> IF p[2] = NIL THEN 1 ELSE 2]

\* t1 and t2 are alike: no constant and no invariant tells them apart.
MCSymmetry == Permutations({t1, t2})
=============================================================================
