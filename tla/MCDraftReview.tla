---------------------------- MODULE MCDraftReview ----------------------------
(* Constants for model-checking DraftReview. *)
EXTENDS DraftReview

CONSTANTS t1, t2

\* The draft of these runs, or each of them, was written from a ticket of its own.
MCSource == [a \in Drafts |-> IF a = 1 THEN t1 ELSE t2]
=============================================================================
