---------------------------- MODULE MCReviewConsole ----------------------------
(* Constants for model-checking ReviewConsole: one article, one ticket.      *)
EXTENDS ReviewConsole

CONSTANTS t1

MCSource == [a \in Drafts |-> t1]
=============================================================================
