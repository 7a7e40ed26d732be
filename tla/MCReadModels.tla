----------------------------- MODULE MCReadModels -----------------------------
(* Constants for model-checking ReadModels: a legacy ticket and one of the    *)
(* same topic; the best article and a ticket are equally relevant.            *)
EXTENDS ReadModels, TLC

CONSTANTS t1, t2, k1, k2

MCTopic == [t \in Tickets |-> k1]
MCRelevance == (1 :> 1) @@ (2 :> 3) @@ (t1 :> 3) @@ (t2 :> 2)
MCLimits == {1, 2}
=============================================================================
