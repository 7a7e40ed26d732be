------------------------------ MODULE MCChunker ------------------------------
(* Bounded inputs for model-checking the two parts of kbgen that compute,    *)
(* Chunker and Scoring.  They share nothing: a behaviour is one or the       *)
(* other's, and which one is chosen initially.                               *)
EXTENDS Chunker, Scoring

CONSTANT MaxTokens

MCLengths == 0 .. MaxTokens
MCSizes == 0 .. 5
MCOverlaps == -1 .. 5

MCRow(min, dedup, thinness, weights) ==
    [min_resolution_chars |-> min, dedup_threshold |-> dedup,
     thinness_threshold_chars |-> thinness, score_weights |-> weights]

MCDefault == MCRow(20, 82, 120, DefaultWeights)

MCWeights(a, r, c) == [accuracy |-> a, recency |-> r, coverage |-> c]

\* Zeros, negative numbers, NULL, weights that are partial, unbalanced,
\* balanced otherwise, negative, or null.
MCSettings ==
    {MCDefault,
     MCRow(0, 82, 0, MCWeights(NIL, NIL, NIL)),
     MCRow(-1, NIL, 120, DefaultWeights),
     MCRow(60, 0, -1, MCWeights(6, 1, NIL)),
     MCRow(1, 100, 60, MCWeights(15, NIL, NIL)),
     MCRow(20, 82, 60, MCWeights(0, 0, 10)),
     MCRow(60, NIL, 60, MCWeights(NIL, NIL, -8)),
     MCRow(20, 82, 60, MCWeights(NIL, NaN, 5))}

MCTickets ==
    [notes : {0, 1, 20, 59, 60, 200}, age : {NIL, 40, 130},
     relevance : {NIL, 81, 82}, confidence : {20, 100}]

ChunkAlone == ScoringInit /\ Init
ScoreAlone ==
    /\ ScoringInit
    /\ n = 0 /\ size = 0 /\ overlap = 0 /\ title = 0
    /\ pc = "score" /\ i = 0 /\ chunks = <<>>

MCInit == ChunkAlone \/ ScoreAlone
MCNext ==
    \/ pc # "score" /\ Next /\ UNCHANGED svars
    \/ pc = "score" /\ ScoringNext /\ UNCHANGED vars
MCSpec == MCInit /\ [][MCNext]_<<vars, svars>>
=============================================================================
