------------------------------ MODULE MCIndexer ------------------------------
(* Constants for model-checking Indexer. *)
EXTENDS Indexer

CONSTANTS c1, c2, c3

MCContents == {c1, c2, c3}

\* A text that keeps a chunk of another one at another index, one that has two
\* equal chunks, and a shorter one.
MCTexts == {<<c1, c2, c1>>, <<c2, c3, c1>>, <<c3>>}
=============================================================================
