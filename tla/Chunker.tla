-------------------------------- MODULE Chunker --------------------------------
(***************************************************************************)
(* chunk_article of indexing/chunker.py: an article of n tokens is cut     *)
(* into windows of chunk_size tokens, each starting chunk_size - overlap   *)
(* tokens after the one before.  The loop of the code is the loop of the   *)
(* state machine, one iteration a step; its inputs are chosen initially.   *)
(*                                                                         *)
(* Abstractions: a chunk is the window of tokens it was decoded from,      *)
(* first (inclusive) to last (exclusive), and its token count; encoding    *)
(* the title in front of a later chunk costs the title's tokens.           *)
(***************************************************************************)
EXTENDS Integers, Sequences

CONSTANTS
    Lengths,   \* numbers of tokens of an article, title included
    Sizes,     \* values of chunk_size
    Overlaps,  \* values of overlap
    Titles     \* numbers of tokens of a title; 0 is no title

ASSUME InputAssumption ==
    /\ Lengths \subseteq Nat
    /\ Sizes \subseteq Int
    /\ Overlaps \subseteq Int
    /\ Titles \subseteq Nat

VARIABLES
    n, size, overlap, title,  \* the call's inputs
    pc,
    i,       \* start of the next window
    chunks   \* the chunks so far

inputs == <<n, size, overlap, title>>
vars == <<n, size, overlap, title, pc, i, chunks>>

Chunk == [first : Nat, last : Nat, tokens : Nat]

TypeOK ==
    /\ n \in Lengths /\ size \in Sizes /\ overlap \in Overlaps /\ title \in Titles
    /\ pc \in {"start", "loop", "done", "error"}
    /\ i \in Nat
    /\ chunks \in Seq(Chunk)

Min(x, y) == IF x < y THEN x ELSE y

BadInput == size <= 0 \/ overlap < 0 \/ overlap >= size

Init ==
    /\ n \in Lengths /\ size \in Sizes /\ overlap \in Overlaps /\ title \in Titles
    /\ pc = "start"
    /\ i = 0
    /\ chunks = <<>>

\* ValueError.
Refuse ==
    /\ pc = "start"
    /\ BadInput
    /\ pc' = "error"
    /\ UNCHANGED <<inputs, i, chunks>>

\* Nothing to cut: one chunk, be it empty.
SingleChunk ==
    /\ pc = "start"
    /\ ~BadInput
    /\ n <= size
    /\ chunks' = <<[first |-> 0, last |-> n, tokens |-> n]>>
    /\ pc' = "done"
    /\ UNCHANGED <<inputs, i>>

EnterLoop ==
    /\ pc = "start"
    /\ ~BadInput
    /\ n > size
    /\ pc' = "loop"
    /\ UNCHANGED <<inputs, i, chunks>>

\* Mutants: windows that do not overlap; one more chunk when the last window
\* ends exactly at the end.
Stride_NoOverlap == size
LastWindow_Late == i + size > n

Stride == size - overlap
LastWindow == i + size >= n

\* The chunk of the window at i: the title goes in front of all but the first.
Window ==
    LET last == Min(i + size, n) IN
    [first |-> i, last |-> last,
     tokens |-> (last - i) + (IF chunks = <<>> THEN 0 ELSE title)]

Cut ==
    /\ pc = "loop"
    /\ chunks' = Append(chunks, Window)
    /\ i' = IF LastWindow THEN i ELSE i + Stride
    /\ pc' = IF LastWindow \/ i + Stride >= n THEN "done" ELSE "loop"
    /\ UNCHANGED inputs

Terminated == pc \in {"done", "error"} /\ UNCHANGED vars

Next == Refuse \/ SingleChunk \/ EnterLoop \/ Cut \/ Terminated

Spec == Init /\ [][Next]_vars

-----------------------------------------------------------------------------
(* Properties *)

\* Any overlap + 1 tokens in a row, a word or a character that the encoding
\* splits, say, are found whole in some chunk, wherever the windows fall.
NothingCut ==
    pc = "done" =>
        \A j \in 0 .. n - 1 : j + overlap < n =>
            \E k \in DOMAIN chunks :
                chunks[k].first <= j /\ j + overlap < chunks[k].last

\* No chunk repeats a part of the one before it and nothing else, and none is
\* empty unless the article is.  The ends of the chunks grow up to n, so the
\* loop ends, for the smallest stride too.
EachChunkAdds ==
    /\ \A k \in 1 .. Len(chunks) - 1 : chunks[k].last < chunks[k + 1].last
    /\ n > 0 => \A k \in DOMAIN chunks : chunks[k].first < chunks[k].last
=============================================================================
