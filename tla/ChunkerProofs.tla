---------------------------- MODULE ChunkerProofs ----------------------------
(* Proofs about Chunker, for every article length, window size and overlap. *)
EXTENDS Chunker, TLAPS

USE InputAssumption

\* While the loop runs every position before i has its overlap + 1 tokens in
\* one of the chunks, and the last chunk ends where the next window's overlap
\* does.
IInv ==
    /\ TypeOK
    /\ pc \in {"start", "error"} => i = 0 /\ chunks = <<>>
    /\ pc \in {"loop", "done"} => ~BadInput
    /\ pc = "loop" =>
          /\ i < n
          /\ n > size
          /\ \A j \in 0 .. n - 1 : j < i =>
                \E k \in DOMAIN chunks :
                    chunks[k].first <= j /\ j + overlap < chunks[k].last
          /\ chunks # <<>> => /\ chunks[Len(chunks)].last = i + overlap
                              /\ i + overlap < n
          /\ chunks = <<>> => i = 0
    /\ NothingCut
    /\ EachChunkAdds

\* A chunker that has cut nothing yet satisfies the invariant.
LEMMA InvInit == Init => IInv
BY DEF Init, IInv, TypeOK, NothingCut, EachChunkAdds

\* One more chunk c leaves the other chunks where they are.
LEMMA AppendChunk ==
    ASSUME NEW s \in Seq(Chunk), NEW c \in Chunk
    PROVE  /\ Append(s, c) \in Seq(Chunk)
           /\ Len(Append(s, c)) = Len(s) + 1
           /\ Len(s) \in Nat
           /\ \A k \in 1 .. Len(s) : Append(s, c)[k] = s[k]
           /\ Append(s, c)[Len(s) + 1] = c
           /\ DOMAIN s = 1 .. Len(s)
           /\ DOMAIN Append(s, c) = 1 .. Len(s) + 1
OBVIOUS

\* Cutting one window off the tokens keeps the invariant.
LEMMA CutStep == IInv /\ Cut => IInv'
<1> SUFFICES ASSUME IInv, Cut PROVE IInv'
  OBVIOUS
<1> DEFINE m == Len(chunks)
<1>1. /\ pc = "loop" /\ ~BadInput /\ i < n /\ n > size
      /\ n \in Nat /\ i \in Nat /\ size \in Int /\ overlap \in Int /\ title \in Nat
      /\ chunks \in Seq(Chunk)
      /\ n' = n /\ size' = size /\ overlap' = overlap /\ title' = title
  BY DEF IInv, TypeOK, Cut, inputs
<1>2. size > 0 /\ overlap >= 0 /\ overlap < size /\ Stride \in Nat /\ Stride > 0
  BY <1>1 DEF BadInput, Stride
<1>3. /\ Window \in Chunk /\ Window.first = i
      /\ Window.last = IF i + size < n THEN i + size ELSE n
      /\ i < Window.last
  BY <1>1, <1>2 DEF Window, Min, Chunk
<1>4. /\ chunks' \in Seq(Chunk) /\ Len(chunks') = m + 1 /\ m \in Nat
      /\ \A k \in 1 .. m : chunks'[k] = chunks[k]
      /\ chunks'[m + 1] = Window
      /\ DOMAIN chunks = 1 .. m /\ DOMAIN chunks' = 1 .. m + 1
  BY <1>1, <1>3, AppendChunk DEF Cut
<1>5. chunks' # <<>>
  BY <1>4
<1>6. m > 0 => chunks[m].last = i + overlap /\ i + overlap < n
  BY <1>1, <1>4 DEF IInv
<1>7. /\ i' \in Nat /\ pc' \in {"loop", "done"}
      /\ pc' = "loop" => i' = i + Stride /\ i + size < n /\ i' < n
      /\ pc' = "done" => i + size >= n
  BY <1>1, <1>2 DEF Cut, LastWindow, Stride
<1>8. TypeOK'
  BY <1>1, <1>4, <1>7 DEF IInv, TypeOK
\* The windows of the positions up to i are in the chunks there were, those
\* from i on, as far as the new chunk reaches, in the new one.
<1>9. ASSUME NEW j \in 0 .. n - 1, j < i \/ j + overlap < Window.last
      PROVE  \E k \in DOMAIN chunks' :
                 chunks'[k].first <= j /\ j + overlap < chunks'[k].last
  <2>1. CASE j < i
    <3>1. PICK k \in DOMAIN chunks :
             chunks[k].first <= j /\ j + overlap < chunks[k].last
      BY <1>1, <2>1 DEF IInv
    <3> QED BY <1>4, <3>1
  <2>2. CASE j >= i
    BY <1>1, <1>3, <1>4, <1>9, <2>2
  <2> QED BY <1>1, <2>1, <2>2
<1>10. pc' = "loop" =>
          \A j \in 0 .. n - 1 : j < i' =>
             \E k \in DOMAIN chunks' :
                chunks'[k].first <= j /\ j + overlap < chunks'[k].last
  <2> SUFFICES ASSUME pc' = "loop", NEW j \in 0 .. n - 1, j < i'
               PROVE  j < i \/ j + overlap < Window.last
    BY <1>9
  <2> QED BY <1>1, <1>2, <1>3, <1>7 DEF Stride
<1>11. NothingCut'
  <2> SUFFICES ASSUME pc' = "done", NEW j \in 0 .. n - 1, j + overlap < n
               PROVE  j < i \/ j + overlap < Window.last
    BY <1>1, <1>9 DEF NothingCut
  <2> QED BY <1>1, <1>3, <1>7
<1>12. EachChunkAdds'
  <2>0. m \in Nat
    BY <1>4
  <2>1. ASSUME NEW k \in 1 .. m PROVE chunks'[k].last < chunks'[k + 1].last
    <3>1. CASE k \in 1 .. m - 1
      <4>1. k + 1 \in 1 .. m /\ chunks[k].last < chunks[k + 1].last
        BY <2>0, <3>1 DEF IInv, EachChunkAdds
      <4> QED BY <1>4, <4>1
    <3>2. CASE k = m
      BY <1>1, <1>2, <1>3, <1>4, <1>6, <3>2
    <3>3. k \in 1 .. m - 1 \/ k = m
      BY <2>0
    <3> QED BY <3>1, <3>2, <3>3
  <2>2. ASSUME NEW k \in 1 .. m + 1 PROVE chunks'[k].first < chunks'[k].last
    <3>1. CASE k \in 1 .. m
      BY <1>1, <1>4, <3>1 DEF IInv, EachChunkAdds
    <3>2. CASE k = m + 1
      BY <1>3, <1>4, <3>2
    <3> QED BY <1>4, <3>1, <3>2
  <2> QED BY <1>4, <2>1, <2>2 DEF EachChunkAdds
<1>13. pc' = "loop" => chunks'[Len(chunks')].last = i' + overlap /\ i' + overlap < n
  BY <1>1, <1>2, <1>3, <1>4, <1>7 DEF Stride
<1>14. ~BadInput'
  BY <1>1 DEF BadInput
<1> QED
  BY <1>1, <1>5, <1>7, <1>8, <1>10, <1>11, <1>12, <1>13, <1>14 DEF IInv

\* Every step of the loop, the refusal included, keeps the invariant.
LEMMA InvStep == IInv /\ [Next]_vars => IInv'
<1> SUFFICES ASSUME IInv, [Next]_vars PROVE IInv'
  OBVIOUS
<1> USE DEF IInv, TypeOK, NothingCut, EachChunkAdds, BadInput, inputs
<1>1. CASE Refuse
  BY <1>1 DEF Refuse
<1>2. CASE SingleChunk
  <2> DEFINE c == [first |-> 0, last |-> n, tokens |-> n]
  <2>1. c \in Chunk /\ chunks' = <<c>>
    BY <1>2 DEF SingleChunk, Chunk
  <2>2. Len(chunks') = 1 /\ DOMAIN chunks' = {1} /\ chunks'[1] = c
    BY <2>1
  <2>3. chunks' \in Seq(Chunk)
    BY <2>1
  <2> QED BY <1>2, <2>1, <2>2, <2>3 DEF SingleChunk
<1>3. CASE EnterLoop
  BY <1>3 DEF EnterLoop
<1>4. CASE Cut
  BY <1>4, CutStep
<1>5. CASE UNCHANGED vars
  BY <1>5 DEF vars
<1> QED
  BY <1>1, <1>2, <1>3, <1>4, <1>5 DEF Next, Terminated

\* The invariant holds in every reachable state.
LEMMA Invariance == Spec => []IInv
BY InvInit, InvStep, PTL DEF Spec

\* Whatever the length of the article, the window and the overlap, any
\* overlap + 1 tokens in a row end up whole in some chunk.
THEOREM NothingIsCut == Spec => []NothingCut
<1>1. IInv => NothingCut
  BY DEF IInv
<1> QED
  BY Invariance, <1>1, PTL

\* Every chunk reaches further than the one before it.
THEOREM ChunksAdvance == Spec => []EachChunkAdds
<1>1. IInv => EachChunkAdds
  BY DEF IInv
<1> QED
  BY Invariance, <1>1, PTL
=============================================================================
