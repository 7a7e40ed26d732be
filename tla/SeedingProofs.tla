---------------------------- MODULE SeedingProofs ----------------------------
(* Proofs about Glpi and Seeding, for any pages, caps, fixtures and callers.  *)
EXTENDS Seeding, FiniteSetTheorems, SequenceTheorems, WellFoundedInduction, TLAPS

USE PageAssumption

-----------------------------------------------------------------------------
(* Lemmas about numbers and lists of rows *)

\* A page that is not empty has a first row.
LEMMA FirstOfPage ==
    ASSUME NEW page \in SUBSET Row, page # {}
    PROVE  First(page) \in page
<1> DEFINE T == {row.id : row \in page}
           R == OpToRel(<, Nat)
<1>1. T \subseteq Nat /\ T # {}
  BY DEF Row
<1>2. \E x \in T : \A y \in T : ~(<<y, x>> \in R)
  <2> HIDE DEF T, R
  <2>1. IsWellFoundedOn(R, Nat)
    BY NatLessThanWellFounded DEF R
  <2> QED BY <1>1, <2>1, WFMin
<1>3. \E x \in T : \A y \in T : x <= y
  <2>1. PICK x \in T : \A y \in T : ~(<<y, x>> \in R)
    BY <1>2
  <2>2. ASSUME NEW y \in T PROVE x <= y
    <3>1. x \in Nat /\ y \in Nat
      BY <1>1
    <3>2. ~(y < x)
      BY <2>1, <3>1 DEF OpToRel
    <3> QED BY <3>1, <3>2
  <2> QED BY <2>2
<1>4. \E row \in page : \A other \in page : row.id <= other.id
  BY <1>3
<1> QED
  BY <1>4 DEF First

\* One element more costs one more at most.
LEMMA OneMore ==
    ASSUME NEW S, IsFiniteSet(S), NEW n \in Nat, Cardinality(S) <= n,
           NEW T, NEW x, T \subseteq S \cup {x}
    PROVE  IsFiniteSet(T) /\ Cardinality(T) <= n + 1
<1>0. Cardinality(S) \in Nat
  BY FS_CardinalityType
<1>1. /\ IsFiniteSet(S \cup {x})
      /\ Cardinality(S \cup {x}) <= Cardinality(S) + 1
  <2>1. /\ IsFiniteSet(S \cup {x})
        /\ Cardinality(S \cup {x}) =
              IF x \in S THEN Cardinality(S) ELSE Cardinality(S) + 1
    BY FS_AddElement
  <2> QED BY <1>0, <2>1
<1>2. IsFiniteSet(T) /\ Cardinality(T) <= Cardinality(S \cup {x})
  BY <1>1, FS_Subset
<1>3. Cardinality(T) \in Nat /\ Cardinality(S \cup {x}) \in Nat
  BY <1>1, <1>2, FS_CardinalityType
<1> QED
  BY <1>0, <1>1, <1>2, <1>3

LEMMA RowFacts ==
    ASSUME NEW rows \in Seq(Row)
    PROVE  /\ DOMAIN rows = 1 .. Len(rows) /\ Len(rows) \in Nat
           /\ \A i \in DOMAIN rows : rows[i] \in Row /\ rows[i].id \in Nat
<1>1. DOMAIN rows = 1 .. Len(rows) /\ Len(rows) \in Nat
  OBVIOUS
<1>2. \A i \in DOMAIN rows : rows[i] \in Row
  BY <1>1
<1>3. \A row \in Row : row.id \in Nat
  BY DEF Row
<1> QED
  BY <1>1, <1>2, <1>3

\* A row is taken out of its list, and those behind it move up by one place.
LEMMA WithoutFacts ==
    ASSUME NEW rows \in Seq(Row), NEW id, NEW w, w = Without(rows, id)
    PROVE  /\ w \in Seq(Row)
           /\ \/ id \notin Ids(rows) /\ w = rows
              \/ \E i \in 1 .. Len(rows) :
                    /\ rows[i].id = id
                    /\ Len(w) = Len(rows) - 1
                    /\ \A j \in 1 .. Len(w) :
                          w[j] = IF j < i THEN rows[j] ELSE rows[j + 1]
<1>1. CASE id \notin Ids(rows)
  BY <1>1 DEF Without
<1>2. CASE id \in Ids(rows)
  <2> DEFINE i == CHOOSE j \in DOMAIN rows : rows[j].id = id
             a == SubSeq(rows, 1, i - 1)
             b == SubSeq(rows, i + 1, Len(rows))
  <2>1. i \in 1 .. Len(rows) /\ rows[i].id = id
    BY <1>2 DEF Ids
  <2>2. w = a \o b
    BY <1>2 DEF Without
  <2> HIDE DEF i
  <2>3. /\ a \in Seq(Row) /\ Len(a) = i - 1
        /\ \A j \in 1 .. i - 1 : a[j] = rows[j]
    BY <2>1
  <2>4. /\ b \in Seq(Row) /\ Len(b) = Len(rows) - i
        /\ \A j \in 1 .. Len(rows) - i : b[j] = rows[j + i]
    BY <2>1
  <2> HIDE DEF a, b
  <2>5. /\ w \in Seq(Row) /\ Len(w) = Len(rows) - 1
        /\ \A j \in 1 .. Len(w) : w[j] = IF j <= i - 1 THEN a[j] ELSE b[j - (i - 1)]
    BY <2>1, <2>2, <2>3, <2>4
  <2>6. ASSUME NEW j \in 1 .. Len(w)
        PROVE  w[j] = IF j < i THEN rows[j] ELSE rows[j + 1]
    <3>1. CASE j < i
      BY <2>1, <2>3, <2>5, <3>1
    <3>2. CASE j >= i
      <4>1. j - (i - 1) \in 1 .. Len(rows) - i /\ (j - (i - 1)) + i = j + 1
        BY <2>1, <2>5, <3>2
      <4> QED BY <2>1, <2>4, <2>5, <3>2, <4>1
    <3> QED BY <2>1, <3>1, <3>2
  <2> QED BY <2>1, <2>5, <2>6
<1> QED
  BY <1>1, <1>2

-----------------------------------------------------------------------------
(* The walk.  Its invariant is about one call s, the lists g of GLPI and the  *)
(* id n that GLPI gives out next.                                             *)

\* GLPI lists its rows by id, and no id is given out twice.
StoreOK(g, n) ==
    /\ g \in [Endpoint -> Seq(Row)]
    /\ n \in Nat
    /\ \A e \in Endpoint : \A i \in DOMAIN g[e] :
          /\ g[e][i].id < n
          /\ \A j \in DOMAIN g[e] : i < j => g[e][i].id < g[e][j].id

\* The rows a walk has yet to ask for lie behind this place of the list.
Ahead(s) == IF s.pc = "page" THEN s.offset ELSE s.offset + PageSize
Beyond(s, g) ==
    {g[s.endpoint][j].id : j \in {k \in DOMAIN g[s.endpoint] : k > Ahead(s)}}
PageIds(s) == {row.id : row \in s.page}
Met(s) == Ids(s.out) \cup PageIds(s)
Missed(s, g) ==
    IF s.pc = "listed" THEN s.seen \ Ids(s.out)
                       ELSE s.seen \ (Met(s) \cup Beyond(s, g))

InOrder(s, g, n) ==
    /\ \A i, j \in DOMAIN s.out : s.out[i].id = s.out[j].id => i = j
    /\ \A x \in Met(s) \cup s.seen : x \in Nat /\ x < n
    /\ s.pc = "page" => s.page = {} /\ ~s.short
    /\ s.pc \in {"page", "rows"} =>
          /\ Ids(s.out) \cap PageIds(s) = {}
          /\ \A r, q \in s.page : r.id = q.id => r = q
          /\ ~s.short => \A x \in Met(s), y \in Beyond(s, g) : x < y

Thorough(s, g) ==
    /\ IsFiniteSet(s.seen)
    /\ s.pc \in {"page", "rows", "listed"} => Cardinality(Missed(s, g)) <= s.shifts
    /\ s.pc \in {"page", "rows"} =>
          /\ s.short => Beyond(s, g) \cap s.seen = {}
          /\ \A j \in DOMAIN g[s.endpoint] : g[s.endpoint][j].id \in s.seen =>
                /\ j <= MaxTotal
                /\ s.endpoint = "Ticket" => Resolved(g[s.endpoint][j])

IsSession(s) ==
    /\ DOMAIN s = DOMAIN Idle
    /\ s.pc \in Pc /\ s.job \in Job /\ s.endpoint \in Endpoint
    /\ s.offset \in Nat /\ s.page \in SUBSET Row /\ s.short \in BOOLEAN
    /\ s.out \in Seq(Handed) /\ s.shifts \in Nat
    /\ s.tickets \in Seq(Fixture) /\ s.articles \in Seq(Names)
    /\ s.missing \subseteq Categories /\ s.tid \in Nat

WalkOK(s, g, n) == IsSession(s) /\ InOrder(s, g, n) /\ Thorough(s, g)

\* A call that is not walking keeps its invariant whatever becomes of GLPI.
LEMMA RestOK ==
    ASSUME NEW s, NEW g, NEW n, NEW h, NEW m, WalkOK(s, g, n), n \in Nat, m \in Nat, n <= m,
           s.pc \notin {"page", "rows"}
    PROVE  WalkOK(s, h, m)
<1>1. \A x \in Met(s) \cup s.seen : x \in Nat /\ x < m
  BY DEF WalkOK, InOrder
<1>2. InOrder(s, h, m)
  BY <1>1 DEF WalkOK, InOrder
<1>3. s.pc = "listed" => Missed(s, h) = Missed(s, g)
  BY DEF Missed
<1>4. Thorough(s, h)
  BY <1>3 DEF WalkOK, Thorough
<1> QED
  BY <1>2, <1>4 DEF WalkOK

\* A row that is added, under a new id, is behind every walk.
LEMMA AppendOK ==
    ASSUME NEW s, NEW g, NEW n, NEW e \in Endpoint, NEW row \in Row, row.id = n,
           StoreOK(g, n), WalkOK(s, g, n), NEW h, h = [g EXCEPT ![e] = Append(@, row)]
    PROVE  StoreOK(h, n + 1) /\ WalkOK(s, h, n + 1)
<1>0. /\ n \in Nat /\ g[e] \in Seq(Row) /\ h \in [Endpoint -> Seq(Row)]
      /\ h[e] = Append(g[e], row) /\ Len(h[e]) = Len(g[e]) + 1
      /\ \A f \in Endpoint : f # e => h[f] = g[f]
  BY DEF StoreOK
<1>1. /\ h[e][Len(g[e]) + 1] = row
      /\ \A i \in DOMAIN g[e] : h[e][i] = g[e][i]
      /\ DOMAIN h[e] = 1 .. Len(g[e]) + 1 /\ DOMAIN g[e] = 1 .. Len(g[e])
  BY <1>0
<1>2. StoreOK(h, n + 1)
  <2>1. ASSUME NEW f \in Endpoint, NEW i \in DOMAIN h[f], NEW j \in DOMAIN h[f]
        PROVE  h[f][i].id < n + 1 /\ (i < j => h[f][i].id < h[f][j].id)
    <3>1. CASE f # e
      <4>1. h[f] = g[f] /\ g[f] \in Seq(Row)
        BY <1>0, <3>1 DEF StoreOK
      <4>2. g[f][i].id \in Nat
        BY <2>1, <4>1, RowFacts
      <4> QED BY <1>0, <2>1, <4>1, <4>2 DEF StoreOK
    <3>2. CASE f = e
      <4>1. \A k \in DOMAIN g[e] : g[e][k] \in Row /\ g[e][k].id \in Nat
        BY <1>0, RowFacts
      <4>2. h[e][i].id \in Nat /\ h[e][i].id < n + 1
        BY <1>0, <1>1, <2>1, <3>2, <4>1 DEF StoreOK
      <4>3. CASE j \in DOMAIN g[e]
        BY <1>0, <1>1, <2>1, <3>2, <4>1, <4>2, <4>3 DEF StoreOK
      <4>4. CASE j = Len(g[e]) + 1
        BY <1>0, <1>1, <2>1, <3>2, <4>1, <4>2, <4>4 DEF StoreOK
      <4> QED BY <1>0, <1>1, <3>2, <4>3, <4>4
    <3> QED BY <3>1, <3>2
  <2>2. n + 1 \in Nat
    BY <1>0
  <2> QED BY <1>0, <2>1, <2>2 DEF StoreOK
<1>3. CASE s.pc \in {"page", "rows"}
  <2>0. /\ IsSession(s) /\ s.endpoint \in Endpoint /\ s.offset \in Nat /\ Ahead(s) \in Nat
        /\ s.shifts \in Nat
    BY DEF WalkOK, IsSession, Ahead
  <2>1. Beyond(s, g) \subseteq Beyond(s, h) /\ Beyond(s, h) \subseteq Beyond(s, g) \cup {n}
    <3>1. CASE s.endpoint # e
      BY <1>0, <2>0, <3>1 DEF Beyond
    <3>2. CASE s.endpoint = e
      <4>1. ASSUME NEW j \in DOMAIN h[e], j > Ahead(s)
            PROVE  h[e][j].id \in Beyond(s, g) \cup {n}
        BY <1>0, <1>1, <3>2, <4>1 DEF Beyond
      <4>2. ASSUME NEW j \in DOMAIN g[e], j > Ahead(s)
            PROVE  g[e][j].id \in Beyond(s, h)
        <5>1. j \in DOMAIN h[e] /\ h[e][j] = g[e][j]
          BY <1>0, <1>1, <4>2
        <5> QED BY <3>2, <4>2, <5>1 DEF Beyond
      <4> QED BY <3>2, <4>1, <4>2 DEF Beyond
    <3> QED BY <3>1, <3>2
  <2>2. n \notin s.seen /\ \A x \in Met(s) \cup s.seen : x \in Nat /\ x < n /\ x < n + 1
    BY <1>0 DEF WalkOK, InOrder
  <2>3. InOrder(s, h, n + 1)
    BY <1>3, <2>1, <2>2 DEF WalkOK, InOrder
  <2>4. Missed(s, h) = Missed(s, g)
    BY <1>3, <2>1, <2>2 DEF Missed
  <2>5. ASSUME NEW j \in DOMAIN h[s.endpoint], h[s.endpoint][j].id \in s.seen
        PROVE  /\ j \in DOMAIN g[s.endpoint] /\ h[s.endpoint][j] = g[s.endpoint][j]
    BY <1>0, <1>1, <2>0, <2>2, <2>5
  <2>6. \A j \in DOMAIN h[s.endpoint] : h[s.endpoint][j].id \in s.seen =>
            /\ j <= MaxTotal
            /\ s.endpoint = "Ticket" => Resolved(h[s.endpoint][j])
    BY <1>3, <2>5 DEF WalkOK, Thorough
  <2>7. Thorough(s, h)
    BY <1>3, <2>1, <2>2, <2>4, <2>6 DEF WalkOK, Thorough
  <2> QED BY <1>2, <2>0, <2>3, <2>7 DEF WalkOK
<1> QED
  BY <1>0, <1>2, <1>3, RestOK

\* A row whose status becomes a resolved one, and whose solution changes,
\* stays where it is.
LEMMA UpdateOK ==
    ASSUME NEW s, NEW g, NEW n, StoreOK(g, n), WalkOK(s, g, n),
           NEW h \in [Endpoint -> Seq(Row)], h["KnowbaseItem"] = g["KnowbaseItem"],
           Len(h["Ticket"]) = Len(g["Ticket"]),
           \A i \in DOMAIN g["Ticket"] :
              /\ h["Ticket"][i].id = g["Ticket"][i].id
              /\ Resolved(g["Ticket"][i]) => Resolved(h["Ticket"][i])
    PROVE  StoreOK(h, n) /\ WalkOK(s, h, n)
<1>0. /\ n \in Nat /\ g \in [Endpoint -> Seq(Row)]
      /\ \A f \in Endpoint : /\ DOMAIN h[f] = DOMAIN g[f]
                             /\ \A i \in DOMAIN g[f] : h[f][i].id = g[f][i].id
      /\ IsSession(s) /\ s.endpoint \in Endpoint
  <2>1. n \in Nat /\ g \in [Endpoint -> Seq(Row)] /\ IsSession(s) /\ s.endpoint \in Endpoint
    BY DEF StoreOK, WalkOK, IsSession
  <2>2. g["Ticket"] \in Seq(Row) /\ h["Ticket"] \in Seq(Row)
    BY <2>1 DEF Endpoint
  <2>3. DOMAIN g["Ticket"] = DOMAIN h["Ticket"]
    BY <2>2
  <2> QED BY <2>1, <2>3 DEF Endpoint
<1>1. StoreOK(h, n)
  BY <1>0 DEF StoreOK
<1>2. CASE s.pc \in {"page", "rows"}
  <2>1. Beyond(s, h) = Beyond(s, g)
    BY <1>0 DEF Beyond
  <2>2. Missed(s, h) = Missed(s, g)
    BY <2>1 DEF Missed
  <2>3. \A j \in DOMAIN h[s.endpoint] : h[s.endpoint][j].id \in s.seen =>
            /\ j <= MaxTotal
            /\ s.endpoint = "Ticket" => Resolved(h[s.endpoint][j])
    BY <1>0, <1>2 DEF WalkOK, Thorough
  <2>4. Thorough(s, h)
    BY <1>2, <2>1, <2>2, <2>3 DEF WalkOK, Thorough
  <2>5. InOrder(s, h, n)
    BY <2>1 DEF WalkOK, InOrder
  <2> QED BY <1>0, <1>1, <2>4, <2>5 DEF WalkOK
<1> QED
  BY <1>0, <1>1, <1>2, RestOK

\* A table without one of its rows, and a walk that counts the row gone.
Purged(g, e, id) == [g EXCEPT ![e] = Without(@, id)]
Slid(s, e) == IF s.pc \in {"page", "rows"} /\ s.endpoint = e
              THEN [s EXCEPT !.shifts = @ + 1] ELSE s

\* A purged row shifts one row past a walk, itself or the one that was next.
LEMMA PurgeOK ==
    ASSUME NEW s, NEW g, NEW n, NEW e \in Endpoint, NEW id,
           StoreOK(g, n), WalkOK(s, g, n)
    PROVE  StoreOK(Purged(g, e, id), n) /\ WalkOK(Slid(s, e), Purged(g, e, id), n)
<1> DEFINE h == Purged(g, e, id)
           t == Slid(s, e)
<1>h. /\ h = [g EXCEPT ![e] = Without(@, id)]
      /\ t = IF s.pc \in {"page", "rows"} /\ s.endpoint = e
             THEN [s EXCEPT !.shifts = @ + 1] ELSE s
  BY DEF Purged, Slid
<1> SUFFICES StoreOK(h, n) /\ WalkOK(t, h, n)
  OBVIOUS
<1> HIDE DEF h, t
<1>0. /\ n \in Nat /\ g[e] \in Seq(Row) /\ h[e] = Without(g[e], id)
      /\ \A f \in Endpoint : f # e => h[f] = g[f]
      /\ \A f \in Endpoint : g[f] \in Seq(Row)
      /\ IsSession(s) /\ s.endpoint \in Endpoint /\ Ahead(s) \in Nat /\ s.shifts \in Nat
  BY <1>h DEF StoreOK, WalkOK, IsSession, Ahead
<1>1. /\ h[e] \in Seq(Row)
      /\ \/ id \notin Ids(g[e]) /\ h[e] = g[e]
         \/ \E i \in 1 .. Len(g[e]) :
               /\ g[e][i].id = id
               /\ Len(h[e]) = Len(g[e]) - 1
               /\ \A j \in 1 .. Len(h[e]) :
                     h[e][j] = IF j < i THEN g[e][j] ELSE g[e][j + 1]
  <2> DEFINE rows == g[e]
             w == h[e]
  <2>1. rows \in Seq(Row) /\ w = Without(rows, id)
    BY <1>0
  <2> HIDE DEF rows, w
  <2>2. /\ w \in Seq(Row)
        /\ \/ id \notin Ids(rows) /\ w = rows
           \/ \E i \in 1 .. Len(rows) :
                 /\ rows[i].id = id
                 /\ Len(w) = Len(rows) - 1
                 /\ \A j \in 1 .. Len(w) :
                       w[j] = IF j < i THEN rows[j] ELSE rows[j + 1]
    BY <2>1, WithoutFacts
  <2> QED BY <2>2 DEF rows, w
<1>2. /\ h \in [Endpoint -> Seq(Row)]
      /\ DOMAIN h[e] = 1 .. Len(h[e]) /\ Len(h[e]) \in Nat
      /\ DOMAIN g[e] = 1 .. Len(g[e]) /\ Len(g[e]) \in Nat
  BY <1>0, <1>1, <1>h, RowFacts DEF StoreOK
\* What is listed afterwards was listed before, at the same place or the next.
<1>3. ASSUME NEW j \in DOMAIN h[e]
      PROVE  \E k \in DOMAIN g[e] : k \in {j, j + 1} /\ h[e][j] = g[e][k]
  <2>1. CASE h[e] = g[e]
    BY <1>3, <2>1
  <2>2. CASE h[e] # g[e]
    <3>1. PICK i \in 1 .. Len(g[e]) :
               /\ Len(h[e]) = Len(g[e]) - 1
               /\ \A k \in 1 .. Len(h[e]) :
                     h[e][k] = IF k < i THEN g[e][k] ELSE g[e][k + 1]
      BY <1>1, <2>2
    <3>2. j \in DOMAIN g[e] /\ j + 1 \in DOMAIN g[e]
      BY <1>2, <1>3, <3>1
    <3>3. h[e][j] = g[e][j] \/ h[e][j] = g[e][j + 1]
      BY <1>2, <1>3, <3>1
    <3> QED BY <3>2, <3>3
  <2> QED BY <2>1, <2>2
<1>4. ASSUME NEW j \in DOMAIN h[e], NEW l \in DOMAIN h[e], j < l
      PROVE  h[e][j].id < h[e][l].id
  <2>1. CASE h[e] = g[e]
    BY <1>4, <2>1 DEF StoreOK
  <2>2. CASE h[e] # g[e]
    <3>1. PICK i \in 1 .. Len(g[e]) :
               /\ Len(h[e]) = Len(g[e]) - 1
               /\ \A k \in 1 .. Len(h[e]) :
                     h[e][k] = IF k < i THEN g[e][k] ELSE g[e][k + 1]
      BY <1>1, <2>2
    <3> DEFINE Was(k) == IF k < i THEN k ELSE k + 1
    <3>2. /\ Was(j) \in DOMAIN g[e] /\ Was(l) \in DOMAIN g[e] /\ Was(j) < Was(l)
          /\ h[e][j] = g[e][Was(j)] /\ h[e][l] = g[e][Was(l)]
      BY <1>2, <1>4, <3>1
    <3> HIDE DEF Was
    <3> QED BY <3>2 DEF StoreOK
  <2> QED BY <2>1, <2>2
<1>5. StoreOK(h, n)
  <2>1. ASSUME NEW f \in Endpoint, NEW i \in DOMAIN h[f]
        PROVE  /\ h[f][i].id < n
               /\ \A j \in DOMAIN h[f] : i < j => h[f][i].id < h[f][j].id
    BY <1>0, <1>3, <1>4, <2>1 DEF StoreOK
  <2> QED BY <1>0, <1>2, <2>1 DEF StoreOK
<1>6. CASE ~(s.pc \in {"page", "rows"} /\ s.endpoint = e)
  <2>1. t = s
    BY <1>6, <1>h
  <2>2. CASE s.pc \notin {"page", "rows"}
    BY <1>0, <2>1, <2>2, <1>5, RestOK
  <2>3. CASE s.endpoint # e
    <3>1. h[s.endpoint] = g[s.endpoint]
      BY <1>0, <2>3
    <3>2. Beyond(s, h) = Beyond(s, g) /\ Missed(s, h) = Missed(s, g)
      BY <3>1 DEF Beyond, Missed
    <3>3. InOrder(s, h, n) /\ Thorough(s, h)
      BY <3>1, <3>2 DEF WalkOK, InOrder, Thorough
    <3> QED BY <1>0, <1>5, <2>1, <3>3 DEF WalkOK
  <2> QED BY <1>6, <2>2, <2>3
<1>7. CASE s.pc \in {"page", "rows"} /\ s.endpoint = e
  <2>0. t = [s EXCEPT !.shifts = s.shifts + 1]
    BY <1>7, <1>h
  <2>2. /\ t.pc = s.pc /\ t.endpoint = e /\ t.seen = s.seen /\ t.out = s.out
        /\ t.page = s.page /\ t.short = s.short /\ t.shifts = s.shifts + 1
        /\ t.offset = s.offset /\ IsSession(t)
    BY <1>0, <1>7, <2>0 DEF IsSession, Idle
  <2>1. Ahead(t) = Ahead(s) /\ Met(t) = Met(s) /\ PageIds(t) = PageIds(s)
    BY <2>2 DEF Ahead, Met, PageIds
  <2>3. Beyond(t, h) \subseteq Beyond(s, g)
    <3>1. ASSUME NEW j \in DOMAIN h[e], j > Ahead(s)
          PROVE  h[e][j].id \in Beyond(s, g)
      <4>1. PICK k \in DOMAIN g[e] : k \in {j, j + 1} /\ h[e][j] = g[e][k]
        BY <1>3
      <4>2. k > Ahead(s)
        BY <1>0, <1>2, <3>1, <4>1
      <4> QED BY <1>7, <4>1, <4>2 DEF Beyond
    <3> QED BY <2>1, <2>2, <3>1 DEF Beyond
  <2>4. \E x : Beyond(s, g) \subseteq Beyond(t, h) \cup {x}
    <3>1. CASE h[e] = g[e]
      BY <1>7, <2>1, <2>2, <3>1 DEF Beyond
    <3>2. CASE h[e] # g[e]
      <4>1. PICK i \in 1 .. Len(g[e]) :
               /\ Len(h[e]) = Len(g[e]) - 1
               /\ \A k \in 1 .. Len(h[e]) :
                     h[e][k] = IF k < i THEN g[e][k] ELSE g[e][k + 1]
        BY <1>1, <3>2
      <4> DEFINE x == IF i > Ahead(s) THEN g[e][i].id ELSE g[e][Ahead(s) + 1].id
      <4>2. ASSUME NEW k \in DOMAIN g[e], k > Ahead(s), g[e][k].id # x
            PROVE  g[e][k].id \in Beyond(t, h)
        <5>1. k # i /\ (i <= Ahead(s) => k # Ahead(s) + 1)
          BY <1>0, <4>2
        <5>2. CASE k < i
          <6>1. k \in DOMAIN h[e] /\ h[e][k] = g[e][k]
            BY <1>2, <4>1, <5>2
          <6> QED BY <2>1, <2>2, <4>2, <6>1 DEF Beyond
        <5>3. CASE k > i
          <6>1. /\ k - 1 \in DOMAIN h[e] /\ h[e][k - 1] = g[e][k]
                /\ k - 1 > Ahead(s)
            BY <1>0, <1>2, <4>1, <4>2, <5>1, <5>3
          <6> QED BY <2>1, <2>2, <6>1 DEF Beyond
        <5> QED BY <1>2, <4>1, <5>1, <5>2, <5>3
      <4> HIDE DEF x
      <4>3. Beyond(s, g) \subseteq Beyond(t, h) \cup {x}
        BY <1>7, <4>2 DEF Beyond
      <4> QED BY <4>3
    <3> QED BY <3>1, <3>2
  <2>5. InOrder(t, h, n)
    <3>1. InOrder(s, g, n)
      BY DEF WalkOK
    <3>2. \A y \in Beyond(t, h) : y \in Beyond(s, g)
      BY <2>3
    <3> HIDE DEF Met, Beyond, PageIds
    <3> QED BY <1>7, <2>1, <2>2, <3>1, <3>2 DEF InOrder
  <2>6. Cardinality(Missed(t, h)) <= t.shifts
    <3>1. PICK x : Beyond(s, g) \subseteq Beyond(t, h) \cup {x}
      BY <2>4
    <3>2. Missed(t, h) \subseteq Missed(s, g) \cup {x}
      BY <1>7, <2>1, <2>2, <3>1 DEF Missed
    <3>3. IsFiniteSet(Missed(s, g)) /\ Cardinality(Missed(s, g)) <= s.shifts
      <4>1. Missed(s, g) \subseteq s.seen /\ IsFiniteSet(s.seen)
        BY DEF Missed, WalkOK, Thorough
      <4> QED BY <1>7, <4>1, FS_Subset DEF WalkOK, Thorough
    <3>4. Cardinality(Missed(t, h)) <= s.shifts + 1
      BY <1>0, <3>2, <3>3, OneMore
    <3> QED BY <2>2, <3>4
  <2>7. \A j \in DOMAIN h[e] : h[e][j].id \in s.seen =>
            /\ j <= MaxTotal
            /\ e = "Ticket" => Resolved(h[e][j])
    <3>1. ASSUME NEW j \in DOMAIN h[e], h[e][j].id \in s.seen
          PROVE  j <= MaxTotal /\ (e = "Ticket" => Resolved(h[e][j]))
      <4>1. PICK k \in DOMAIN g[e] : k \in {j, j + 1} /\ h[e][j] = g[e][k]
        BY <1>3
      <4>2. k <= MaxTotal /\ (e = "Ticket" => Resolved(g[e][k]))
        BY <1>7, <3>1, <4>1 DEF WalkOK, Thorough
      <4> QED BY <1>2, <4>1, <4>2
    <3> QED BY <3>1
  <2>8. Thorough(t, h)
    BY <1>7, <2>1, <2>2, <2>3, <2>6, <2>7 DEF WalkOK, Thorough
  <2> QED BY <1>5, <2>2, <2>5, <2>8 DEF WalkOK
<1> QED
  BY <1>6, <1>7

-----------------------------------------------------------------------------
(* The steps of the walk itself *)

\* A call at rest.
LEMMA IdleOK ==
    ASSUME NEW g, NEW n \in Nat PROVE WalkOK(Idle, g, n)
<1>1. IsSession(Idle)
  BY DEF IsSession, Idle, Pc, Job, Endpoint
<1>2. /\ Idle.out = <<>> /\ Idle.page = {} /\ Idle.seen = {} /\ Idle.pc = "idle"
      /\ Ids(Idle.out) = {} /\ PageIds(Idle) = {}
  BY DEF Idle, Ids, PageIds
<1>3. InOrder(Idle, g, n)
  BY <1>2 DEF InOrder, Met
<1>4. Thorough(Idle, g)
  BY <1>2, FS_EmptySet DEF Thorough
<1> QED
  BY <1>1, <1>3, <1>4 DEF WalkOK

\* A walk that begins has everything before it.
LEMMA StartOK ==
    ASSUME NEW job \in Job, NEW e \in Endpoint, StoreOK(glpi, nextId)
    PROVE  WalkOK(Walk(job, e), glpi, nextId)
<1> DEFINE s == Walk(job, e)
<1>1. /\ IsSession(s) /\ s.pc = "page" /\ s.endpoint = e /\ s.offset = 0 /\ s.page = {}
      /\ s.out = <<>> /\ s.shifts = 0 /\ ~s.short /\ s.seen = Wanted(e)
  BY DEF IsSession, Walk, Idle, Pc, Job, Endpoint
<1> HIDE DEF s
<1>2. Met(s) = {}
  BY <1>1 DEF Met, Ids, PageIds
<1>3. /\ nextId \in Nat /\ glpi[e] \in Seq(Row)
      /\ \A i \in DOMAIN glpi[e] : glpi[e][i].id \in Nat /\ glpi[e][i].id < nextId
  BY RowFacts DEF StoreOK
<1>4. \A x \in s.seen : x \in Nat /\ x < nextId
  BY <1>1, <1>3 DEF Wanted
<1>5. IsFiniteSet(s.seen)
  <2>1. s.seen \subseteq 0 .. nextId /\ IsFiniteSet(0 .. nextId)
    BY <1>3, <1>4, FS_Interval
  <2> QED BY <2>1, FS_Subset
<1>6. Missed(s, glpi) = {}
  <2>1. s.seen \subseteq Beyond(s, glpi)
    BY <1>1, <1>3, RowFacts DEF Wanted, Beyond, Ahead
  <2> QED BY <1>1, <2>1 DEF Missed
<1>7. ASSUME NEW j \in DOMAIN glpi[e], glpi[e][j].id \in s.seen
      PROVE  j <= MaxTotal /\ (e = "Ticket" => Resolved(glpi[e][j]))
  <2>1. PICK i \in DOMAIN glpi[e] :
              /\ i <= MaxTotal /\ (e = "Ticket" => Resolved(glpi[e][i]))
              /\ glpi[e][i].id = glpi[e][j].id
    BY <1>1, <1>7 DEF Wanted
  <2>2. i = j
    BY <1>3, <2>1, RowFacts DEF StoreOK
  <2> QED BY <2>1, <2>2
<1>8. InOrder(s, glpi, nextId)
  BY <1>1, <1>2, <1>4 DEF InOrder, Ids, PageIds
<1>9. Thorough(s, glpi)
  BY <1>1, <1>5, <1>6, <1>7, FS_EmptySet DEF Thorough
<1> QED
  BY <1>1, <1>8, <1>9 DEF WalkOK, s

\* get_ticket: a walk over a page of one row, that looks for nothing.
LEMMA GetOK ==
    ASSUME NEW i \in DOMAIN glpi["Ticket"], StoreOK(glpi, nextId),
           NEW s, s = [Idle EXCEPT !.pc = "rows", !.job = "get", !.short = TRUE,
                                   !.page = {glpi["Ticket"][i]}]
    PROVE  WalkOK(s, glpi, nextId)
<1>0. glpi["Ticket"] \in Seq(Row) /\ "Ticket" \in Endpoint
  BY DEF StoreOK, Endpoint
<1>1. /\ glpi["Ticket"][i] \in Row
      /\ glpi["Ticket"][i].id \in Nat /\ glpi["Ticket"][i].id < nextId
  BY <1>0, RowFacts DEF StoreOK
<1>2. /\ IsSession(s) /\ s.pc = "rows" /\ s.out = <<>> /\ s.seen = {} /\ s.short
      /\ s.page = {glpi["Ticket"][i]} /\ s.shifts = 0
  BY <1>1 DEF IsSession, Idle, Pc, Job, Endpoint
<1>3. Ids(s.out) = {} /\ PageIds(s) = {glpi["Ticket"][i].id}
  BY <1>2 DEF Ids, PageIds
<1>4. InOrder(s, glpi, nextId)
  BY <1>1, <1>2, <1>3 DEF InOrder, Met
<1>5. Missed(s, glpi) = {}
  BY <1>2 DEF Missed
<1>6. Thorough(s, glpi)
  <2>1. IsFiniteSet({}) /\ Cardinality({}) = 0
    BY FS_EmptySet
  <2>2. Beyond(s, glpi) \cap s.seen = {} /\ \A x : x \notin s.seen
    BY <1>2
  <2>3. s.seen = {} /\ s.shifts = 0 /\ s.pc = "rows"
    BY <1>2
  <2> QED BY <1>5, <2>1, <2>2, <2>3 DEF Thorough
<1> QED
  BY <1>2, <1>4, <1>6 DEF WalkOK

\* After a row: the next row, the next page or the end of the walk.
LEMMA PageEndOK ==
    ASSUME NEW u, NEW g, NEW n, WalkOK(u, g, n), u.pc = "rows",
           g \in [Endpoint -> Seq(Row)]
    PROVE  WalkOK(PageEnd(u), g, n)
<1> DEFINE t == PageEnd(u)
<1>0. IsSession(u) /\ u.offset \in Nat /\ u.endpoint \in Endpoint /\ Ahead(u) = u.offset + PageSize
  BY DEF WalkOK, IsSession, Ahead
<1>1. CASE u.page # {}
  BY <1>1 DEF PageEnd
<1>2. CASE u.page = {} /\ (u.short \/ u.offset + PageSize >= MaxTotal)
  <2>1. t = [u EXCEPT !.pc = "listed", !.page = {}, !.offset = 0]
    BY <1>2 DEF PageEnd, Listed
  <2>2. /\ IsSession(t) /\ t.pc = "listed" /\ t.out = u.out /\ t.page = {} /\ t.seen = u.seen
        /\ t.shifts = u.shifts
    BY <1>0, <2>1 DEF IsSession, Idle, Pc
  <2> HIDE DEF t
  <2>3. Beyond(u, g) \cap u.seen = {}
    <3>1. CASE u.short
      BY <3>1 DEF WalkOK, Thorough
    <3>2. CASE u.offset + PageSize >= MaxTotal
      <4>1. ASSUME NEW k \in DOMAIN g[u.endpoint], k > Ahead(u), g[u.endpoint][k].id \in u.seen
            PROVE  FALSE
        <5>1. k <= MaxTotal /\ k \in Nat
          BY <1>0, <4>1, RowFacts DEF WalkOK, Thorough
        <5> QED BY <1>0, <3>2, <4>1, <5>1
      <4> QED BY <4>1 DEF Beyond
    <3> QED BY <1>2, <3>1, <3>2
  <2>4. PageIds(u) = {} /\ PageIds(t) = {} /\ Met(t) = Met(u) /\ Met(u) = Ids(u.out)
    BY <1>2, <2>2 DEF PageIds, Met
  <2>5. Missed(t, g) = Missed(u, g)
    BY <2>2, <2>3, <2>4 DEF Missed
  <2>6. InOrder(t, g, n)
    BY <2>2, <2>4 DEF WalkOK, InOrder
  <2>7. Thorough(t, g)
    BY <2>2, <2>5 DEF WalkOK, Thorough
  <2> QED BY <2>2, <2>6, <2>7 DEF WalkOK, t
<1>3. CASE u.page = {} /\ ~u.short /\ ~(u.offset + PageSize >= MaxTotal)
  <2>1. t = [u EXCEPT !.pc = "page", !.offset = u.offset + PageSize]
    BY <1>3 DEF PageEnd, NextOffset
  <2>2. /\ IsSession(t) /\ t.pc = "page" /\ t.out = u.out /\ t.page = {} /\ t.seen = u.seen
        /\ t.shifts = u.shifts /\ t.endpoint = u.endpoint /\ t.short = u.short
        /\ t.offset = u.offset + PageSize
    BY <1>0, <1>3, <2>1 DEF IsSession, Idle, Pc
  <2> HIDE DEF t
  <2>3. /\ PageIds(t) = PageIds(u) /\ Met(t) = Met(u) /\ Ahead(t) = Ahead(u)
        /\ Beyond(t, g) = Beyond(u, g)
    BY <1>0, <1>3, <2>2 DEF PageIds, Met, Ahead, Beyond
  <2>4. Missed(t, g) = Missed(u, g)
    BY <2>2, <2>3 DEF Missed
  <2>5. InOrder(t, g, n)
    BY <1>3, <2>2, <2>3 DEF WalkOK, InOrder
  <2>6. Thorough(t, g)
    BY <2>2, <2>3, <2>4 DEF WalkOK, Thorough
  <2> QED BY <2>2, <2>5, <2>6 DEF WalkOK, t
<1> QED
  BY <1>1, <1>2, <1>3

\* A page, place by place.
LEMMA PageFacts ==
    ASSUME NEW all \in Seq(Row), NEW offset \in Nat, NEW rows, rows = PageAt(all, offset)
    PROVE  /\ rows \in Seq(Row) /\ DOMAIN rows = 1 .. Len(rows) /\ Len(rows) \in Nat
           /\ \A i \in 1 .. Len(rows) : /\ offset + i \in DOMAIN all
                                        /\ rows[i] = all[offset + i]
                                        /\ offset + i <= offset + PageSize
           /\ \A k \in DOMAIN all : k > offset /\ k <= offset + PageSize =>
                 k - offset \in 1 .. Len(rows) /\ rows[k - offset] = all[k]
           /\ Len(rows) < PageSize => \A k \in DOMAIN all : k <= offset + PageSize
<1> DEFINE hi == Lesser(offset + PageSize, Len(all))
<1>0. /\ Len(all) \in Nat /\ offset + PageSize \in Nat
      /\ \A k \in DOMAIN all : k \in Nat /\ 1 <= k /\ k <= Len(all)
      /\ \A k \in Nat : 1 <= k /\ k <= Len(all) => k \in DOMAIN all
  OBVIOUS
<1>1. /\ hi \in Nat /\ hi <= Len(all) /\ hi <= offset + PageSize
      /\ hi = Len(all) \/ hi = offset + PageSize
  <2> DEFINE x == offset + PageSize
             y == Len(all)
  <2>1. x \in Nat /\ y \in Nat
    BY <1>0
  <2> HIDE DEF x, y
  <2>2. /\ Lesser(x, y) \in Nat /\ Lesser(x, y) <= y /\ Lesser(x, y) <= x
        /\ Lesser(x, y) = y \/ Lesser(x, y) = x
    BY <2>1 DEF Lesser
  <2> QED BY <2>2 DEF x, y
<1>2. rows = SubSeq(all, offset + 1, hi)
  BY DEF PageAt
<1> HIDE DEF hi
<1>3. /\ rows \in Seq(Row)
      /\ Len(rows) = IF offset + 1 <= hi THEN hi - offset ELSE 0
      /\ \A i \in 1 .. Len(rows) : rows[i] = all[offset + i]
  <2>1. \A i \in offset + 1 .. hi : all[i] \in Row
    <3>1. \A i \in offset + 1 .. hi : i \in DOMAIN all
      BY <1>0, <1>1
    <3> QED BY <3>1, RowFacts
  <2>2. offset + 1 \in Int /\ hi \in Int
    BY <1>1
  <2>3. /\ SubSeq(all, offset + 1, hi) \in Seq(Row)
        /\ Len(SubSeq(all, offset + 1, hi)) =
              IF offset + 1 <= hi THEN hi - (offset + 1) + 1 ELSE 0
        /\ \A i \in 1 .. hi - (offset + 1) + 1 :
              SubSeq(all, offset + 1, hi)[i] = all[(offset + 1) + i - 1]
    BY <2>1, <2>2, SubSeqProperties
  <2>4. Len(rows) = IF offset + 1 <= hi THEN hi - offset ELSE 0
    BY <1>1, <1>2, <2>3
  <2>5. ASSUME NEW i \in 1 .. Len(rows) PROVE rows[i] = all[offset + i]
    <3>1. i \in 1 .. hi - (offset + 1) + 1 /\ (offset + 1) + i - 1 = offset + i
      BY <1>1, <2>4
    <3> QED BY <1>2, <2>3, <3>1
  <2> QED BY <1>2, <2>3, <2>4, <2>5
<1>4. Len(rows) \in Nat /\ DOMAIN rows = 1 .. Len(rows)
  BY <1>3
<1>5. ASSUME NEW i \in 1 .. Len(rows)
      PROVE  offset + i \in DOMAIN all /\ offset + i <= offset + PageSize
  <2>1. offset + i \in Nat /\ 1 <= offset + i /\ offset + i <= hi
    BY <1>1, <1>3
  <2> QED BY <1>0, <1>1, <2>1
<1>6. ASSUME NEW k \in DOMAIN all, k > offset, k <= offset + PageSize
      PROVE  k - offset \in 1 .. Len(rows) /\ rows[k - offset] = all[k]
  <2>1. k \in Nat /\ k <= hi
    BY <1>0, <1>1, <1>6
  <2>2. Len(rows) = hi - offset
    BY <1>1, <1>3, <1>6, <2>1
  <2>3. k - offset \in 1 .. Len(rows) /\ offset + (k - offset) = k
    BY <1>1, <1>6, <2>1, <2>2
  <2> QED BY <1>3, <2>3
<1>7. ASSUME Len(rows) < PageSize, NEW k \in DOMAIN all PROVE k <= offset + PageSize
  <2>1. hi < offset + PageSize
    BY <1>1, <1>3, <1>7
  <2> QED BY <1>0, <1>1, <2>1
<1> QED
  BY <1>3, <1>4, <1>5, <1>6, <1>7

\* The rows a purge lists.
LEMMA FirstRows ==
    ASSUME NEW all \in Seq(Row)
    PROVE  LET rows == SubSeq(all, 1, Lesser(PageSize, Len(all)))
           IN  /\ rows \in Seq(Row)
               /\ \A i \in DOMAIN rows : i \in DOMAIN all /\ rows[i] = all[i]
<1> DEFINE hi == Lesser(PageSize, Len(all))
           rows == SubSeq(all, 1, hi)
<1>1. /\ Len(all) \in Nat /\ DOMAIN all = 1 .. Len(all)
      /\ \A i \in DOMAIN all : all[i] \in Row
  BY RowFacts
<1>2. hi \in Nat /\ hi <= Len(all)
  BY <1>1 DEF Lesser
<1> HIDE DEF hi
<1>3. \A i \in 1 .. hi : i \in DOMAIN all /\ all[i] \in Row
  BY <1>1, <1>2
<1>4. /\ rows \in Seq(Row)
      /\ Len(rows) = IF 1 <= hi THEN hi - 1 + 1 ELSE 0
      /\ \A i \in 1 .. hi - 1 + 1 : rows[i] = all[1 + i - 1]
  BY <1>2, <1>3, SubSeqProperties
<1> HIDE DEF rows
<1>5. DOMAIN rows = 1 .. Len(rows) /\ Len(rows) = hi
  BY <1>2, <1>4
<1>6. \A i \in 1 .. hi : rows[i] = all[i]
  BY <1>2, <1>4
<1>7. rows \in Seq(Row) /\ \A i \in DOMAIN rows : i \in DOMAIN all /\ rows[i] = all[i]
  BY <1>3, <1>4, <1>5, <1>6
<1> QED
  BY <1>7 DEF rows, hi

\* GLPI answers with a page.
LEMMA ReadOK ==
    ASSUME NEW s, NEW g, NEW n, StoreOK(g, n), WalkOK(s, g, n), s.pc = "page"
    PROVE  LET u == Read(s, PageAt(g[s.endpoint], s.offset))
           IN  WalkOK(u, g, n) /\ u.pc = "rows"
<1> DEFINE all == g[s.endpoint]
           rows == PageAt(all, s.offset)
           u == Read(s, rows)
<1>0. /\ IsSession(s) /\ s.offset \in Nat /\ s.endpoint \in Endpoint /\ s.shifts \in Nat
      /\ all \in Seq(Row) /\ Len(all) \in Nat /\ DOMAIN all = 1 .. Len(all)
      /\ \A i \in DOMAIN all : all[i] \in Row /\ all[i].id \in Nat /\ all[i].id < n
      /\ \A i, j \in DOMAIN all : i < j => all[i].id < all[j].id
      /\ n \in Nat /\ s.page = {} /\ ~s.short /\ s.out \in Seq(Handed)
  BY RowFacts DEF StoreOK, WalkOK, IsSession, InOrder
<1>7. \A k \in DOMAIN all : all[k].id \in s.seen =>
            k <= MaxTotal /\ (s.endpoint = "Ticket" => Resolved(all[k]))
  BY DEF WalkOK, Thorough
<1>t. /\ s.endpoint = "Ticket" =>
            u = [s EXCEPT !.pc = "rows", !.short = Len(rows) < PageSize,
                          !.page = {row \in Members(rows) : Resolved(row)}]
      /\ s.endpoint # "Ticket" =>
            u = [s EXCEPT !.pc = "rows", !.short = Len(rows) < PageSize,
                          !.out = s.out \o
                                     [i \in DOMAIN rows |-> HandedOver(rows[i], "none")]]
  BY <1>0 DEF Read, IsSession, Idle
<1>b. /\ Beyond(s, g) = {all[k].id : k \in {j \in DOMAIN all : j > s.offset}}
      /\ u.pc = "rows" /\ u.endpoint = s.endpoint /\ u.offset = s.offset =>
            Beyond(u, g) = {all[k].id : k \in {j \in DOMAIN all : j > s.offset + PageSize}}
  BY DEF Beyond, Ahead
<1> HIDE DEF u
<1>1. /\ rows \in Seq(Row) /\ DOMAIN rows = 1 .. Len(rows) /\ Len(rows) \in Nat
      /\ \A i \in 1 .. Len(rows) : /\ s.offset + i \in DOMAIN all
                                   /\ rows[i] = all[s.offset + i]
                                   /\ s.offset + i <= s.offset + PageSize
      /\ \A k \in DOMAIN all : k > s.offset /\ k <= s.offset + PageSize =>
            k - s.offset \in 1 .. Len(rows) /\ rows[k - s.offset] = all[k]
      /\ Len(rows) < PageSize => \A k \in DOMAIN all : k <= s.offset + PageSize
  <2> HIDE DEF all
  <2> QED BY <1>0, PageFacts
<1> HIDE DEF rows, all
<1>5. \A x \in Met(s), k \in DOMAIN all : k > s.offset => x < all[k].id
  <2>1. \A k \in DOMAIN all : k > s.offset => all[k].id \in Beyond(s, g)
    BY <1>b
  <2> QED BY <1>0, <2>1 DEF WalkOK, InOrder
<1>6. Met(s) = Ids(s.out)
  BY <1>0 DEF Met, PageIds
<1>8. /\ IsFiniteSet(s.seen) /\ Cardinality(Missed(s, g)) <= s.shifts
      /\ Missed(s, g) = s.seen \ (Met(s) \cup Beyond(s, g))
      /\ \A x \in Met(s) \cup s.seen : x \in Nat /\ x < n
      /\ \A i, j \in DOMAIN s.out : s.out[i].id = s.out[j].id => i = j
  BY DEF WalkOK, Thorough, InOrder, Missed
\* What is common to tickets and articles.
<1> DEFINE New == PageIds(u) \cup (Ids(u.out) \ Ids(s.out))
<1>9. ASSUME IsSession(u), u.pc = "rows", u.endpoint = s.endpoint, u.offset = s.offset,
             u.seen = s.seen, u.shifts = s.shifts, u.short = (Len(rows) < PageSize),
             Ids(s.out) \subseteq Ids(u.out),
             \A i, j \in DOMAIN u.out : u.out[i].id = u.out[j].id => i = j,
             Ids(u.out) \cap PageIds(u) = {},
             \A r, q \in u.page : r.id = q.id => r = q,
             \A x \in New : \E k \in 1 .. Len(rows) : x = rows[k].id,
             \A k \in 1 .. Len(rows) :
                (s.endpoint = "Ticket" => Resolved(rows[k])) => rows[k].id \in Met(u)
      PROVE  WalkOK(u, g, n)
  <2>1. \A x \in New : x \in Nat /\ x < n
    BY <1>0, <1>1, <1>9
  <2>2. Met(u) = Met(s) \cup New
    BY <1>6, <1>9 DEF Met
  <2>3. Beyond(u, g) = {all[k].id : k \in {j \in DOMAIN all : j > s.offset + PageSize}}
    BY <1>b, <1>9
  <2>4. \A x \in Met(u), y \in Beyond(u, g) : x < y
    <3>1. ASSUME NEW k \in DOMAIN all, k > s.offset + PageSize, NEW x \in Met(u)
          PROVE  x < all[k].id
      <4>1. CASE x \in Met(s)
        BY <1>0, <1>5, <3>1, <4>1
      <4>2. CASE x \in New
        <5>1. PICK i \in 1 .. Len(rows) : x = rows[i].id
          BY <1>9, <4>2
        <5>2. s.offset + i \in DOMAIN all /\ s.offset + i < k /\ x = all[s.offset + i].id
          BY <1>0, <1>1, <3>1, <5>1
        <5> QED BY <1>0, <3>1, <5>2
      <4> QED BY <2>2, <3>1, <4>1, <4>2
    <3> QED BY <2>3, <3>1
  <2>5. InOrder(u, g, n)
    <3>1. \A x \in Met(u) \cup u.seen : x \in Nat /\ x < n
      BY <1>8, <1>9, <2>1, <2>2
    <3> HIDE DEF New
    <3> QED BY <1>9, <2>4, <3>1 DEF InOrder
  <2>6. Missed(u, g) \subseteq Missed(s, g)
    <3>1. ASSUME NEW k \in DOMAIN all, k > s.offset, all[k].id \in s.seen
          PROVE  all[k].id \in Met(u) \cup Beyond(u, g)
      <4>1. CASE k > s.offset + PageSize
        BY <2>3, <3>1, <4>1
      <4>2. CASE k <= s.offset + PageSize
        BY <1>1, <1>7, <1>9, <3>1, <4>2
      <4> QED BY <1>0, <3>1, <4>1, <4>2
    <3>2. Beyond(s, g) \cap s.seen \subseteq Met(u) \cup Beyond(u, g)
      BY <1>b, <3>1
    <3>3. Missed(u, g) = s.seen \ (Met(u) \cup Beyond(u, g))
      BY <1>9 DEF Missed
    <3> QED BY <1>8, <2>2, <3>2, <3>3
  <2>7. Cardinality(Missed(u, g)) <= u.shifts
    <3>1. IsFiniteSet(Missed(s, g))
      BY <1>8, FS_Subset
    <3>2. Cardinality(Missed(u, g)) <= Cardinality(Missed(s, g)) /\ IsFiniteSet(Missed(u, g))
      BY <2>6, <3>1, FS_Subset
    <3>3. Cardinality(Missed(u, g)) \in Nat /\ Cardinality(Missed(s, g)) \in Nat
      BY <3>1, <3>2, FS_CardinalityType
    <3> QED BY <1>0, <1>8, <1>9, <3>2, <3>3
  <2>8. u.short => Beyond(u, g) = {}
    <3>1. \A k \in DOMAIN all : ~(k <= s.offset + PageSize /\ k > s.offset + PageSize)
      BY <1>0
    <3> QED BY <1>1, <1>9, <2>3, <3>1
  <2>9. Thorough(u, g)
    <3>1. u.pc = "rows" /\ u.endpoint = s.endpoint /\ u.seen = s.seen
      BY <1>9
    <3>2. \A j \in DOMAIN g[u.endpoint] : g[u.endpoint][j].id \in u.seen =>
              /\ j <= MaxTotal
              /\ u.endpoint = "Ticket" => Resolved(g[u.endpoint][j])
      BY <1>7, <3>1 DEF all
    <3>3. u.short => Beyond(u, g) \cap u.seen = {}
      BY <2>8
    <3>4. IsFiniteSet(u.seen)
      BY <1>8, <3>1
    <3> QED BY <2>7, <3>1, <3>2, <3>3, <3>4 DEF Thorough
  <2> QED BY <1>9, <2>5, <2>9 DEF WalkOK
\* Rows of a page are told apart by their ids.
<1>10. \A i, j \in 1 .. Len(rows) : rows[i].id = rows[j].id => i = j
  <2>1. ASSUME NEW i \in 1 .. Len(rows), NEW j \in 1 .. Len(rows), i < j
        PROVE  rows[i].id < rows[j].id /\ rows[i].id \in Nat /\ rows[j].id \in Nat
    <3>1. s.offset + i < s.offset + j
      BY <1>0, <1>1, <2>1
    <3> QED BY <1>0, <1>1, <2>1, <3>1
  <2> QED BY <1>1, <2>1
<1>11. \A i \in 1 .. Len(rows) : rows[i].id \notin Ids(s.out)
  <2>1. ASSUME NEW i \in 1 .. Len(rows) PROVE rows[i].id \notin Ids(s.out)
    <3>1. /\ s.offset + i \in DOMAIN all /\ s.offset + i > s.offset
          /\ rows[i] = all[s.offset + i] /\ rows[i].id \in Nat
      BY <1>0, <1>1
    <3>2. \A x \in Ids(s.out) : x < rows[i].id
      BY <1>5, <1>6, <3>1
    <3> QED BY <3>1, <3>2
  <2> QED BY <2>1
<1>12. ASSUME s.endpoint = "Ticket" PROVE WalkOK(u, g, n) /\ u.pc = "rows"
  <2>1. u = [s EXCEPT !.pc = "rows", !.short = Len(rows) < PageSize,
                      !.page = {row \in Members(rows) : Resolved(row)}]
    BY <1>t, <1>12
  <2>2. {row \in Members(rows) : Resolved(row)} \in SUBSET Row
    BY <1>0, <1>1 DEF Members
  <2>3. /\ IsSession(u) /\ u.pc = "rows" /\ u.endpoint = s.endpoint /\ u.offset = s.offset
        /\ u.seen = s.seen /\ u.shifts = s.shifts /\ u.short = (Len(rows) < PageSize)
        /\ u.out = s.out /\ u.page = {row \in Members(rows) : Resolved(row)}
    BY <1>0, <2>1, <2>2 DEF IsSession, Idle, Pc
  <2>4. \A row \in u.page : \E k \in 1 .. Len(rows) : row = rows[k]
    BY <1>1, <2>3 DEF Members
  <2>5. Ids(u.out) \cap PageIds(u) = {}
    BY <1>11, <2>3, <2>4 DEF PageIds
  <2>6. \A x \in New : \E k \in 1 .. Len(rows) : x = rows[k].id
    BY <2>3, <2>4 DEF PageIds
  <2>7. \A k \in 1 .. Len(rows) : Resolved(rows[k]) => rows[k].id \in Met(u)
    BY <1>1, <2>3 DEF Met, PageIds, Members
  <2>8. \A r, q \in u.page : r.id = q.id => r = q
    BY <1>10, <2>4
  <2> HIDE DEF New
  <2>9. \A i, j \in DOMAIN u.out : u.out[i].id = u.out[j].id => i = j
    BY <1>8, <2>3
  <2>10. \A k \in 1 .. Len(rows) :
            (s.endpoint = "Ticket" => Resolved(rows[k])) => rows[k].id \in Met(u)
    BY <1>12, <2>7
  <2>11. Ids(s.out) \subseteq Ids(u.out)
    BY <2>3
  <2> QED BY <1>9, <2>3, <2>5, <2>6, <2>8, <2>9, <2>10, <2>11, Zenon
<1>13. ASSUME s.endpoint # "Ticket" PROVE WalkOK(u, g, n) /\ u.pc = "rows"
  <2> DEFINE more == [i \in DOMAIN rows |-> HandedOver(rows[i], "none")]
  <2>1. u = [s EXCEPT !.pc = "rows", !.short = Len(rows) < PageSize, !.out = s.out \o more]
    BY <1>t, <1>13
  <2>2. /\ more \in Seq(Handed) /\ Len(more) = Len(rows)
        /\ \A i \in 1 .. Len(rows) : more[i].id = rows[i].id
    <3>1. \A row \in Row : HandedOver(row, "none") \in Handed /\ HandedOver(row, "none").id = row.id
      BY DEF HandedOver, Handed, Row, Text
    <3> QED BY <1>1, <3>1
  <2> HIDE DEF more
  <2>3. /\ s.out \o more \in Seq(Handed) /\ Len(s.out) \in Nat
        /\ Len(s.out \o more) = Len(s.out) + Len(rows)
        /\ DOMAIN s.out = 1 .. Len(s.out)
        /\ DOMAIN (s.out \o more) = 1 .. Len(s.out) + Len(rows)
        /\ \A i \in 1 .. Len(s.out) + Len(rows) :
              (s.out \o more)[i] = IF i <= Len(s.out) THEN s.out[i] ELSE more[i - Len(s.out)]
    <3>1. s.out \in Seq(Handed) /\ more \in Seq(Handed) /\ Len(more) = Len(rows)
      BY <1>0, <2>2
    <3>2. /\ s.out \o more \in Seq(Handed)
          /\ Len(s.out \o more) = Len(s.out) + Len(more)
          /\ \A i \in 1 .. Len(s.out) + Len(more) :
                (s.out \o more)[i] = IF i <= Len(s.out) THEN s.out[i] ELSE more[i - Len(s.out)]
      BY <3>1, ConcatProperties
    <3>3. /\ Len(s.out) \in Nat /\ DOMAIN s.out = 1 .. Len(s.out)
          /\ DOMAIN (s.out \o more) = 1 .. Len(s.out \o more)
      BY <3>1, <3>2, LenProperties
    <3> QED BY <3>1, <3>2, <3>3
  <2>4. /\ IsSession(u) /\ u.pc = "rows" /\ u.endpoint = s.endpoint /\ u.offset = s.offset
        /\ u.seen = s.seen /\ u.shifts = s.shifts /\ u.short = (Len(rows) < PageSize)
        /\ u.out = s.out \o more /\ u.page = {}
    BY <1>0, <2>1, <2>3 DEF IsSession, Idle, Pc
  <2>5. \A i \in DOMAIN u.out :
            \/ i \in DOMAIN s.out /\ u.out[i] = s.out[i]
            \/ i - Len(s.out) \in 1 .. Len(rows) /\ u.out[i].id = rows[i - Len(s.out)].id
    <3>1. ASSUME NEW i \in 1 .. Len(s.out) + Len(rows)
          PROVE  \/ i \in 1 .. Len(s.out) /\ i <= Len(s.out)
                 \/ i - Len(s.out) \in 1 .. Len(rows) /\ ~(i <= Len(s.out))
      BY <1>1, <2>3
    <3> QED BY <2>2, <2>3, <2>4, <3>1
  <2>6. /\ \A i \in DOMAIN s.out : i \in DOMAIN u.out /\ u.out[i] = s.out[i]
        /\ \A k \in 1 .. Len(rows) : /\ Len(s.out) + k \in DOMAIN u.out
                                     /\ u.out[Len(s.out) + k].id = rows[k].id
    <3>1. ASSUME NEW k \in 1 .. Len(rows)
          PROVE  /\ Len(s.out) + k \in 1 .. Len(s.out) + Len(rows)
                 /\ ~(Len(s.out) + k <= Len(s.out)) /\ (Len(s.out) + k) - Len(s.out) = k
      BY <1>1, <2>3
    <3>2. ASSUME NEW i \in 1 .. Len(s.out)
          PROVE  i \in 1 .. Len(s.out) + Len(rows) /\ i <= Len(s.out)
      BY <1>1, <2>3
    <3>3. \A k \in 1 .. Len(rows) : u.out[Len(s.out) + k] = more[k]
      BY <2>3, <2>4, <3>1
    <3> QED BY <2>2, <2>3, <2>4, <3>1, <3>2, <3>3
  <2>7. Ids(s.out) \subseteq Ids(u.out)
    BY <2>6 DEF Ids
  <2>8. \A i, j \in DOMAIN u.out : u.out[i].id = u.out[j].id => i = j
    <3>1. ASSUME NEW i \in DOMAIN u.out, NEW j \in DOMAIN u.out, u.out[i].id = u.out[j].id
          PROVE  i = j
      <4>0. i \in Nat /\ j \in Nat
        BY <1>1, <2>3, <2>4
      <4>1. CASE i \in DOMAIN s.out /\ u.out[i] = s.out[i] /\ j \in DOMAIN s.out /\ u.out[j] = s.out[j]
        BY <1>8, <3>1, <4>1
      <4>2. CASE /\ i - Len(s.out) \in 1 .. Len(rows) /\ u.out[i].id = rows[i - Len(s.out)].id
                 /\ j - Len(s.out) \in 1 .. Len(rows) /\ u.out[j].id = rows[j - Len(s.out)].id
        <5>1. i - Len(s.out) = j - Len(s.out)
          BY <1>10, <3>1, <4>2
        <5> QED BY <2>3, <4>0, <5>1
      <4>3. ASSUME NEW a \in DOMAIN u.out, NEW b \in DOMAIN u.out,
                   a \in DOMAIN s.out /\ u.out[a] = s.out[a],
                   b - Len(s.out) \in 1 .. Len(rows) /\ u.out[b].id = rows[b - Len(s.out)].id
            PROVE  u.out[a].id # u.out[b].id
        BY <1>11, <4>3 DEF Ids
      <4> QED BY <2>5, <3>1, <4>1, <4>2, <4>3
    <3> QED BY <3>1
  <2>9. PageIds(u) = {}
    BY <2>4 DEF PageIds
  <2>10. \A x \in New : \E k \in 1 .. Len(rows) : x = rows[k].id
    <3>1. ASSUME NEW x \in Ids(u.out), x \notin Ids(s.out)
          PROVE  \E k \in 1 .. Len(rows) : x = rows[k].id
      <4>1. PICK i \in DOMAIN u.out : x = u.out[i].id
        BY <3>1 DEF Ids
      <4>2. ~(i \in DOMAIN s.out /\ u.out[i] = s.out[i])
        BY <3>1, <4>1 DEF Ids
      <4> QED BY <2>5, <4>1, <4>2
    <3> QED BY <2>9, <3>1
  <2>11. \A k \in 1 .. Len(rows) : rows[k].id \in Met(u)
    BY <2>6 DEF Met, Ids
  <2>12. \A r, q \in u.page : r.id = q.id => r = q
    BY <2>4
  <2> HIDE DEF New
  <2>13. Ids(u.out) \cap PageIds(u) = {}
    BY <2>9
  <2>14. \A k \in 1 .. Len(rows) :
            (s.endpoint = "Ticket" => Resolved(rows[k])) => rows[k].id \in Met(u)
    BY <2>11
  <2> QED BY <1>9, <2>4, <2>7, <2>8, <2>10, <2>12, <2>13, <2>14, Zenon
<1> QED
  BY <1>12, <1>13 DEF all, rows, u

\* The first ticket of the page is hydrated and handed over.
LEMMA HydrateOK ==
    ASSUME NEW s, NEW g, NEW n, WalkOK(s, g, n), s.pc = "rows", s.page # {},
           NEW solution \in Text
    PROVE  LET row == First(s.page)
               u == [s EXCEPT !.page = @ \ {row},
                              !.out = Append(@, HandedOver(row, solution))]
           IN  WalkOK(u, g, n) /\ u.pc = "rows"
<1> DEFINE row == First(s.page)
           handed == HandedOver(row, solution)
           u == [s EXCEPT !.page = @ \ {row}, !.out = Append(@, handed)]
<1>0. IsSession(s) /\ s.out \in Seq(Handed) /\ s.page \in SUBSET Row
  BY DEF WalkOK, IsSession
<1>1. row \in s.page /\ row \in Row
  BY <1>0, FirstOfPage
<1>2. handed \in Handed /\ handed.id = row.id
  BY <1>1 DEF HandedOver, Handed, Row
<1> HIDE DEF row, handed
<1>3. /\ Append(s.out, handed) \in Seq(Handed) /\ Len(s.out) \in Nat
      /\ DOMAIN s.out = 1 .. Len(s.out)
      /\ DOMAIN Append(s.out, handed) = 1 .. Len(s.out) + 1
      /\ \A i \in 1 .. Len(s.out) : Append(s.out, handed)[i] = s.out[i]
      /\ Append(s.out, handed)[Len(s.out) + 1] = handed
  BY <1>0, <1>2
<1>4. /\ IsSession(u) /\ u.pc = "rows" /\ u.endpoint = s.endpoint /\ u.offset = s.offset
      /\ u.seen = s.seen /\ u.shifts = s.shifts /\ u.short = s.short
      /\ u.out = Append(s.out, handed) /\ u.page = s.page \ {row}
  BY <1>0, <1>3 DEF IsSession, Idle
<1> HIDE DEF u
<1>5. Ids(u.out) = Ids(s.out) \cup {row.id}
  <2>1. \A i \in 1 .. Len(s.out) + 1 : i \in 1 .. Len(s.out) \/ i = Len(s.out) + 1
    BY <1>3
  <2>2. Len(s.out) + 1 \in 1 .. Len(s.out) + 1 /\ 1 .. Len(s.out) \subseteq 1 .. Len(s.out) + 1
    BY <1>3
  <2> QED BY <1>2, <1>3, <1>4, <2>1, <2>2 DEF Ids
<1>6. /\ \A i, j \in DOMAIN s.out : s.out[i].id = s.out[j].id => i = j
      /\ Ids(s.out) \cap PageIds(s) = {}
      /\ \A r, q \in s.page : r.id = q.id => r = q
      /\ \A x \in Met(s) \cup s.seen : x \in Nat /\ x < n
      /\ ~s.short => \A x \in Met(s), y \in Beyond(s, g) : x < y
  BY DEF WalkOK, InOrder
<1>7. PageIds(u) = PageIds(s) \ {row.id} /\ row.id \in PageIds(s)
  BY <1>1, <1>4, <1>6 DEF PageIds
<1>8. Met(u) = Met(s) /\ Beyond(u, g) = Beyond(s, g)
  BY <1>4, <1>5, <1>7 DEF Met, Beyond, Ahead
<1>9. Missed(u, g) = Missed(s, g)
  BY <1>4, <1>8 DEF Missed
<1>10. \A i, j \in DOMAIN u.out : u.out[i].id = u.out[j].id => i = j
  <2>1. \A i \in 1 .. Len(s.out) : s.out[i].id # row.id
    BY <1>3, <1>6, <1>7 DEF Ids
  <2>2. \A i \in 1 .. Len(s.out) + 1 : i \in 1 .. Len(s.out) \/ i = Len(s.out) + 1
    BY <1>3
  <2> QED BY <1>2, <1>3, <1>4, <1>6, <2>1, <2>2
<1>11. InOrder(u, g, n)
  <2>1. Ids(u.out) \cap PageIds(u) = {}
    BY <1>5, <1>6, <1>7
  <2>2. \A r, q \in u.page : r.id = q.id => r = q
    BY <1>4, <1>6
  <2>3. \A x \in Met(u) \cup u.seen : x \in Nat /\ x < n
    BY <1>4, <1>6, <1>8
  <2> QED BY <1>4, <1>6, <1>8, <1>10, <2>1, <2>2, <2>3 DEF InOrder
<1>12. Thorough(u, g)
  BY <1>4, <1>8, <1>9 DEF WalkOK, Thorough
<1> QED
  BY <1>4, <1>11, <1>12 DEF WalkOK, u, row, handed

\* A call that writes has nothing of a walk.
LEMMA WriterOK ==
    ASSUME NEW s, NEW g, NEW n, IsSession(s), s.out = <<>>, s.seen = {},
           s.pc \notin {"page", "rows", "listed"},
           \A x \in PageIds(s) : x \in Nat /\ x < n
    PROVE  WalkOK(s, g, n)
<1>1. Ids(s.out) = {}
  BY DEF Ids
<1>2. InOrder(s, g, n)
  BY <1>1 DEF InOrder, Met
<1>3. Thorough(s, g)
  BY FS_EmptySet DEF Thorough
<1> QED
  BY <1>2, <1>3 DEF WalkOK

-----------------------------------------------------------------------------
(* The invariant of all calls *)

\* Who does what, and what a call needs to have in hand where it is.
JobsOf(c) ==
    IF c = Poll THEN {"none", "poll", "import", "get"}
    ELSE IF c = Boot THEN {"none", "inventory", "seed", "report"}
    ELSE IF c = Cli THEN {"none", "script"} ELSE {"none", "demo"}
Walks == {"page", "rows", "listed"}
Tickets == {"ticket", "solution", "close"}

Control(c, s) ==
    /\ s.pc = "idle" => s = Idle
    /\ s.job \in JobsOf(c)
    /\ s.pc \in {"rows", "delete"} => s.page # {}
    /\ s.pc \in Walks => s.job \in {"poll", "import", "get", "inventory", "report"}
    /\ s.pc \notin Walks \cup {"idle"} =>
          /\ s.tickets # <<>> /\ s.out = <<>> /\ s.seen = {}
          /\ s.pc # "delete" => s.page = {}
          /\ s.job \in IF s.pc \in {"purge", "delete"} THEN {"script"}
                       ELSE IF s.pc \in {"categories", "article"} THEN {"seed", "script"}
                       ELSE IF s.pc = "category" THEN {"demo"}
                       ELSE {"seed", "script", "demo"}
    /\ s.pc \in {"purge", "delete", "categories", "article"} => s.articles # <<>>
    /\ s.pc = "newcategory" /\ s.job # "demo" => s.articles # <<>>

CallInv(c, s) == WalkOK(s, glpi, nextId) /\ Control(c, s)
WalkInv ==
    /\ calls = [c \in Callers |-> calls[c]]
    /\ StoreOK(glpi, nextId)
    /\ call_count \in Nat
    /\ \A c \in Callers : CallInv(c, calls[c])

LEMMA PutFacts ==
    ASSUME calls = [c \in Callers |-> calls[c]], NEW c \in Callers, NEW t, Put(c, t)
    PROVE  /\ calls' = [d \in Callers |-> calls'[d]]
           /\ calls'[c] = t
           /\ \A d \in Callers : d # c => calls'[d] = calls[d]
BY DEF Put

\* What one call may do to GLPI, but for purging.
Kept == UNCHANGED <<glpi, nextId>>
Added(e, row) ==
    /\ row \in Row /\ row.id = nextId
    /\ glpi' = [glpi EXCEPT ![e] = Append(@, row)]
    /\ nextId' = nextId + 1
Updated ==
    /\ glpi' \in [Endpoint -> Seq(Row)]
    /\ glpi'["KnowbaseItem"] = glpi["KnowbaseItem"]
    /\ Len(glpi'["Ticket"]) = Len(glpi["Ticket"])
    /\ \A i \in DOMAIN glpi["Ticket"] :
          /\ glpi'["Ticket"][i].id = glpi["Ticket"][i].id
          /\ Resolved(glpi["Ticket"][i]) => Resolved(glpi'["Ticket"][i])
    /\ nextId' = nextId
GlpiStep == Kept \/ Updated \/ \E e \in Endpoint, row \in Row : Added(e, row)

\* What holds of a call holds of it after such a step.
LEMMA StepOK ==
    ASSUME StoreOK(glpi, nextId), GlpiStep, NEW s, WalkOK(s, glpi, nextId)
    PROVE  WalkOK(s, glpi', nextId') /\ StoreOK(glpi', nextId')
<1>1. CASE Kept
  BY <1>1 DEF Kept
<1>2. CASE Updated
  BY <1>2, UpdateOK DEF Updated
<1>3. ASSUME NEW e \in Endpoint, NEW row \in Row, Added(e, row)
      PROVE  WalkOK(s, glpi', nextId') /\ StoreOK(glpi', nextId')
  <2>1. StoreOK(glpi', nextId + 1) /\ WalkOK(s, glpi', nextId + 1)
    BY <1>3, AppendOK DEF Added
  <2> QED BY <1>3, <2>1 DEF Added
<1> QED
  BY <1>1, <1>2, <1>3 DEF GlpiStep

LEMMA PutOK ==
    ASSUME WalkInv, NEW c \in Callers, NEW t, Put(c, t), CallInv(c, t), GlpiStep,
           call_count' \in {call_count, call_count + 1}
    PROVE  WalkInv'
<1>1. /\ calls' = [d \in Callers |-> calls'[d]]
      /\ calls'[c] = t
      /\ \A d \in Callers : d # c => calls'[d] = calls[d]
  BY PutFacts DEF WalkInv
<1>2. \A d \in Callers : WalkOK(calls'[d], glpi, nextId) /\ Control(d, calls'[d])
  BY <1>1 DEF WalkInv, CallInv
<1>3. \A d \in Callers : WalkOK(calls'[d], glpi', nextId') /\ StoreOK(glpi', nextId')
  BY <1>2, StepOK DEF WalkInv
<1> QED
  BY <1>1, <1>2, <1>3 DEF WalkInv, CallInv

\* The calls that can be put in place of one that ends.
LEMMA EndsOK ==
    ASSUME WalkInv, NEW c \in Callers
    PROVE  /\ CallInv(c, Idle)
           /\ calls[c].job = "seed" => CallInv(c, Walk("report", "Ticket"))
<1>1. nextId \in Nat /\ StoreOK(glpi, nextId)
  BY DEF WalkInv, StoreOK
<1>2. CallInv(c, Idle)
  BY <1>1, IdleOK DEF CallInv, Control, Idle, Walks, JobsOf
<1>3. ASSUME calls[c].job = "seed" PROVE CallInv(c, Walk("report", "Ticket"))
  <2>1. WalkOK(Walk("report", "Ticket"), glpi, nextId)
    BY <1>1, StartOK DEF Job, Endpoint
  <2>2. c = Boot
    BY <1>3 DEF WalkInv, CallInv, Control, JobsOf
  <2>3. Control(c, Walk("report", "Ticket"))
    BY <2>2, CallerAssumption DEF Control, Walk, Idle, Walks, JobsOf
  <2> QED BY <2>1, <2>3 DEF CallInv
<1> QED
  BY <1>2, <1>3

\* A writing call with the fields of a walk empty.
LEMMA WritesOK ==
    ASSUME WalkInv, NEW c \in Callers, NEW s, IsSession(s), Control(c, s), s.page = {},
           s.out = <<>>, s.seen = {}, s.pc \notin Walks
    PROVE  CallInv(c, s)
<1>1. PageIds(s) = {}
  BY DEF PageIds
<1> QED
  BY <1>1, WriterOK DEF CallInv, Walks

LEMMA ScriptOK ==
    ASSUME WalkInv, NEW c \in Callers, NEW job, NEW pc,
           \/ c = Boot /\ job = "seed" /\ pc = "categories"
           \/ c = Cli /\ job = "script" /\ pc = "purge"
    PROVE  CallInv(c, Script(job, pc))
<1> DEFINE s == Script(job, pc)
<1>1. {SeedTickets[i].category : i \in DOMAIN SeedTickets} \subseteq Categories
  <2>1. \A i \in DOMAIN SeedTickets : SeedTickets[i] \in Fixture
    BY FixtureAssumption
  <2> QED BY <2>1 DEF Fixture
<1>2. /\ IsSession(s) /\ s.pc = pc /\ s.job = job /\ s.page = {} /\ s.out = <<>> /\ s.seen = {}
      /\ s.tickets = SeedTickets /\ s.articles = KbArticles
  BY <1>1, FixtureAssumption DEF Script, IsSession, Idle, Pc, Job, Endpoint
<1>3. Control(c, s)
  BY <1>2, CallerAssumption, FixtureAssumption DEF Control, Walks, JobsOf
<1> QED
  BY <1>2, <1>3, WritesOK DEF Walks

LEMMA NextPackOK ==
    ASSUME call_count \in Nat
    PROVE  next_pack \in Seq(Fixture) /\ next_pack # <<>>
<1>1. Len(Packs) \in Nat \ {0} /\ \A i \in 1 .. Len(Packs) : Packs[i] \in Seq(Fixture) \ {<<>>}
  BY FixtureAssumption
<1>2. (call_count % Len(Packs)) + 1 \in 1 .. Len(Packs)
  BY <1>1
<1> QED
  BY <1>1, <1>2 DEF next_pack

-----------------------------------------------------------------------------
(* Every step keeps the invariant *)

LEMMA CallFacts ==
    ASSUME WalkInv, NEW c \in Callers
    PROVE  /\ IsSession(calls[c]) /\ Control(c, calls[c])
           /\ WalkOK(calls[c], glpi, nextId) /\ StoreOK(glpi, nextId)
           /\ CallInv(c, Idle)
BY EndsOK DEF WalkInv, CallInv, WalkOK

LEMMA KeepsCalls ==
    ASSUME WalkInv, UNCHANGED <<glpi, nextId, calls, call_count>> PROVE WalkInv'
BY DEF WalkInv, CallInv

LEMMA StartsKeep ==
    ASSUME WalkInv, \/ Start \/ PollOrImport \/ RunScript
                    \/ \E i \in DOMAIN glpi["Ticket"] : GetOneTicket(i)
                    \/ \E c \in Callers : SeedDemo(c)
    PROVE  WalkInv'
<1>0. StoreOK(glpi, nextId)
  BY DEF WalkInv
<1>1. CASE Start
  <2>1. WalkOK(Walk("inventory", "Ticket"), glpi, nextId)
    BY <1>0, StartOK DEF Job, Endpoint
  <2>2. Control(Boot, Walk("inventory", "Ticket"))
    BY CallerAssumption DEF Control, Walk, Idle, Walks, JobsOf
  <2> QED BY <1>1, <2>1, <2>2, CallerAssumption, PutOK
          DEF Start, CallInv, GlpiStep, Kept
<1>2. ASSUME NEW job, NEW e, \/ job = "poll" /\ e = "Ticket"
                             \/ job = "import" /\ e = "KnowbaseItem",
             StartWalk(job, e)
      PROVE  WalkInv'
  <2>1. WalkOK(Walk(job, e), glpi, nextId)
    BY <1>0, <1>2, StartOK DEF Job, Endpoint
  <2>2. Control(Poll, Walk(job, e))
    BY <1>2, CallerAssumption DEF Control, Walk, Idle, Walks, JobsOf
  <2> QED BY <1>2, <2>1, <2>2, CallerAssumption, PutOK
          DEF StartWalk, CallInv, GlpiStep, Kept, seedVars
<1>3. CASE RunScript
  <2>1. CallInv(Cli, Script("script", "purge"))
    BY CallerAssumption, ScriptOK
  <2> QED BY <1>3, <2>1, CallerAssumption, PutOK DEF RunScript, GlpiStep, Kept
<1>4. ASSUME NEW i \in DOMAIN glpi["Ticket"], GetOneTicket(i) PROVE WalkInv'
  <2> DEFINE s == [Idle EXCEPT !.pc = "rows", !.job = "get", !.short = TRUE,
                               !.page = {glpi["Ticket"][i]}]
  <2>1. WalkOK(s, glpi, nextId)
    BY <1>0, GetOK
  <2>2. Control(Poll, s)
    BY CallerAssumption DEF Control, Idle, Walks, JobsOf
  <2> QED BY <1>4, <2>1, <2>2, CallerAssumption, PutOK
          DEF GetOneTicket, GetTicket, CallInv, GlpiStep, Kept, seedVars
<1>5. ASSUME NEW c \in Callers, SeedDemo(c) PROVE WalkInv'
  <2> DEFINE s == [Idle EXCEPT !.pc = "category", !.job = "demo", !.tickets = next_pack]
  <2>1. next_pack \in Seq(Fixture) /\ next_pack # <<>>
    BY NextPackOK DEF WalkInv
  <2>2. /\ IsSession(s) /\ s.pc = "category" /\ s.job = "demo" /\ s.page = {} /\ s.out = <<>>
        /\ s.seen = {} /\ s.tickets = next_pack
    BY <2>1 DEF IsSession, Idle, Pc, Job, Endpoint
  <2>3. c \notin {Poll, Boot, Cli}
    BY <1>5, CallerAssumption DEF SeedDemo
  <2>4. Control(c, s)
    BY <2>1, <2>2, <2>3 DEF Control, Walks, JobsOf
  <2>5. CallInv(c, s)
    BY <2>2, <2>4, WritesOK DEF Walks
  <2> QED BY <1>5, <2>5, PutOK DEF SeedDemo, GlpiStep, Kept
<1> QED
  BY <1>1, <1>2, <1>3, <1>4, <1>5 DEF PollOrImport

LEMMA CrashKeeps ==
    ASSUME WalkInv, Crash PROVE WalkInv'
<1>1. /\ calls' = [c \in Callers |-> IF c = Cli THEN calls[c] ELSE Idle]
      /\ UNCHANGED <<glpi, nextId>> /\ call_count' = 0
  BY DEF Crash
<1>2. \A c \in Callers : CallInv(c, Idle) /\ CallInv(c, calls[c])
  BY CallFacts DEF WalkInv
<1>3. \A c \in Callers : CallInv(c, calls'[c])
  BY <1>1, <1>2
<1>4. calls' = [c \in Callers |-> calls'[c]]
  BY <1>1
<1> QED
  BY <1>1, <1>3, <1>4 DEF WalkInv, CallInv

LEMMA WalkKeeps ==
    ASSUME WalkInv, NEW c \in Callers, ContinueWalk(c) PROVE WalkInv'
<1> DEFINE s == calls[c]
<1>0. /\ IsSession(s) /\ Control(c, s) /\ WalkOK(s, glpi, nextId) /\ StoreOK(glpi, nextId)
      /\ CallInv(c, Idle) /\ glpi \in [Endpoint -> Seq(Row)]
  BY CallFacts DEF StoreOK
<1>1. UNCHANGED <<glpi, nextId, call_count>> /\ GlpiStep
  BY DEF ContinueWalk, WalkStep, GetPage, GetPageFails, HydrateTicket, seedVars,
         GlpiStep, Kept
\* Whatever is read next, the job is the same.
<1>2. ASSUME NEW u, WalkOK(u, glpi, nextId), u.pc = "rows", u.job = s.job, s.pc \in Walks
      PROVE  CallInv(c, PageEnd(u))
  <2>1. WalkOK(PageEnd(u), glpi, nextId)
    BY <1>0, <1>2, PageEndOK
  <2>2. /\ PageEnd(u).pc \in Walks /\ PageEnd(u).job = u.job
        /\ PageEnd(u).pc = "rows" => PageEnd(u).page # {}
    BY <1>2 DEF PageEnd, Listed, Walks, WalkOK, IsSession, Idle
  <2>3. Control(c, PageEnd(u))
    BY <1>0, <1>2, <2>2 DEF Control, Walks
  <2> QED BY <2>1, <2>3 DEF CallInv
<1>3. CASE GetPage(c)
  <2> DEFINE u == Read(s, PageAt(glpi[s.endpoint], s.offset))
  <2>1. s.pc = "page" /\ Put(c, PageEnd(u))
    BY <1>3 DEF GetPage
  <2>2. WalkOK(u, glpi, nextId) /\ u.pc = "rows"
    BY <1>0, <2>1, ReadOK
  <2>3. u.job = s.job
    BY <1>0 DEF Read, IsSession, Idle
  <2> HIDE DEF u
  <2>4. CallInv(c, PageEnd(u))
    BY <1>2, <2>1, <2>2, <2>3 DEF Walks
  <2> QED BY <1>1, <2>1, <2>4, PutOK
<1>4. CASE GetPageFails(c)
  BY <1>0, <1>1, <1>4, PutOK DEF GetPageFails
<1>5. CASE HydrateTicket(c)
  <2> DEFINE u(o) == [s EXCEPT !.page = @ \ {First(s.page)}, !.out = Append(@,
                          HandedOver(First(s.page), IF o = "ok" THEN SolutionOf(First(s.page).id)
                                                    ELSE "none"))]
  <2>1. PICK o \in Outcome : s.pc = "rows" /\ Put(c, PageEnd(u(o)))
    BY <1>5 DEF HydrateTicket
  <2>2. (IF o = "ok" THEN SolutionOf(First(s.page).id) ELSE "none") \in Text
    BY DEF SolutionOf, Text
  <2>3. s.page # {}
    BY <1>0, <2>1 DEF Control
  <2>4. WalkOK(u(o), glpi, nextId) /\ u(o).pc = "rows"
    BY <1>0, <2>1, <2>2, <2>3, HydrateOK
  <2>5. u(o).job = s.job
    BY <1>0 DEF IsSession, Idle
  <2> HIDE DEF u
  <2>6. CallInv(c, PageEnd(u(o)))
    BY <1>2, <2>1, <2>4, <2>5 DEF Walks
  <2> QED BY <1>1, <2>1, <2>6, PutOK
<1> QED
  BY <1>3, <1>4, <1>5 DEF ContinueWalk, WalkStep

LEMMA DeliverKeeps ==
    ASSUME WalkInv, NEW c \in Callers, Deliver(c) PROVE WalkInv'
<1>1. /\ Put(c, IF calls[c].job = "inventory" THEN AfterInventory(calls[c]) ELSE Idle)
      /\ GlpiStep /\ call_count' = call_count
  BY DEF Deliver, GlpiStep, Kept, seedVars
<1>2. calls[c].job = "inventory" => c = Boot
  BY CallFacts DEF Control, JobsOf
<1>3. CallInv(c, Idle) /\ (c = Boot => CallInv(c, Script("seed", "categories")))
  BY CallFacts, ScriptOK
<1>4. CallInv(c, IF calls[c].job = "inventory" THEN AfterInventory(calls[c]) ELSE Idle)
  BY <1>2, <1>3 DEF AfterInventory
<1> QED
  BY <1>1, <1>4, PutOK

LEMMA UpdateFacts ==
    ASSUME StoreOK(glpi, nextId), NEW id, NEW status \in {SOLVED, CLOSED}, NEW solution \in Text,
           glpi' = Update(id, status, solution), nextId' = nextId
    PROVE  Updated
<1> DEFINE old == glpi["Ticket"]
           new == [i \in DOMAIN old |->
                     IF old[i].id = id
                     THEN [old[i] EXCEPT !.status = status, !.solution = solution]
                     ELSE old[i]]
<1>1. /\ glpi \in [Endpoint -> Seq(Row)] /\ "Ticket" \in Endpoint /\ "KnowbaseItem" \in Endpoint
      /\ old \in Seq(Row)
  BY DEF StoreOK, Endpoint
<1>2. glpi' = [glpi EXCEPT !["Ticket"] = new]
  BY DEF Update
<1> HIDE DEF old
<1>3. \A row \in Row : /\ [row EXCEPT !.status = status, !.solution = solution] \in Row
                       /\ [row EXCEPT !.status = status, !.solution = solution].id = row.id
                       /\ [row EXCEPT !.status = status, !.solution = solution].status = status
  BY DEF Row
<1>4. /\ new \in Seq(Row) /\ Len(new) = Len(old)
      /\ \A i \in DOMAIN old : /\ new[i].id = old[i].id
                               /\ Resolved(old[i]) => Resolved(new[i])
  <2>1. DOMAIN old = 1 .. Len(old) /\ Len(old) \in Nat /\ \A i \in DOMAIN old : old[i] \in Row
    BY <1>1, RowFacts
  <2>2. \A i \in DOMAIN old : /\ new[i] \in Row /\ new[i].id = old[i].id
                              /\ new[i].status = old[i].status \/ new[i].status = status
    BY <1>3, <2>1
  <2>3. \A i \in DOMAIN old : Resolved(old[i]) => Resolved(new[i])
    BY <2>2 DEF Resolved, RESOLVED_STATUSES
  <2>4. new \in [1 .. Len(old) -> Row]
    BY <2>1, <2>2
  <2> HIDE DEF new
  <2> QED BY <2>1, <2>2, <2>3, <2>4
<1> HIDE DEF new
<1>5. glpi'["Ticket"] = new /\ glpi'["KnowbaseItem"] = glpi["KnowbaseItem"]
  BY <1>1, <1>2
<1>6. glpi' \in [Endpoint -> Seq(Row)]
  BY <1>1, <1>2, <1>4
<1> QED
  BY <1>4, <1>5, <1>6 DEF Updated, old

LEMMA TailFacts ==
    ASSUME NEW S, NEW q \in Seq(S), q # <<>>
    PROVE  /\ Head(q) \in S /\ Tail(q) \in Seq(S)
           /\ Len(q) # 1 => Tail(q) # <<>>
           /\ Len(q) > 1 => Tail(q) # <<>>
           /\ Len(q) \in Nat
<1>1. Head(q) \in S /\ Tail(q) \in Seq(S)
  OBVIOUS
<1>2. Len(q) \in Nat /\ Len(q) # 0
  OBVIOUS
<1>3. Len(Tail(q)) = Len(q) - 1
  OBVIOUS
<1>4. Tail(q) = <<>> => Len(Tail(q)) = 0
  BY EmptySeq
<1> QED
  BY <1>1, <1>2, <1>3, <1>4

\* What follows a ticket, whatever became of it.
LEMMA NextTicketOK ==
    ASSUME WalkInv, NEW c \in Callers, calls[c].pc \in Tickets
    PROVE  CallInv(c, NextTicket(calls[c])) /\ CallInv(c, Raised(calls[c]))
<1> DEFINE s == calls[c]
<1>0. /\ IsSession(s) /\ Control(c, s) /\ CallInv(c, Idle)
      /\ s.job = "seed" => CallInv(c, Walk("report", "Ticket"))
      /\ s.tickets \in Seq(Fixture)
  BY CallFacts, EndsOK DEF IsSession
<1>1. ASSUME Len(s.tickets) > 1, NEW t,
             t = [s EXCEPT !.tickets = Tail(s.tickets), !.tid = 0,
                           !.pc = IF s.job = "demo" THEN "category" ELSE "ticket"]
      PROVE  CallInv(c, t)
  <2>1. Tail(s.tickets) \in Seq(Fixture) /\ Tail(s.tickets) # <<>>
    BY <1>0, <1>1, TailFacts DEF Control, Tickets, Walks
  <2>2. /\ IsSession(t) /\ t.pc = (IF s.job = "demo" THEN "category" ELSE "ticket")
        /\ t.tickets # <<>> /\ t.page = s.page /\ t.out = s.out /\ t.seen = s.seen /\ t.job = s.job
    BY <1>0, <1>1, <2>1 DEF IsSession, Idle, Pc
  <2>3. /\ s.page = {} /\ s.out = <<>> /\ s.seen = {} /\ s.job \in JobsOf(c)
        /\ s.job \in {"seed", "script", "demo"}
    BY <1>0 DEF Control, Tickets, Walks
  <2>4. Control(c, t)
    BY <2>2, <2>3 DEF Control, Walks
  <2> QED BY <2>2, <2>3, <2>4, WritesOK DEF Walks
<1>2. CallInv(c, NextTicket(s))
  <2>1. CASE Len(s.tickets) > 1
    BY <1>1, <2>1 DEF NextTicket
  <2>2. CASE ~(Len(s.tickets) > 1)
    BY <1>0, <2>2 DEF NextTicket
  <2> QED BY <2>1, <2>2
<1> QED
  BY <1>0, <1>2 DEF Raised

\* A writing call goes on at another place, with what it needs there.
LEMMA GoesOnOK ==
    ASSUME WalkInv, NEW c \in Callers, NEW t, IsSession(t), Control(c, calls[c]),
           calls[c].pc \notin Walks \cup {"idle"}, t.pc \notin Walks \cup {"idle"},
           t.job = calls[c].job, t.out = calls[c].out, t.seen = calls[c].seen,
           t.tickets # <<>>, t.page = {},
           t.job \in IF t.pc \in {"purge", "delete"} THEN {"script"}
                     ELSE IF t.pc \in {"categories", "article"} THEN {"seed", "script"}
                     ELSE IF t.pc = "category" THEN {"demo"}
                     ELSE {"seed", "script", "demo"},
           t.pc # "delete",
           t.pc \in {"purge", "categories", "article"} => t.articles # <<>>,
           t.pc = "newcategory" /\ t.job # "demo" => t.articles # <<>>
    PROVE  CallInv(c, t)
<1>1. t.out = <<>> /\ t.seen = {} /\ t.job \in JobsOf(c)
  BY DEF Control
<1>2. Control(c, t)
  BY <1>1 DEF Control, Walks
<1> QED
  BY <1>1, <1>2, WritesOK DEF Walks

LEMMA PurgeListKeeps ==
    ASSUME WalkInv, NEW c \in Callers, PurgeList(c) PROVE WalkInv'
<1> DEFINE s == calls[c]
           rows == SubSeq(glpi[s.endpoint], 1, Lesser(PageSize, Len(glpi[s.endpoint])))
           paged == [s EXCEPT !.pc = "delete", !.page = Members(rows)]
<1>0. /\ IsSession(s) /\ Control(c, s) /\ CallInv(c, Idle) /\ s.pc = "purge"
      /\ s.job = "script" /\ s.out = <<>> /\ s.seen = {} /\ s.tickets # <<>> /\ s.page = {}
      /\ s.articles # <<>> /\ s.endpoint \in Endpoint /\ s.job \in JobsOf(c)
      /\ nextId \in Nat /\ glpi[s.endpoint] \in Seq(Row)
  BY CallFacts DEF PurgeList, Control, Walks, IsSession, StoreOK
<1>1. GlpiStep /\ call_count' = call_count
  BY DEF PurgeList, GlpiStep, Kept, seedVars
<1>2. CallInv(c, PurgeDone(s))
  <2> DEFINE t == PurgeDone(s)
  <2>1. /\ IsSession(t) /\ t.pc \in {"purge", "categories"} /\ t.job = s.job /\ t.out = s.out
        /\ t.seen = s.seen /\ t.tickets = s.tickets /\ t.articles = s.articles /\ t.page = s.page
    BY <1>0 DEF PurgeDone, IsSession, Idle, Pc, Endpoint
  <2> HIDE DEF t
  <2>2. CallInv(c, t)
    BY <1>0, <2>1, GoesOnOK DEF Walks
  <2> QED BY <2>2 DEF t
<1>3. ASSUME rows # <<>> PROVE CallInv(c, paged)
  <2>1. /\ rows \in Seq(Row)
        /\ \A i \in DOMAIN rows : i \in DOMAIN glpi[s.endpoint] /\ rows[i] = glpi[s.endpoint][i]
    BY <1>0, FirstRows
  <2>2. /\ Members(rows) \in SUBSET Row /\ Members(rows) # {}
        /\ \A row \in Members(rows) : row.id \in Nat /\ row.id < nextId
    <3>1. DOMAIN rows # {}
      BY <1>3, <2>1
    <3>2. \A i \in DOMAIN rows : rows[i] \in Row /\ rows[i].id \in Nat /\ rows[i].id < nextId
      BY <1>0, <2>1, RowFacts, CallFacts DEF StoreOK
    <3> QED BY <3>1, <3>2 DEF Members
  <2> HIDE DEF rows
  <2>3. /\ IsSession(paged) /\ paged.pc = "delete" /\ paged.job = s.job /\ paged.out = <<>>
        /\ paged.seen = {} /\ paged.tickets = s.tickets /\ paged.articles = s.articles
        /\ paged.page = Members(rows)
    BY <1>0, <2>2 DEF IsSession, Idle, Pc
  <2> HIDE DEF paged
  <2>4. WalkOK(paged, glpi, nextId)
    BY <2>2, <2>3, WriterOK DEF PageIds
  <2>5. Control(c, paged)
    BY <1>0, <2>2, <2>3 DEF Control, Walks
  <2> QED BY <2>4, <2>5 DEF CallInv
<1>4. PICK o \in Outcome :
          Put(c, IF ~Answered(o) THEN Idle
                 ELSE IF o = "refused" \/ rows = <<>> THEN PurgeDone(s) ELSE paged)
  BY DEF PurgeList
<1> HIDE DEF rows, paged
<1>5. PICK t : Put(c, t) /\ CallInv(c, t)
  <2>1. CASE ~Answered(o)
    <3>1. Put(c, Idle)
      BY <1>4, <2>1
    <3> QED BY <1>0, <3>1
  <2>2. CASE Answered(o) /\ (o = "refused" \/ rows = <<>>)
    <3>1. Put(c, PurgeDone(s))
      BY <1>4, <2>2
    <3> QED BY <1>2, <3>1
  <2>3. CASE Answered(o) /\ ~(o = "refused" \/ rows = <<>>)
    <3>1. Put(c, paged)
      BY <1>4, <2>3
    <3> QED BY <1>3, <2>3, <3>1
  <2> QED BY <2>1, <2>2, <2>3
<1> QED
  BY <1>1, <1>5, PutOK

LEMMA CategoriesKeep ==
    ASSUME WalkInv, NEW c \in Callers,
           \/ ListCategories(c) \/ EnsureCategory(c)
           \/ \E k \in Categories : CreateCategory(c, k)
    PROVE  WalkInv'
<1> DEFINE s == calls[c]
<1>0. /\ IsSession(s) /\ Control(c, s) /\ CallInv(c, Idle) /\ s.tickets \in Seq(Fixture)
  BY CallFacts DEF IsSession
<1>1. GlpiStep /\ call_count' = call_count
  BY DEF ListCategories, EnsureCategory, CreateCategory, GlpiStep, Kept, seedVars
\* The places these steps may go on to.
<1>2. ASSUME NEW pc \in {"newcategory", "article", "ticket"}, NEW missing \in SUBSET Categories,
             NEW t, t = [s EXCEPT !.pc = pc, !.missing = missing],
             s.pc \in {"categories", "newcategory", "category"},
             s.job = "demo" => pc # "article"
      PROVE  CallInv(c, t)
  <2>1. /\ IsSession(t) /\ t.pc = pc /\ t.job = s.job /\ t.out = s.out
        /\ t.seen = s.seen /\ t.tickets = s.tickets /\ t.articles = s.articles /\ t.page = s.page
    BY <1>0, <1>2 DEF IsSession, Idle, Pc
  <2>2. /\ s.page = {} /\ s.tickets # <<>> /\ s.job \in {"seed", "script", "demo"}
        /\ s.job # "demo" => s.articles # <<>>
    BY <1>0, <1>2 DEF Control, Walks
  <2>3. /\ s.pc \notin Walks \cup {"idle"} /\ t.pc \notin Walks \cup {"idle"}
        /\ t.job \in IF t.pc \in {"purge", "delete"} THEN {"script"}
                      ELSE IF t.pc \in {"categories", "article"} THEN {"seed", "script"}
                      ELSE IF t.pc = "category" THEN {"demo"}
                      ELSE {"seed", "script", "demo"}
        /\ t.pc # "delete"
        /\ t.pc \in {"purge", "categories", "article"} => t.articles # <<>>
        /\ t.pc = "newcategory" /\ t.job # "demo" => t.articles # <<>>
    BY <1>2, <2>1, <2>2 DEF Walks
  <2> HIDE DEF s
  <2> QED BY <1>0, <2>1, <2>2, <2>3, GoesOnOK DEF s
<1>3. CASE ListCategories(c)
  <2> DEFINE missing == {k \in s.missing : ~Exists(k)}
  <2>1. s.pc = "categories" /\ s.job # "demo" /\ missing \in SUBSET Categories
    BY <1>0, <1>3 DEF ListCategories, Control, Walks, IsSession
  <2>2. PICK o \in {"ok", "refused"} :
            Put(c, IF o = "ok"
                   THEN [s EXCEPT !.missing = missing,
                                  !.pc = IF missing = {} THEN "article" ELSE "newcategory"]
                   ELSE Idle)
    BY <1>3 DEF ListCategories
  <2> HIDE DEF missing
  <2>3. ASSUME NEW pc \in {"article", "newcategory"}
        PROVE  CallInv(c, [s EXCEPT !.missing = missing, !.pc = pc])
    <3>1. [s EXCEPT !.missing = missing, !.pc = pc] = [s EXCEPT !.pc = pc, !.missing = missing]
      BY <1>0 DEF IsSession, Idle
    <3> QED BY <1>2, <2>1, <3>1
  <2>4. CallInv(c, IF o = "ok"
                   THEN [s EXCEPT !.missing = missing,
                                  !.pc = IF missing = {} THEN "article" ELSE "newcategory"]
                   ELSE Idle)
    BY <1>0, <2>3
  <2> QED BY <1>1, <2>2, <2>4, PutOK
<1>4. CASE EnsureCategory(c)
  <2> DEFINE k == Head(s.tickets).category
  <2>1. s.pc = "category" /\ s.job = "demo" /\ s.missing \in SUBSET Categories
    BY <1>0, <1>4 DEF EnsureCategory, Control, Walks, IsSession
  <2>2. k \in Categories
    <3>1. s.tickets # <<>>
      BY <1>0, <2>1 DEF Control, Walks
    <3>2. Head(s.tickets) \in Fixture
      BY <1>0, <3>1, TailFacts
    <3> QED BY <3>2 DEF Fixture
  <2>3. \/ Put(c, [s EXCEPT !.pc = "ticket"])
        \/ Put(c, [s EXCEPT !.pc = "newcategory", !.missing = {k}])
    BY <1>4 DEF EnsureCategory
  <2> HIDE DEF k
  <2>4. [s EXCEPT !.pc = "ticket"] = [s EXCEPT !.pc = "ticket", !.missing = s.missing]
    BY <1>0 DEF IsSession, Idle
  <2>5. /\ CallInv(c, [s EXCEPT !.pc = "ticket"])
        /\ CallInv(c, [s EXCEPT !.pc = "newcategory", !.missing = {k}])
    BY <1>2, <2>1, <2>2, <2>4
  <2> QED BY <1>1, <2>3, <2>5, PutOK
<1>5. ASSUME NEW k \in Categories, CreateCategory(c, k) PROVE WalkInv'
  <2> DEFINE rest == s.missing \ {k}
  <2>1. /\ s.pc = "newcategory" /\ s.missing \in SUBSET Categories /\ rest \in SUBSET Categories
    BY <1>0, <1>5 DEF CreateCategory, IsSession
  <2>2. PICK o \in Outcome :
            Put(c, CASE s.job = "demo" -> [s EXCEPT !.pc = "ticket", !.missing = {}]
                     [] s.job # "demo" /\ Answered(o) ->
                           [s EXCEPT !.missing = rest,
                                     !.pc = IF rest = {} THEN "article" ELSE "newcategory"]
                     [] OTHER -> Idle)
    BY <1>5 DEF CreateCategory
  <2> HIDE DEF rest
  <2>3. ASSUME s.job # "demo", NEW pc \in {"article", "newcategory"}
        PROVE  CallInv(c, [s EXCEPT !.missing = rest, !.pc = pc])
    <3>1. [s EXCEPT !.missing = rest, !.pc = pc] = [s EXCEPT !.pc = pc, !.missing = rest]
      BY <1>0 DEF IsSession, Idle
    <3> QED BY <1>2, <2>1, <2>3, <3>1
  <2>4. CASE s.job = "demo"
    <3>1. Put(c, [s EXCEPT !.pc = "ticket", !.missing = {}])
      BY <2>2, <2>4
    <3>2. CallInv(c, [s EXCEPT !.pc = "ticket", !.missing = {}])
      BY <1>2, <2>1, <2>4
    <3> QED BY <1>1, <3>1, <3>2, PutOK
  <2>5. CASE s.job # "demo" /\ Answered(o)
    <3>1. Put(c, [s EXCEPT !.missing = rest,
                           !.pc = IF rest = {} THEN "article" ELSE "newcategory"])
      BY <2>2, <2>5
    <3>2. CallInv(c, [s EXCEPT !.missing = rest,
                               !.pc = IF rest = {} THEN "article" ELSE "newcategory"])
      BY <2>3, <2>5
    <3> QED BY <1>1, <3>1, <3>2, PutOK
  <2>6. CASE s.job # "demo" /\ ~Answered(o)
    <3>1. Put(c, Idle)
      BY <2>2, <2>6
    <3> QED BY <1>0, <1>1, <3>1, PutOK
  <2> QED BY <2>4, <2>5, <2>6
<1> QED
  BY <1>3, <1>4, <1>5

LEMMA NewRowOK ==
    ASSUME StoreOK(glpi, nextId), NEW name \in Names, NEW status \in {0, INCOMING}
    PROVE  NewRow(name, status) \in Row /\ NewRow(name, status).id = nextId
BY DEF NewRow, Row, StoreOK, Text

LEMMA CreateArticleKeeps ==
    ASSUME WalkInv, NEW c \in Callers, CreateArticle(c) PROVE WalkInv'
<1> DEFINE s == calls[c]
           rest == [s EXCEPT !.articles = Tail(@),
                             !.pc = IF Len(s.articles) = 1 THEN "ticket" ELSE "article"]
           row == NewRow(Head(s.articles), 0)
<1>0. /\ IsSession(s) /\ Control(c, s) /\ CallInv(c, Idle) /\ s.pc = "article"
      /\ StoreOK(glpi, nextId) /\ s.articles \in Seq(Names) /\ s.articles # <<>>
      /\ s.page = {} /\ s.tickets # <<>> /\ s.job \in {"seed", "script"}
  BY CallFacts DEF CreateArticle, Control, Walks, IsSession
<1>1. /\ Head(s.articles) \in Names /\ Tail(s.articles) \in Seq(Names)
      /\ Len(s.articles) # 1 => Tail(s.articles) # <<>>
  BY <1>0, TailFacts
<1>2. CallInv(c, rest)
  <2>1. /\ IsSession(rest) /\ rest.pc = (IF Len(s.articles) = 1 THEN "ticket" ELSE "article")
        /\ rest.job = s.job /\ rest.out = s.out /\ rest.seen = s.seen
        /\ rest.tickets = s.tickets /\ rest.articles = Tail(s.articles) /\ rest.page = s.page
    BY <1>0, <1>1 DEF IsSession, Idle, Pc
  <2> HIDE DEF rest
  <2> QED BY <1>0, <1>1, <2>1, GoesOnOK DEF Walks
<1>3. PICK o \in Outcome :
          /\ glpi' = IF Applied(o) THEN [glpi EXCEPT !["KnowbaseItem"] = Append(@, row)] ELSE glpi
          /\ nextId' = IF Applied(o) THEN nextId + 1 ELSE nextId
          /\ Put(c, IF o = "ok" THEN rest ELSE Idle)
          /\ call_count' = call_count
  BY DEF CreateArticle
<1>4. row \in Row /\ row.id = nextId
  BY <1>0, <1>1, NewRowOK
<1> HIDE DEF rest, row
<1>5. GlpiStep
  BY <1>3, <1>4 DEF GlpiStep, Kept, Added, Endpoint
<1> QED
  BY <1>0, <1>2, <1>3, <1>5, PutOK

LEMMA CreateTicketKeeps ==
    ASSUME WalkInv, NEW c \in Callers, CreateTicket(c) PROVE WalkInv'
<1> DEFINE s == calls[c]
           on == [s EXCEPT !.pc = AfterCreate(s), !.tid = nextId]
           row == NewRow(Head(s.tickets).name, INCOMING)
<1>0. /\ IsSession(s) /\ Control(c, s) /\ CallInv(c, Idle) /\ s.pc = "ticket"
      /\ StoreOK(glpi, nextId) /\ nextId \in Nat /\ s.tickets \in Seq(Fixture) /\ s.tickets # <<>>
      /\ s.page = {} /\ s.job \in {"seed", "script", "demo"}
  BY CallFacts DEF CreateTicket, Control, Walks, IsSession, StoreOK
<1>1. Head(s.tickets) \in Fixture /\ Head(s.tickets).name \in Names
  <2>1. Head(s.tickets) \in Fixture
    BY <1>0, TailFacts
  <2> QED BY <2>1 DEF Fixture
<1>2. CallInv(c, on) /\ CallInv(c, NextTicket(s)) /\ CallInv(c, Raised(s))
  <2>1. /\ IsSession(on) /\ on.pc \in {"solution", "close"}
        /\ on.job = s.job /\ on.out = s.out /\ on.seen = s.seen
        /\ on.tickets = s.tickets /\ on.page = s.page
    BY <1>0 DEF AfterCreate, IsSession, Idle, Pc
  <2> HIDE DEF on
  <2>2. CallInv(c, on)
    BY <1>0, <2>1, GoesOnOK DEF Walks
  <2>3. s.pc \in Tickets
    BY <1>0 DEF Tickets
  <2> QED BY <2>2, <2>3, NextTicketOK
<1>3. PICK o \in Outcome :
          /\ glpi' = IF Applied(o) THEN [glpi EXCEPT !["Ticket"] = Append(@, row)] ELSE glpi
          /\ nextId' = IF Applied(o) THEN nextId + 1 ELSE nextId
          /\ Put(c, CASE o = "ok" -> on
                      [] o = "refused" -> NextTicket(s)
                      [] OTHER -> Raised(s))
          /\ call_count' = call_count
  BY DEF CreateTicket
<1>4. row \in Row /\ row.id = nextId
  BY <1>0, <1>1, NewRowOK
<1> HIDE DEF on, row
<1>5. GlpiStep
  BY <1>3, <1>4 DEF GlpiStep, Kept, Added, Endpoint
<1>6. PICK t : Put(c, t) /\ CallInv(c, t)
  <2>1. CASE o = "ok"
    BY <1>2, <1>3, <2>1
  <2>2. CASE o = "refused"
    BY <1>2, <1>3, <2>2
  <2>3. CASE o \notin {"ok", "refused"}
    BY <1>2, <1>3, <2>3
  <2> QED BY <2>1, <2>2, <2>3
<1> QED
  BY <1>3, <1>5, <1>6, PutOK

LEMMA SolveCloseKeep ==
    ASSUME WalkInv, NEW c \in Callers, PostSolution(c) \/ CloseTicket(c) PROVE WalkInv'
<1> DEFINE s == calls[c]
<1>0. /\ IsSession(s) /\ Control(c, s) /\ CallInv(c, Idle) /\ s.pc \in {"solution", "close"}
      /\ StoreOK(glpi, nextId) /\ s.tickets \in Seq(Fixture) /\ s.tickets # <<>>
      /\ s.page = {} /\ s.job \in {"seed", "script", "demo"}
  BY CallFacts DEF PostSolution, CloseTicket, Control, Walks, IsSession
<1>1. CallInv(c, NextTicket(s)) /\ CallInv(c, Raised(s))
  BY <1>0, NextTicketOK DEF Tickets
<1>2. CASE PostSolution(c)
  <2> DEFINE on == [s EXCEPT !.pc = "close"]
  <2>1. /\ IsSession(on) /\ on.pc = "close" /\ on.job = s.job /\ on.out = s.out
        /\ on.seen = s.seen /\ on.tickets = s.tickets /\ on.page = s.page
    BY <1>0 DEF IsSession, Idle, Pc
  <2> HIDE DEF on
  <2>2. CallInv(c, on)
    BY <1>0, <2>1, GoesOnOK DEF Walks
  <2>3. PICK o \in Outcome :
            /\ glpi' = IF Applied(o) THEN Update(s.tid, SOLVED, Head(s.tickets).notes) ELSE glpi
            /\ Put(c, IF Answered(o) THEN on ELSE Raised(s))
            /\ nextId' = nextId /\ call_count' = call_count
    BY <1>2 DEF PostSolution, seedVars, on
  <2>4. Head(s.tickets).notes \in Text
    <3>1. Head(s.tickets) \in Fixture
      BY <1>0, TailFacts
    <3> QED BY <3>1 DEF Fixture
  <2>5. GlpiStep
    BY <1>0, <2>3, <2>4, UpdateFacts DEF GlpiStep, Kept
  <2> QED BY <1>1, <2>2, <2>3, <2>5, PutOK
<1>3. CASE CloseTicket(c)
  <2>1. PICK o \in Outcome :
            /\ glpi' = IF Applied(o) THEN Update(s.tid, CLOSED, SolutionOf(s.tid)) ELSE glpi
            /\ Put(c, IF Answered(o) THEN NextTicket(s) ELSE Raised(s))
            /\ nextId' = nextId /\ call_count' = call_count
    BY <1>3 DEF CloseTicket, seedVars
  <2>2. SolutionOf(s.tid) \in Text
    BY DEF SolutionOf, Text
  <2>3. GlpiStep
    BY <1>0, <2>1, <2>2, UpdateFacts DEF GlpiStep, Kept
  <2> QED BY <1>1, <2>1, <2>3, PutOK
<1> QED
  BY <1>2, <1>3

LEMMA DeleteKeeps ==
    ASSUME WalkInv, NEW c \in Callers, DeleteRow(c) PROVE WalkInv'
<1> DEFINE s == calls[c]
           e == s.endpoint
           id == First(s.page).id
           rest == [s EXCEPT !.page = @ \ {First(@)},
                             !.pc = IF s.page = {First(s.page)} THEN "purge" ELSE "delete"]
           Shifted(d) == IF calls[d].pc \in {"page", "rows"} /\ calls[d].endpoint = e
                         THEN [calls[d] EXCEPT !.shifts = @ + 1] ELSE calls[d]
<1>0. /\ IsSession(s) /\ Control(c, s) /\ CallInv(c, Idle) /\ s.pc = "delete"
      /\ StoreOK(glpi, nextId) /\ e \in Endpoint /\ s.page \in SUBSET Row /\ s.page # {}
      /\ \A x \in PageIds(s) : x \in Nat /\ x < nextId
  BY CallFacts DEF DeleteRow, Control, Walks, IsSession, InOrder, WalkOK, Met
<1>1. First(s.page) \in s.page
  BY <1>0, FirstOfPage
<1>2. /\ IsSession(rest) /\ rest.job = s.job /\ rest.out = s.out /\ rest.seen = s.seen
      /\ rest.tickets = s.tickets /\ rest.articles = s.articles
      /\ rest.page = s.page \ {First(s.page)}
      /\ rest.pc = (IF s.page = {First(s.page)} THEN "purge" ELSE "delete")
  BY <1>0 DEF IsSession, Idle, Pc
<1>3. PICK o \in Outcome :
          /\ glpi' = IF Applied(o) THEN [glpi EXCEPT ![e] = Without(@, id)] ELSE glpi
          /\ calls' = [d \in Callers |->
                IF d = c THEN IF Answered(o) THEN rest ELSE Idle
                ELSE IF Applied(o) /\ calls[d].pc \in {"page", "rows"} /\ calls[d].endpoint = e
                THEN [calls[d] EXCEPT !.shifts = @ + 1]
                ELSE calls[d]]
          /\ nextId' = nextId /\ call_count' = call_count
  BY DEF DeleteRow, seedVars
<1> HIDE DEF rest, id
<1>4. Control(c, rest) /\ \A g : WalkOK(rest, g, nextId)
  <2>1. s.out = <<>> /\ s.seen = {} /\ s.job = "script" /\ s.articles # <<>> /\ s.tickets # <<>>
    BY <1>0 DEF Control, Walks
  <2>2. /\ rest.pc \in {"purge", "delete"} /\ rest.pc = "purge" => rest.page = {}
        /\ rest.pc = "delete" => rest.page # {}
    BY <1>1, <1>2
  <2>3. Control(c, rest)
    BY <1>0, <1>2, <2>1, <2>2 DEF Control, Walks
  <2>4. \A x \in PageIds(rest) : x \in Nat /\ x < nextId
    BY <1>0, <1>2 DEF PageIds
  <2>5. ASSUME NEW g PROVE WalkOK(rest, g, nextId)
    BY <1>2, <2>1, <2>2, <2>4, WriterOK
  <2> QED BY <2>3, <2>5
<1>5. nextId \in Nat /\ \A g : WalkOK(Idle, g, nextId)
  BY <1>0, IdleOK DEF StoreOK
<1>6. \A d \in Callers : Control(d, calls[d]) /\ WalkOK(calls[d], glpi, nextId) /\ Control(d, Idle)
  BY CallFacts DEF CallInv
<1>7. CASE Applied(o)
  <2> DEFINE h == [glpi EXCEPT ![e] = Without(@, id)]
  <2>1. glpi' = h
    BY <1>3, <1>7
  <2>2. ASSUME NEW d \in Callers
        PROVE  StoreOK(h, nextId) /\ WalkOK(Shifted(d), h, nextId)
    <3>1. Shifted(d) = IF calls[d].pc \in {"page", "rows"} /\ calls[d].endpoint = e
                       THEN [calls[d] EXCEPT !.shifts = @ + 1] ELSE calls[d]
      OBVIOUS
    <3>2. h = [glpi EXCEPT ![e] = Without(@, id)]
      OBVIOUS
    <3>3. e \in Endpoint
      BY <1>0
    <3>4. StoreOK(glpi, nextId) /\ WalkOK(calls[d], glpi, nextId)
      BY <1>0, <1>6
    <3>5. h = Purged(glpi, e, id) /\ Shifted(d) = Slid(calls[d], e)
      BY DEF Purged, Slid
    <3> HIDE DEF h, Shifted, e
    <3> QED BY <3>3, <3>4, <3>5, PurgeOK
  <2>3. ASSUME NEW d \in Callers PROVE Control(d, Shifted(d))
    <3>1. CASE Shifted(d) = calls[d]
      BY <1>6, <3>1
    <3>2. CASE calls[d].pc \in {"page", "rows"} /\ Shifted(d) = [calls[d] EXCEPT !.shifts = @ + 1]
      <4> DEFINE t == [calls[d] EXCEPT !.shifts = @ + 1]
      <4>1. IsSession(calls[d])
        BY CallFacts
      <4>2. /\ t.pc = calls[d].pc /\ t.job = calls[d].job /\ t.page = calls[d].page
        BY <4>1 DEF IsSession, Idle
      <4> HIDE DEF t
      <4>3. Control(d, t)
        BY <1>6, <3>2, <4>2 DEF Control, Walks
      <4> QED BY <3>2, <4>3 DEF t
    <3> QED BY <3>1, <3>2
  <2>4. \A d \in Callers : d # c => calls'[d] = Shifted(d)
    BY <1>3, <1>7
  <2>5. calls'[c] \in {rest, Idle} /\ calls' = [d \in Callers |-> calls'[d]]
    BY <1>3
  <2> HIDE DEF h, Shifted
  <2>6. ASSUME NEW d \in Callers
        PROVE  WalkOK(calls'[d], h, nextId) /\ Control(d, calls'[d])
    BY <1>4, <1>5, <1>6, <2>2, <2>3, <2>4, <2>5
  <2>7. StoreOK(h, nextId)
    BY <2>2
  <2> QED BY <1>3, <2>1, <2>5, <2>6, <2>7 DEF WalkInv, CallInv
<1>8. CASE ~Applied(o)
  <2>1. /\ UNCHANGED <<glpi, nextId, call_count>>
        /\ \A d \in Callers : d # c => calls'[d] = calls[d]
        /\ calls'[c] \in {rest, Idle} /\ calls' = [d \in Callers |-> calls'[d]]
    BY <1>3, <1>8
  <2>2. ASSUME NEW d \in Callers
        PROVE  WalkOK(calls'[d], glpi, nextId) /\ Control(d, calls'[d])
    BY <1>4, <1>5, <1>6, <2>1
  <2> QED BY <2>1, <2>2 DEF WalkInv, CallInv
<1> QED
  BY <1>7, <1>8

LEMMA WalkInvInductive ==
    ASSUME WalkInv, [Next]_vars PROVE WalkInv'
<1>1. CASE UNCHANGED vars
  BY <1>1, KeepsCalls DEF vars, seedVars
<1>2. ASSUME NEW c \in Callers, Step(c) PROVE WalkInv'
  BY <1>2, WalkKeeps, DeliverKeeps, PurgeListKeeps, DeleteKeeps, CategoriesKeep,
     CreateArticleKeeps, CreateTicketKeeps, SolveCloseKeep DEF Step
<1> QED
  BY <1>1, <1>2, StartsKeep, CrashKeeps DEF Next

LEMMA WalkInvInit ==
    Init => WalkInv
<1> SUFFICES ASSUME Init PROVE WalkInv
  OBVIOUS
<1>1. StoreOK(glpi, nextId) /\ call_count \in Nat /\ nextId \in Nat
  BY DEF Init, StoreOK
<1>2. \A c \in Callers : calls[c] = Idle
  BY DEF Init
<1>3. calls = [c \in Callers |-> calls[c]]
  BY DEF Init
<1>4. \A c \in Callers : CallInv(c, Idle)
  BY <1>1, IdleOK DEF CallInv, Control, Idle, Walks, JobsOf
<1> QED
  BY <1>1, <1>2, <1>3, <1>4 DEF WalkInv

LEMMA WalkInvariant ==
    Spec => []WalkInv
BY WalkInvInit, WalkInvInductive, PTL DEF Spec

\* A walk hands no row over twice: its places only go up the list, and a row
\* that is purged can only bring the rest nearer.
THEOREM NeverTwice ==
    Spec => []WalkNeverRepeats
<1>1. WalkInv => WalkNeverRepeats
  BY DEF WalkInv, CallInv, WalkOK, InOrder, WalkNeverRepeats
<1> QED
  BY <1>1, WalkInvariant, PTL

\* A walk misses one row that it should find at most for each that was purged
\* under it, whatever is created, solved and closed meanwhile.
THEOREM MissesPaidFor ==
    Spec => []WalkMissesOnlyPurged
<1>1. WalkInv => WalkMissesOnlyPurged
  BY DEF WalkInv, CallInv, WalkOK, Thorough, Missed, WalkMissesOnlyPurged
<1> QED
  BY <1>1, WalkInvariant, PTL

-----------------------------------------------------------------------------
(* Categories: whoever found one missing may create it once *)

Pending(k, cs) == {c \in Callers : cs[c].pc = "newcategory" /\ k \in cs[c].missing}
Dropping(cs) == {c \in Admin : cs[c].pc # "idle"}
Writers(cs, d, n) ==
    /\ d \in Nat /\ n \in Nat
    /\ cs[Poll].pc # "newcategory"
    /\ cs[Cli].pc # "idle" => n >= 1
    /\ Cardinality(Dropping(cs)) <= d
Room(d, n) == Lesser(Cardinality(Callers \ {Poll}), 1 + d + n)

CategoryInv ==
    /\ categories \in [Categories -> Nat]
    /\ Writers(calls, demos, scripts)
    /\ \A k \in Categories :
          categories[k] + Cardinality(Pending(k, calls)) <= Room(demos, scripts)

LEMMA CallersFinite ==
    /\ IsFiniteSet(Callers \ {Poll})
    /\ Cardinality(Callers \ {Poll}) \in Nat
<1>1. IsFiniteSet((Admin \cup {Boot}) \cup {Cli})
  BY CallerAssumption, FS_AddElement
<1>2. Callers \ {Poll} = (Admin \cup {Boot}) \cup {Cli}
  BY CallerAssumption
<1> QED
  BY <1>1, <1>2, FS_CardinalityType

LEMMA RoomGrows ==
    ASSUME NEW d \in Nat, NEW n \in Nat, NEW e \in Nat, NEW m \in Nat, d <= e, n <= m
    PROVE  Room(d, n) <= Room(e, m) /\ Room(d, n) \in Nat /\ Room(e, m) \in Nat
<1> DEFINE N == Cardinality(Callers \ {Poll})
<1>1. N \in Nat
  BY CallersFinite
<1>2. /\ Room(d, n) = IF N < 1 + d + n THEN N ELSE 1 + d + n
      /\ Room(e, m) = IF N < 1 + e + m THEN N ELSE 1 + e + m
  BY DEF Room, Lesser
<1> HIDE DEF N
<1> QED
  BY <1>1, <1>2

\* Few enough can be about to create one, before there is any.
LEMMA FewPending ==
    ASSUME NEW cs, NEW d, NEW n, NEW k, Writers(cs, d, n)
    PROVE  /\ IsFiniteSet(Pending(k, cs)) /\ Cardinality(Pending(k, cs)) \in Nat
           /\ Cardinality(Pending(k, cs)) <= Room(d, n)
<1> DEFINE P == Pending(k, cs)
           A == Dropping(cs)
<1>0. d \in Nat /\ n \in Nat /\ Cardinality(A) <= d
  BY DEF Writers
<1>1. P \subseteq Callers \ {Poll}
  BY DEF Writers, Pending
<1>2. IsFiniteSet(P) /\ Cardinality(P) \in Nat /\ Cardinality(P) <= Cardinality(Callers \ {Poll})
  BY <1>1, CallersFinite, FS_Subset, FS_CardinalityType
<1>3. IsFiniteSet(A) /\ Cardinality(A) \in Nat
  BY CallerAssumption, FS_Subset, FS_CardinalityType DEF Dropping
<1>4. P \subseteq (A \cup {Boot}) \cup {Cli} /\ (n = 0 => P \subseteq A \cup {Boot})
  BY CallerAssumption DEF Writers, Pending, Dropping
<1> HIDE DEF P, A
<1>5. IsFiniteSet(A \cup {Boot}) /\ Cardinality(A \cup {Boot}) <= d + 1
  BY <1>0, <1>3, OneMore
<1>6. Cardinality(P) <= 1 + d + n
  <2>1. CASE n = 0
    <3>1. Cardinality(P) <= Cardinality(A \cup {Boot}) /\ Cardinality(A \cup {Boot}) \in Nat
      BY <1>4, <1>5, <2>1, FS_Subset, FS_CardinalityType
    <3> QED BY <1>0, <1>2, <1>5, <2>1, <3>1
  <2>2. CASE n # 0
    <3>1. Cardinality(P) <= d + 1 + 1
      BY <1>0, <1>4, <1>5, OneMore
    <3> QED BY <1>0, <1>2, <2>2, <3>1
  <2> QED BY <2>1, <2>2
<1> QED
  BY <1>0, <1>2, <1>6, CallersFinite DEF P, Room, Lesser

\* A step that creates none, and makes a call about to create one only if
\* there is none of it.
LEMMA NoneCreated ==
    ASSUME CategoryInv, Writers(calls', demos', scripts'),
           demos' >= demos, scripts' >= scripts, categories' = categories,
           \A c \in Callers, k \in Categories :
              calls'[c].pc = "newcategory" /\ k \in calls'[c].missing =>
                 \/ calls[c].pc = "newcategory" /\ k \in calls[c].missing
                 \/ categories[k] = 0
    PROVE  CategoryInv'
<1>0. /\ demos \in Nat /\ scripts \in Nat /\ demos' \in Nat /\ scripts' \in Nat
      /\ categories \in [Categories -> Nat]
  BY DEF CategoryInv, Writers
<1>1. Room(demos, scripts) <= Room(demos', scripts')
      /\ Room(demos, scripts) \in Nat /\ Room(demos', scripts') \in Nat
  BY <1>0, RoomGrows
<1>2. ASSUME NEW k \in Categories
      PROVE  categories[k] + Cardinality(Pending(k, calls')) <= Room(demos', scripts')
  <2> DEFINE P == Pending(k, calls)
             Q == Pending(k, calls')
  <2>1. /\ IsFiniteSet(P) /\ Cardinality(P) \in Nat /\ Cardinality(Q) \in Nat
        /\ Cardinality(Q) <= Room(demos', scripts')
    BY FewPending DEF CategoryInv
  <2>2. CASE categories[k] = 0
    BY <1>0, <1>1, <2>1, <2>2
  <2>3. CASE categories[k] # 0
    <3>1. Q \subseteq P
      BY <2>3 DEF Pending
    <3>2. Cardinality(Q) <= Cardinality(P)
      BY <2>1, <3>1, FS_Subset
    <3>3. categories[k] + Cardinality(P) <= Room(demos, scripts) /\ categories[k] \in Nat
      BY <1>0 DEF CategoryInv
    <3> HIDE DEF P, Q
    <3> QED BY <1>1, <2>1, <3>2, <3>3 DEF Q
  <2> QED BY <2>2, <2>3
<1> QED
  BY <1>0, <1>2 DEF CategoryInv

\* A step of one call that runs, or of the bootstrap's or the walks' caller.
LEMMA PutsNone ==
    ASSUME WalkInv, WalkInv', CategoryInv, NEW c \in Callers, NEW t, Put(c, t),
           calls[c].pc # "idle" \/ c \in {Boot, Poll},
           UNCHANGED <<categories, demos, scripts>>,
           t.pc = "newcategory" => \A k \in t.missing : categories[k] = 0
    PROVE  CategoryInv'
<1>1. /\ calls'[c] = t
      /\ \A d \in Callers : d # c => calls'[d] = calls[d]
  BY PutFacts DEF WalkInv
<1>2. calls'[Poll].pc # "newcategory"
  BY CallerAssumption DEF WalkInv, CallInv, Control, JobsOf, Walks
<1>3. Dropping(calls') \subseteq Dropping(calls)
  BY <1>1, CallerAssumption DEF Dropping
<1>4. Cardinality(Dropping(calls')) <= demos
  <2>1. IsFiniteSet(Dropping(calls))
    BY CallerAssumption, FS_Subset DEF Dropping
  <2>2. /\ Cardinality(Dropping(calls')) <= Cardinality(Dropping(calls))
        /\ IsFiniteSet(Dropping(calls'))
    BY <1>3, <2>1, FS_Subset
  <2>3. Cardinality(Dropping(calls')) \in Nat /\ Cardinality(Dropping(calls)) \in Nat
    BY <2>1, <2>2, FS_CardinalityType
  <2> QED BY <2>2, <2>3 DEF CategoryInv, Writers
<1>5. Writers(calls', demos', scripts')
  BY <1>1, <1>2, <1>4, CallerAssumption DEF CategoryInv, Writers
<1>6. demos' >= demos /\ scripts' >= scripts
  BY DEF CategoryInv, Writers
<1> QED
  BY <1>1, <1>5, <1>6, NoneCreated

LEMMA WalksCreateNone ==
    ASSUME WalkInv, WalkInv', CategoryInv, NEW c \in Callers,
           ContinueWalk(c) \/ Deliver(c) \/ PurgeList(c)
    PROVE  CategoryInv'
<1> DEFINE s == calls[c]
<1>0. IsSession(s) /\ UNCHANGED <<categories, demos, scripts>> /\ Idle.pc = "idle"
  BY CallFacts DEF ContinueWalk, Deliver, PurgeList, seedVars, Idle
<1>1. ASSUME NEW u, IsSession(u), u.pc # "newcategory" PROVE PageEnd(u).pc # "newcategory"
  BY <1>1 DEF PageEnd, Listed, IsSession, Idle
<1>2. CASE GetPage(c)
  <2> DEFINE u == Read(s, PageAt(glpi[s.endpoint], s.offset))
  <2>1. s.pc = "page" /\ Put(c, PageEnd(u))
    BY <1>2 DEF GetPage
  <2>2. IsSession(u) /\ u.pc = "rows"
    BY <2>1, CallFacts, ReadOK DEF WalkOK
  <2> HIDE DEF u
  <2> QED BY <1>0, <1>1, <2>1, <2>2, PutsNone
<1>3. CASE GetPageFails(c)
  BY <1>0, <1>3, PutsNone DEF GetPageFails
<1>4. CASE HydrateTicket(c)
  <2> DEFINE u(o) == [s EXCEPT !.page = @ \ {First(s.page)}, !.out = Append(@,
                          HandedOver(First(s.page), IF o = "ok" THEN SolutionOf(First(s.page).id)
                                                    ELSE "none"))]
  <2>1. PICK o \in Outcome : s.pc = "rows" /\ Put(c, PageEnd(u(o)))
    BY <1>4 DEF HydrateTicket
  <2>2. (IF o = "ok" THEN SolutionOf(First(s.page).id) ELSE "none") \in Text
    BY DEF SolutionOf, Text
  <2>3. s.page # {} /\ WalkOK(s, glpi, nextId) /\ StoreOK(glpi, nextId)
    BY <2>1, CallFacts DEF Control
  <2>4. IsSession(u(o)) /\ u(o).pc = "rows"
    BY <2>1, <2>2, <2>3, HydrateOK DEF WalkOK
  <2> HIDE DEF u
  <2> QED BY <1>0, <1>1, <2>1, <2>4, PutsNone
<1>5. CASE Deliver(c)
  <2>1. /\ s.pc = "listed"
        /\ Put(c, IF s.job = "inventory" THEN AfterInventory(s) ELSE Idle)
    BY <1>5 DEF Deliver
  <2>2. (IF s.job = "inventory" THEN AfterInventory(s) ELSE Idle).pc # "newcategory"
    BY DEF AfterInventory, Script, Idle
  <2> HIDE DEF s
  <2> QED BY <1>0, <2>1, <2>2, PutsNone DEF s
<1>6. CASE PurgeList(c)
  <2> DEFINE rows == SubSeq(glpi[s.endpoint], 1, Lesser(PageSize, Len(glpi[s.endpoint])))
  <2>1. PICK o \in Outcome :
            Put(c, IF ~Answered(o) THEN Idle
                   ELSE IF o = "refused" \/ rows = <<>> THEN PurgeDone(s)
                   ELSE [s EXCEPT !.pc = "delete", !.page = Members(rows)])
    BY <1>6 DEF PurgeList
  <2>2. s.pc = "purge"
    BY <1>6 DEF PurgeList
  <2>3. /\ PurgeDone(s).pc # "newcategory"
        /\ [s EXCEPT !.pc = "delete", !.page = Members(rows)].pc # "newcategory"
    BY <1>0 DEF PurgeDone, IsSession, Idle
  <2> HIDE DEF rows
  <2>4. PICK t : Put(c, t) /\ t.pc # "newcategory"
    BY <1>0, <2>1, <2>3
  <2> QED BY <1>0, <2>2, <2>4, PutsNone
<1> QED
  BY <1>2, <1>3, <1>4, <1>5, <1>6 DEF ContinueWalk, WalkStep

LEMMA WritesCreateNone ==
    ASSUME WalkInv, WalkInv', CategoryInv, NEW c \in Callers,
           CreateArticle(c) \/ CreateTicket(c) \/ PostSolution(c) \/ CloseTicket(c)
    PROVE  CategoryInv'
<1> DEFINE s == calls[c]
           rest == [s EXCEPT !.articles = Tail(@),
                             !.pc = IF Len(s.articles) = 1 THEN "ticket" ELSE "article"]
           made == [s EXCEPT !.pc = AfterCreate(s), !.tid = nextId]
           solved == [s EXCEPT !.pc = "close"]
<1>0. /\ IsSession(s) /\ UNCHANGED <<categories, demos, scripts>> /\ Idle.pc = "idle"
      /\ s.pc # "idle"
  BY CallFacts DEF CreateArticle, CreateTicket, PostSolution, CloseTicket, seedVars, Idle
<1>1. /\ rest.pc # "newcategory" /\ made.pc # "newcategory" /\ solved.pc # "newcategory"
  BY <1>0 DEF AfterCreate, IsSession, Idle
<1>2. NextTicket(s).pc # "newcategory" /\ Raised(s).pc # "newcategory"
  <2>1. ASSUME Len(s.tickets) > 1 PROVE NextTicket(s).pc # "newcategory"
    BY <1>0, <2>1 DEF NextTicket, IsSession, Idle
  <2>2. ASSUME ~(Len(s.tickets) > 1) PROVE NextTicket(s).pc # "newcategory"
    BY <2>2 DEF NextTicket, Walk, Idle
  <2> QED BY <1>0, <2>1, <2>2 DEF Raised
<1>3. \E t \in {Idle, rest, made, solved, NextTicket(s), Raised(s)} : Put(c, t)
  <2>1. CASE CreateArticle(c)
    BY <2>1 DEF CreateArticle
  <2>2. CASE CreateTicket(c)
    <3>1. PICK o \in Outcome :
              Put(c, CASE o = "ok" -> made
                       [] o = "refused" -> NextTicket(s)
                       [] OTHER -> Raised(s))
      BY <2>2 DEF CreateTicket
    <3> HIDE DEF made, s, rest, solved
    <3> QED BY <3>1
  <2>3. CASE PostSolution(c)
    BY <2>3 DEF PostSolution
  <2>4. CASE CloseTicket(c)
    BY <2>4 DEF CloseTicket
  <2> QED BY <2>1, <2>2, <2>3, <2>4
<1> HIDE DEF rest, made, solved
<1> QED
  BY <1>0, <1>1, <1>2, <1>3, PutsNone

\* Purging changes no call's place, and a crash only ends calls.
LEMMA EndsCreateNone ==
    ASSUME WalkInv, WalkInv', CategoryInv,
           (\E c \in Callers : DeleteRow(c)) \/ Crash
    PROVE  CategoryInv'
<1>0. /\ UNCHANGED <<categories, demos, scripts>>
      /\ \A c \in Callers : IsSession(calls[c])
  BY CallFacts DEF DeleteRow, Crash, seedVars
<1>1. \A d \in Callers :
          /\ calls'[d].pc # "idle" => calls[d].pc # "idle"
          /\ calls'[d].pc = "newcategory" =>
                calls[d].pc = "newcategory" /\ calls'[d].missing = calls[d].missing
  <2>1. ASSUME NEW c \in Callers, DeleteRow(c), NEW d \in Callers
        PROVE  /\ calls'[d].pc # "idle" => calls[d].pc # "idle"
               /\ calls'[d].pc = "newcategory" =>
                     calls[d].pc = "newcategory" /\ calls'[d].missing = calls[d].missing
    <3> DEFINE s == calls[c]
               rest == [s EXCEPT !.page = @ \ {First(@)},
                                 !.pc = IF s.page = {First(s.page)} THEN "purge" ELSE "delete"]
               later == [calls[d] EXCEPT !.shifts = @ + 1]
    <3>1. s.pc = "delete" /\ IsSession(s) /\ IsSession(calls[d])
      BY <1>0, <2>1 DEF DeleteRow
    <3>2. /\ rest.pc \in {"purge", "delete"} /\ Idle.pc = "idle"
          /\ later.pc = calls[d].pc /\ later.missing = calls[d].missing
      BY <3>1 DEF IsSession, Idle
    <3>3. \/ d = c /\ calls'[d] \in {rest, Idle}
          \/ d # c /\ calls'[d] \in {later, calls[d]}
      BY <2>1 DEF DeleteRow
    <3> HIDE DEF rest, later
    <3> QED BY <3>1, <3>2, <3>3
  <2>2. ASSUME Crash, NEW d \in Callers PROVE calls'[d] = calls[d] \/ calls'[d].pc = "idle"
    BY <2>2 DEF Crash, Idle
  <2> QED BY <2>1, <2>2
<1>2. calls'[Poll].pc # "newcategory"
  BY CallerAssumption DEF WalkInv, CallInv, Control, JobsOf, Walks
<1>3. Dropping(calls') \subseteq Dropping(calls)
  BY <1>1, CallerAssumption DEF Dropping
<1>4. Cardinality(Dropping(calls')) <= demos
  <2>1. IsFiniteSet(Dropping(calls))
    BY CallerAssumption, FS_Subset DEF Dropping
  <2>2. /\ Cardinality(Dropping(calls')) <= Cardinality(Dropping(calls))
        /\ IsFiniteSet(Dropping(calls'))
    BY <1>3, <2>1, FS_Subset
  <2>3. Cardinality(Dropping(calls')) \in Nat /\ Cardinality(Dropping(calls)) \in Nat
    BY <2>1, <2>2, FS_CardinalityType
  <2> QED BY <2>2, <2>3 DEF CategoryInv, Writers
<1>5. Writers(calls', demos', scripts')
  BY <1>0, <1>1, <1>2, <1>4, CallerAssumption DEF CategoryInv, Writers
<1>6. demos' >= demos /\ scripts' >= scripts
  BY <1>0 DEF CategoryInv, Writers
<1> QED
  BY <1>0, <1>1, <1>5, <1>6, NoneCreated

LEMMA StartsCreateNone ==
    ASSUME WalkInv, WalkInv', CategoryInv,
           \/ Start \/ PollOrImport \/ RunScript
           \/ \E i \in DOMAIN glpi["Ticket"] : GetOneTicket(i)
           \/ \E c \in Callers : SeedDemo(c)
    PROVE  CategoryInv'
<1>p. calls'[Poll].pc # "newcategory"
  BY CallerAssumption DEF WalkInv, CallInv, Control, JobsOf, Walks
<1>1. CASE Start
  <2>1. /\ Put(Boot, Walk("inventory", "Ticket")) /\ UNCHANGED <<categories, demos, scripts>>
        /\ Walk("inventory", "Ticket").pc = "page"
    BY <1>1 DEF Start, Walk, Idle
  <2> QED BY <2>1, CallerAssumption, PutsNone
<1>2. ASSUME NEW job, NEW e, StartWalk(job, e) PROVE CategoryInv'
  <2>1. /\ Put(Poll, Walk(job, e)) /\ UNCHANGED <<categories, demos, scripts>>
        /\ Walk(job, e).pc = "page"
    BY <1>2 DEF StartWalk, Walk, Idle, seedVars
  <2> QED BY <2>1, CallerAssumption, PutsNone
<1>3. ASSUME NEW i \in DOMAIN glpi["Ticket"], GetOneTicket(i) PROVE CategoryInv'
  <2> DEFINE s == [Idle EXCEPT !.pc = "rows", !.job = "get", !.short = TRUE,
                               !.page = {glpi["Ticket"][i]}]
  <2>1. Put(Poll, s) /\ UNCHANGED <<categories, demos, scripts>> /\ s.pc = "rows"
    BY <1>3 DEF GetOneTicket, GetTicket, Idle, seedVars
  <2> HIDE DEF s
  <2> QED BY <2>1, CallerAssumption, PutsNone
<1>4. CASE RunScript
  <2>1. /\ Put(Cli, Script("script", "purge")) /\ Script("script", "purge").pc = "purge"
        /\ scripts' = scripts + 1 /\ demos' = demos /\ categories' = categories
    BY <1>4 DEF RunScript, Script, Idle
  <2>2. /\ calls'[Cli].pc = "purge"
        /\ \A d \in Callers : d # Cli => calls'[d] = calls[d]
    BY <2>1, CallerAssumption, PutFacts DEF WalkInv
  <2>3. Dropping(calls') = Dropping(calls)
    BY <2>2, CallerAssumption DEF Dropping
  <2>4. demos \in Nat /\ scripts \in Nat /\ Cardinality(Dropping(calls)) <= demos
    BY DEF CategoryInv, Writers
  <2>5. Writers(calls', demos', scripts') /\ demos' >= demos /\ scripts' >= scripts
    BY <1>p, <2>1, <2>3, <2>4 DEF Writers
  <2> QED BY <2>1, <2>2, <2>5, NoneCreated
<1>5. ASSUME NEW c \in Callers, SeedDemo(c) PROVE CategoryInv'
  <2> DEFINE s == [Idle EXCEPT !.pc = "category", !.job = "demo", !.tickets = next_pack]
  <2>1. /\ Put(c, s) /\ s.pc = "category" /\ c \in Admin
        /\ demos' = demos + 1 /\ scripts' = scripts /\ categories' = categories
    BY <1>5 DEF SeedDemo, Idle
  <2> HIDE DEF s
  <2>2. /\ calls'[c].pc = "category"
        /\ \A d \in Callers : d # c => calls'[d] = calls[d]
    BY <2>1, PutFacts DEF WalkInv
  <2>3. Dropping(calls') \subseteq Dropping(calls) \cup {c}
    BY <2>2, CallerAssumption DEF Dropping
  <2>4. demos \in Nat /\ scripts \in Nat /\ Cardinality(Dropping(calls)) <= demos
    BY DEF CategoryInv, Writers
  <2>5. Cardinality(Dropping(calls')) <= demos + 1
    <3>1. IsFiniteSet(Dropping(calls))
      BY CallerAssumption, FS_Subset DEF Dropping
    <3> QED BY <2>3, <2>4, <3>1, OneMore
  <2>6. calls'[Cli] = calls[Cli]
    BY <2>1, <2>2, CallerAssumption
  <2>7. Writers(calls', demos', scripts') /\ demos' >= demos /\ scripts' >= scripts
    BY <1>p, <2>1, <2>4, <2>5, <2>6 DEF CategoryInv, Writers
  <2> QED BY <2>1, <2>2, <2>7, NoneCreated
<1> QED
  BY <1>1, <1>2, <1>3, <1>4, <1>5 DEF PollOrImport

\* A category is looked up, and created.
LEMMA LookUpCreatesNone ==
    ASSUME WalkInv, WalkInv', CategoryInv, NEW c \in Callers,
           ListCategories(c) \/ EnsureCategory(c)
    PROVE  CategoryInv'
<1> DEFINE s == calls[c]
<1>0. /\ IsSession(s) /\ UNCHANGED <<categories, demos, scripts>> /\ Idle.pc = "idle"
      /\ s.pc # "idle" /\ s.missing \subseteq Categories /\ Control(c, s)
      /\ categories \in [Categories -> Nat]
  BY CallFacts DEF ListCategories, EnsureCategory, seedVars, Idle, IsSession, CategoryInv
<1>1. CASE ListCategories(c)
  <2> DEFINE missing == {k \in s.missing : ~Exists(k)}
             more == [s EXCEPT !.missing = missing,
                               !.pc = IF missing = {} THEN "article" ELSE "newcategory"]
  <2>1. \E t \in {more, Idle} : Put(c, t)
    BY <1>1 DEF ListCategories
  <2>2. more.missing = missing
    BY <1>0 DEF IsSession, Idle
  <2>3. \A k \in missing : categories[k] = 0
    BY <1>0 DEF Exists
  <2> HIDE DEF more, missing
  <2> QED BY <1>0, <2>1, <2>2, <2>3, PutsNone
<1>2. CASE EnsureCategory(c)
  <2> DEFINE k == Head(s.tickets).category
             more == [s EXCEPT !.pc = "newcategory", !.missing = {k}]
             on == [s EXCEPT !.pc = "ticket"]
  <2>1. Put(c, on) \/ (Put(c, more) /\ ~Exists(k))
    BY <1>2 DEF EnsureCategory
  <2>2. more.missing = {k} /\ on.pc = "ticket"
    BY <1>0 DEF IsSession, Idle
  <2>3. k \in Categories
    <3>1. s.tickets # <<>> /\ s.tickets \in Seq(Fixture)
      BY <1>0, <1>2 DEF EnsureCategory, Control, Walks, IsSession
    <3>2. Head(s.tickets) \in Fixture
      BY <3>1, TailFacts
    <3> QED BY <3>2 DEF Fixture
  <2>4. ~Exists(k) => categories[k] = 0
    BY <1>0, <2>3 DEF Exists
  <2> HIDE DEF more, k, on
  <2> QED BY <1>0, <2>1, <2>2, <2>4, PutsNone
<1> QED
  BY <1>1, <1>2

LEMMA OneCreated ==
    ASSUME WalkInv, WalkInv', CategoryInv, NEW c \in Callers, NEW k \in Categories,
           CreateCategory(c, k)
    PROVE  CategoryInv'
<1> DEFINE s == calls[c]
           rest == s.missing \ {k}
           dropped == [s EXCEPT !.pc = "ticket", !.missing = {}]
           on == [s EXCEPT !.missing = rest,
                           !.pc = IF rest = {} THEN "article" ELSE "newcategory"]
<1>0. /\ IsSession(s) /\ s.pc = "newcategory" /\ k \in s.missing
      /\ demos' = demos /\ scripts' = scripts
      /\ categories \in [Categories -> Nat] /\ demos \in Nat /\ scripts \in Nat
  BY CallFacts DEF CreateCategory, CategoryInv, Writers
<1>1. /\ on.missing = rest /\ dropped.pc = "ticket" /\ Idle.pc = "idle"
  BY <1>0 DEF IsSession, Idle
<1>2. \E t \in {on, dropped, Idle} : Put(c, t)
  <2>1. PICK o \in Outcome :
            Put(c, CASE s.job = "demo" -> dropped
                     [] s.job # "demo" /\ Answered(o) -> on
                     [] OTHER -> Idle)
    BY DEF CreateCategory
  <2> HIDE DEF on, dropped, s
  <2> QED BY <2>1
<1>3. categories' = categories \/ categories' = [categories EXCEPT ![k] = @ + 1]
  BY DEF CreateCategory
<1> HIDE DEF on, dropped
<1>4. /\ calls'[c].pc = "newcategory" => calls'[c].missing = rest
      /\ \A d \in Callers : d # c => calls'[d] = calls[d]
  BY <1>1, <1>2, PutFacts DEF WalkInv
<1>5. calls'[Poll].pc # "newcategory"
  BY CallerAssumption DEF WalkInv, CallInv, Control, JobsOf, Walks
<1>6. Dropping(calls') \subseteq Dropping(calls)
  BY <1>0, <1>4, CallerAssumption DEF Dropping
<1>7. Cardinality(Dropping(calls')) <= demos
  <2>1. IsFiniteSet(Dropping(calls))
    BY CallerAssumption, FS_Subset DEF Dropping
  <2>2. /\ Cardinality(Dropping(calls')) <= Cardinality(Dropping(calls))
        /\ IsFiniteSet(Dropping(calls'))
    BY <1>6, <2>1, FS_Subset
  <2>3. Cardinality(Dropping(calls')) \in Nat /\ Cardinality(Dropping(calls)) \in Nat
    BY <2>1, <2>2, FS_CardinalityType
  <2> QED BY <1>0, <2>2, <2>3 DEF CategoryInv, Writers
<1>8. Writers(calls', demos', scripts')
  BY <1>0, <1>4, <1>5, <1>7, CallerAssumption DEF CategoryInv, Writers
<1>9. ASSUME NEW j \in Categories
      PROVE  categories'[j] + Cardinality(Pending(j, calls')) <= Room(demos, scripts)
  <2> DEFINE P == Pending(j, calls)
             Q == Pending(j, calls')
  <2>1. /\ IsFiniteSet(P) /\ Cardinality(P) \in Nat /\ Cardinality(Q) \in Nat
        /\ IsFiniteSet(Q)
    BY <1>8, FewPending DEF CategoryInv
  <2>2. categories[j] + Cardinality(P) <= Room(demos, scripts) /\ categories[j] \in Nat
        /\ Room(demos, scripts) \in Nat
    BY <1>0, RoomGrows DEF CategoryInv
  <2>3. Q \subseteq P
    BY <1>0, <1>4 DEF Pending
  <2>4. CASE j # k
    <3>1. categories'[j] = categories[j]
      BY <1>0, <1>3, <2>4
    <3> HIDE DEF P, Q
    <3>2. Cardinality(Q) <= Cardinality(P)
      BY <2>1, <2>3, FS_Subset
    <3> QED BY <2>1, <2>2, <3>1, <3>2 DEF Q
  <2>5. CASE j = k
    <3>1. c \in P /\ c \notin Q
      BY <1>0, <1>4, <2>5 DEF Pending
    <3>2. categories'[j] <= categories[j] + 1 /\ categories'[j] \in Nat
      BY <1>0, <1>3, <2>5
    <3> HIDE DEF P, Q
    <3>3. Cardinality(Q) < Cardinality(P)
      <4>1. Q \subseteq P \ {c}
        BY <2>3, <3>1
      <4>2. IsFiniteSet(P \ {c}) /\ Cardinality(P \ {c}) = Cardinality(P) - 1
        BY <2>1, <3>1, FS_RemoveElement
      <4>3. Cardinality(Q) <= Cardinality(P \ {c})
        BY <4>1, <4>2, FS_Subset
      <4> QED BY <2>1, <4>2, <4>3
    <3> QED BY <2>1, <2>2, <3>2, <3>3 DEF Q
  <2> QED BY <2>4, <2>5
<1> QED
  BY <1>0, <1>3, <1>8, <1>9 DEF CategoryInv

LEMMA CategoryInvInductive ==
    ASSUME WalkInv, WalkInv', CategoryInv, [Next]_vars PROVE CategoryInv'
<1>1. CASE UNCHANGED vars
  BY <1>1 DEF vars, seedVars, CategoryInv, Writers, Pending, Dropping
<1>2. ASSUME NEW c \in Callers, Step(c) PROVE CategoryInv'
  BY <1>2, WalksCreateNone, EndsCreateNone, LookUpCreatesNone, OneCreated,
     WritesCreateNone DEF Step
<1> QED
  BY <1>1, <1>2, StartsCreateNone, EndsCreateNone DEF Next

LEMMA CategoryInvInit ==
    Init => CategoryInv
<1> SUFFICES ASSUME Init PROVE CategoryInv
  OBVIOUS
<1>1. \A c \in Callers : calls[c].pc = "idle"
  BY DEF Init, Idle
<1>2. Dropping(calls) = {}
  BY <1>1, CallerAssumption DEF Dropping
<1>3. Writers(calls, demos, scripts)
  <2>1. Cardinality(Dropping(calls)) = 0
    BY <1>2, FS_EmptySet
  <2>2. /\ demos \in Nat /\ scripts \in Nat /\ demos = 0
        /\ calls[Poll].pc = "idle" /\ calls[Cli].pc = "idle"
    BY <1>1, CallerAssumption DEF Init
  <2> QED BY <2>1, <2>2 DEF Writers
<1>4. ASSUME NEW k \in Categories
      PROVE  categories[k] + Cardinality(Pending(k, calls)) <= Room(demos, scripts)
  <2>1. categories[k] = 0
    BY DEF Init
  <2>2. /\ Cardinality(Pending(k, calls)) <= Room(demos, scripts)
        /\ Cardinality(Pending(k, calls)) \in Nat
    BY <1>3, FewPending
  <2> QED BY <2>1, <2>2
<1> QED
  BY <1>3, <1>4 DEF Init, CategoryInv

\* A category is there as often as callers looked for it before it was there,
\* at most: never again after an answer that was lost, or a restart.
THEOREM CategoriesBounded ==
    Spec => []CategoryCopiesBounded
<1>1. CategoryInv => CategoryCopiesBounded
  <2> SUFFICES ASSUME CategoryInv, NEW k \in Categories
               PROVE  categories[k] <= Room(demos, scripts)
    BY DEF CategoryCopiesBounded, Room
  <2>1. /\ Cardinality(Pending(k, calls)) \in Nat /\ categories[k] \in Nat
        /\ categories[k] + Cardinality(Pending(k, calls)) <= Room(demos, scripts)
        /\ Room(demos, scripts) \in Nat
    <3>1. /\ Writers(calls, demos, scripts) /\ categories[k] \in Nat
          /\ categories[k] + Cardinality(Pending(k, calls)) <= Room(demos, scripts)
      BY DEF CategoryInv
    <3>2. demos \in Nat /\ scripts \in Nat
      BY <3>1 DEF Writers
    <3>3. Room(demos, scripts) \in Nat
      BY <3>2, RoomGrows
    <3> QED BY <3>1, <3>3, FewPending
  <2> QED BY <2>1
<1>2. Spec => []CategoryInv
  BY CategoryInvInit, CategoryInvInductive, WalkInvariant, PTL DEF Spec
<1> QED
  BY <1>1, <1>2, PTL

-----------------------------------------------------------------------------
(* Notes: what it takes to hand over a ticket without its notes *)

Closing(cs, id) == \E d \in Callers : cs[d].pc = "close" /\ cs[d].tid = id
IsBare(row, cs) ==
    /\ row.name \in WithNotes /\ row.solution = "none"
    /\ Resolved(row) \/ Closing(cs, row.id)
\* The tickets that are, or are about to be, listed without their notes.
Bare(g, cs) ==
    {x \in Nat : \E i \in DOMAIN g["Ticket"] :
                    g["Ticket"][i].id = x /\ IsBare(g["Ticket"][i], cs)}
\* The rows of a walk's page that have been purged, and what it handed over.
Gone(s, g) == {row.id : row \in {r \in s.page : r.name \in WithNotes /\ r.id \notin Ids(g["Ticket"])}}
Hollow(s) == {x \in Nat : \E i \in DOMAIN s.out :
                 s.out[i].id = x /\ s.out[i].name \in WithNotes /\ s.out[i].solution = "none"}
Poor(s, g, cs) == Hollow(s) \cup Gone(s, g) \cup Bare(g, cs)

Paid(S, n) == IsFiniteSet(S) /\ Cardinality(S) <= n
\* One more is paid for by one more.
Grown(A, B, n, m) ==
    /\ n \in Nat /\ m \in Nat
    /\ \/ B \subseteq A /\ n <= m
       \/ \E x : B \subseteq A \cup {x} /\ n + 1 <= m

Lists(s) == s.pc \in Walks /\ s.endpoint = "Ticket" /\ s.job # "get"
PageOK(s, g) ==
    /\ s.pc = "listed" => s.page = {}
    /\ \A r \in s.page : Resolved(r)
    /\ \A r \in s.page, i \in DOMAIN g["Ticket"] :
          g["Ticket"][i].id = r.id => /\ Resolved(g["Ticket"][i])
                                      /\ g["Ticket"][i].name = r.name
TidOK(s, g, n) ==
    s.pc \in {"solution", "close"} =>
        /\ s.tid < n
        /\ \A i \in DOMAIN g["Ticket"] :
              g["Ticket"][i].id = s.tid => g["Ticket"][i].name = Head(s.tickets).name
WalkPaid(s, g, cs, f) == Lists(s) => PageOK(s, g) /\ Paid(Poor(s, g, cs), f + s.shifts)

NotesInv ==
    /\ faults \in Nat
    /\ Paid(Bare(glpi, calls), faults)
    /\ \A c \in Callers :
          /\ calls[c].tickets \in Seq(Fixtures)
          /\ TidOK(calls[c], glpi, nextId)
          /\ WalkPaid(calls[c], glpi, calls, faults)

LEMMA GrownPaid ==
    ASSUME NEW A, NEW B, NEW n, NEW m, Grown(A, B, n, m), Paid(A, n)
    PROVE  Paid(B, m)
<1>0. n \in Nat /\ m \in Nat /\ Cardinality(A) \in Nat
  BY FS_CardinalityType DEF Grown, Paid
<1>1. CASE B \subseteq A /\ n <= m
  <2>1. IsFiniteSet(B) /\ Cardinality(B) <= Cardinality(A)
    BY <1>1, FS_Subset DEF Paid
  <2>2. Cardinality(B) \in Nat
    BY <2>1, FS_CardinalityType
  <2> QED BY <1>0, <1>1, <2>1, <2>2 DEF Paid
<1>2. ASSUME NEW x, B \subseteq A \cup {x}, n + 1 <= m PROVE Paid(B, m)
  <2>1. IsFiniteSet(B) /\ Cardinality(B) <= n + 1
    BY <1>0, <1>2, OneMore DEF Paid
  <2>2. Cardinality(B) \in Nat
    BY <2>1, FS_CardinalityType
  <2> QED BY <1>0, <1>2, <2>1, <2>2 DEF Paid
<1> QED
  BY <1>1, <1>2 DEF Grown

\* A fixture has notes if another of its name has.
LEMMA NotesByName ==
    ASSUME NEW f \in Fixtures, f.name \in WithNotes PROVE f.notes = "given"
BY TitleAssumption DEF WithNotes

LEMMA FixturesFit ==
    /\ SeedTickets \in Seq(Fixtures)
    /\ \A p \in DOMAIN Packs : Packs[p] \in Seq(Fixtures)
<1>1. SeedTickets \in Seq(Fixtures)
  BY FixtureAssumption DEF Fixtures
<1>2. ASSUME NEW p \in DOMAIN Packs PROVE Packs[p] \in Seq(Fixtures)
  <2>1. Packs[p] \in Seq(Fixture)
    BY FixtureAssumption
  <2>2. \A i \in DOMAIN Packs[p] : Packs[p][i] \in Fixtures
    BY DEF Fixtures
  <2> QED BY <2>1, <2>2
<1> QED
  BY <1>1, <1>2

\* No row goes; one that stays keeps its name and stays resolved, and a new
\* one has the next id, n.
Follows(old, new, n) ==
    /\ Ids(old) \subseteq Ids(new)
    /\ \A i \in DOMAIN new :
          \/ \E j \in DOMAIN old :
                /\ old[j].id = new[i].id /\ old[j].name = new[i].name
                /\ Resolved(old[j]) => Resolved(new[i])
          \/ new[i].id = n

\* A step of one call, that purges nothing.  The others' rows only get better.
LEMMA NotesStep ==
    ASSUME WalkInv, NotesInv, NEW c \in Callers, NEW t, Put(c, t),
           faults' \in Nat, nextId' \in Nat, faults' >= faults, nextId' >= nextId,
           Grown(Bare(glpi, calls), Bare(glpi', calls'), faults, faults'),
           Follows(glpi["Ticket"], glpi'["Ticket"], nextId),
           t.tickets \in Seq(Fixtures), TidOK(t, glpi', nextId'),
           Lists(t) => /\ PageOK(t, glpi')
                       /\ t.shifts \in Nat
                       /\ \/ Hollow(t) = {} /\ Gone(t, glpi') = {}
                          \/ Paid(Poor(t, glpi', calls'), faults' + t.shifts)
    PROVE  NotesInv'
<1>1. /\ calls'[c] = t
      /\ \A d \in Callers : d # c => calls'[d] = calls[d]
  BY PutFacts DEF WalkInv
<1>2. Paid(Bare(glpi', calls'), faults')
  BY GrownPaid DEF NotesInv
<1>3. ASSUME NEW d \in Callers, d # c, Lists(calls[d])
      PROVE  WalkPaid(calls[d], glpi', calls', faults')
  <2> DEFINE s == calls[d]
  <2>1. /\ s.shifts \in Nat /\ PageOK(s, glpi) /\ Paid(Poor(s, glpi, calls), faults + s.shifts)
        /\ \A r \in s.page : r.id \in Nat /\ r.id < nextId
        /\ nextId \in Nat /\ faults \in Nat
    BY <1>3, CallFacts DEF NotesInv, WalkPaid, IsSession, WalkOK, InOrder, Met, PageIds, StoreOK
  <2> HIDE DEF s
  <2>2. PageOK(s, glpi')
    <3>1. ASSUME NEW r \in s.page, NEW i \in DOMAIN glpi'["Ticket"], glpi'["Ticket"][i].id = r.id
          PROVE  Resolved(glpi'["Ticket"][i]) /\ glpi'["Ticket"][i].name = r.name
      <4>1. glpi'["Ticket"][i].id # nextId
        BY <2>1, <3>1
      <4>2. PICK j \in DOMAIN glpi["Ticket"] :
                /\ glpi["Ticket"][j].id = glpi'["Ticket"][i].id
                /\ glpi["Ticket"][j].name = glpi'["Ticket"][i].name
                /\ Resolved(glpi["Ticket"][j]) => Resolved(glpi'["Ticket"][i])
        BY <4>1 DEF Follows
      <4>3. Resolved(glpi["Ticket"][j]) /\ glpi["Ticket"][j].name = r.name
        BY <2>1, <3>1, <4>2 DEF PageOK
      <4> QED BY <4>2, <4>3
    <3> QED BY <2>1, <3>1 DEF PageOK
  <2>3. Gone(s, glpi') \subseteq Gone(s, glpi)
    BY DEF Gone, Follows
  <2>4. Grown(Poor(s, glpi, calls), Poor(s, glpi', calls'), faults + s.shifts, faults' + s.shifts)
    <3>1. CASE Bare(glpi', calls') \subseteq Bare(glpi, calls) /\ faults <= faults'
      BY <2>1, <2>3, <3>1 DEF Poor, Grown
    <3>2. ASSUME NEW x, Bare(glpi', calls') \subseteq Bare(glpi, calls) \cup {x},
                 faults + 1 <= faults'
          PROVE  Grown(Poor(s, glpi, calls), Poor(s, glpi', calls'),
                       faults + s.shifts, faults' + s.shifts)
      <4>1. Poor(s, glpi', calls') \subseteq Poor(s, glpi, calls) \cup {x}
        BY <2>3, <3>2 DEF Poor
      <4>2. /\ faults + s.shifts + 1 <= faults' + s.shifts
            /\ faults + s.shifts \in Nat /\ faults' + s.shifts \in Nat
        BY <2>1, <3>2
      <4> QED BY <4>1, <4>2 DEF Grown
    <3> QED BY <3>1, <3>2 DEF Grown
  <2>5. Paid(Poor(s, glpi', calls'), faults' + s.shifts)
    BY <2>1, <2>4, GrownPaid
  <2> QED BY <2>2, <2>5 DEF WalkPaid, s
<1>4. WalkPaid(t, glpi', calls', faults')
  <2>1. CASE Hollow(t) = {} /\ Gone(t, glpi') = {} /\ Lists(t)
    <3>1. Poor(t, glpi', calls') = Bare(glpi', calls')
      BY <2>1 DEF Poor
    <3>2. Cardinality(Bare(glpi', calls')) \in Nat
      BY <1>2, FS_CardinalityType DEF Paid
    <3> QED BY <1>2, <2>1, <3>1, <3>2 DEF WalkPaid, Paid
  <2> QED BY <2>1 DEF WalkPaid
<1>5. ASSUME NEW d \in Callers, d # c PROVE TidOK(calls[d], glpi', nextId')
  <2>1. nextId \in Nat /\ calls[d].tid \in Nat /\ TidOK(calls[d], glpi, nextId)
    BY CallFacts DEF StoreOK, IsSession, NotesInv
  <2>2. ASSUME calls[d].pc \in {"solution", "close"},
               NEW i \in DOMAIN glpi'["Ticket"], glpi'["Ticket"][i].id = calls[d].tid
        PROVE  glpi'["Ticket"][i].name = Head(calls[d].tickets).name
    <3>1. glpi'["Ticket"][i].id # nextId
      BY <2>1, <2>2 DEF TidOK
    <3>2. PICK j \in DOMAIN glpi["Ticket"] :
              /\ glpi["Ticket"][j].id = glpi'["Ticket"][i].id
              /\ glpi["Ticket"][j].name = glpi'["Ticket"][i].name
      BY <3>1 DEF Follows
    <3> QED BY <2>1, <2>2, <3>2 DEF TidOK
  <2>3. calls[d].pc \in {"solution", "close"} => calls[d].tid < nextId'
    BY <2>1 DEF TidOK
  <2> QED BY <2>2, <2>3 DEF TidOK
<1>6. \A d \in Callers : d # c => WalkPaid(calls[d], glpi', calls', faults')
  BY <1>3 DEF WalkPaid
<1> QED
  BY <1>1, <1>2, <1>4, <1>5, <1>6 DEF NotesInv

LEMMA ChargeFacts ==
    ASSUME faults \in Nat, NEW o, Charge(o)
    PROVE  /\ faults' \in Nat /\ faults' >= faults
           /\ o # "ok" => faults' >= faults + 1
BY DEF Charge

\* No ticket of GLPI changes, and no other is about to be closed.
LEMMA NotesPut ==
    ASSUME WalkInv, NotesInv, NEW c \in Callers, NEW t, Put(c, t),
           glpi'["Ticket"] = glpi["Ticket"], nextId' \in Nat, nextId' >= nextId,
           faults' \in Nat, faults' >= faults,
           t.pc \notin {"solution", "close"}, t.tickets \in Seq(Fixtures),
           Lists(t) => /\ PageOK(t, glpi)
                       /\ t.shifts \in Nat
                       /\ \/ Hollow(t) = {} /\ Gone(t, glpi) = {}
                          \/ /\ Lists(calls[c])
                             /\ Grown(Poor(calls[c], glpi, calls), Poor(t, glpi, calls),
                                      faults + calls[c].shifts, faults' + t.shifts)
    PROVE  NotesInv'
<1>1. /\ calls'[c] = t
      /\ \A d \in Callers : d # c => calls'[d] = calls[d]
  BY PutFacts DEF WalkInv
<1>2. Bare(glpi', calls') \subseteq Bare(glpi, calls)
  <2>1. \A id : Closing(calls', id) => Closing(calls, id)
    BY <1>1 DEF Closing
  <2>2. \A row : IsBare(row, calls') => IsBare(row, calls)
    BY <2>1 DEF IsBare
  <2> QED BY <2>2 DEF Bare
<1>3. Grown(Bare(glpi, calls), Bare(glpi', calls'), faults, faults')
  BY <1>2 DEF Grown, NotesInv
<1>4. TidOK(t, glpi', nextId')
  BY DEF TidOK
<1>5. ASSUME Lists(t)
      PROVE  /\ PageOK(t, glpi') /\ t.shifts \in Nat
             /\ \/ Hollow(t) = {} /\ Gone(t, glpi') = {}
                \/ Paid(Poor(t, glpi', calls'), faults' + t.shifts)
  <2>1. PageOK(t, glpi') /\ t.shifts \in Nat /\ Gone(t, glpi') = Gone(t, glpi)
    BY <1>5 DEF PageOK, Gone
  <2>2. CASE /\ Lists(calls[c])
             /\ Grown(Poor(calls[c], glpi, calls), Poor(t, glpi, calls),
                      faults + calls[c].shifts, faults' + t.shifts)
    <3>1. Paid(Poor(calls[c], glpi, calls), faults + calls[c].shifts)
      BY <2>2 DEF NotesInv, WalkPaid
    <3>2. Paid(Poor(t, glpi, calls), faults' + t.shifts)
      BY <2>2, <3>1, GrownPaid
    <3>3. Poor(t, glpi', calls') \subseteq Poor(t, glpi, calls)
      BY <1>2, <2>1 DEF Poor
    <3>4. Grown(Poor(t, glpi, calls), Poor(t, glpi', calls'), faults' + t.shifts, faults' + t.shifts)
      BY <2>1, <3>3 DEF Grown
    <3>5. Paid(Poor(t, glpi', calls'), faults' + t.shifts)
      BY <3>2, <3>4, GrownPaid
    <3> QED BY <2>1, <3>5
  <2> QED BY <1>5, <2>1, <2>2
<1>6. Follows(glpi["Ticket"], glpi'["Ticket"], nextId)
  BY DEF Follows
<1> QED
  BY <1>3, <1>4, <1>5, <1>6, NotesStep

\* A call that has handed nothing over and holds no page.
LEMMA FreshWalk ==
    ASSUME NEW t, t.out = <<>>, t.page = {}, t.shifts \in Nat, NEW g
    PROVE  /\ PageOK(t, g) /\ t.shifts \in Nat /\ Hollow(t) = {} /\ Gone(t, g) = {}
BY DEF PageOK, Hollow, Gone

LEMMA FreshCalls ==
    /\ \A job, e : /\ Walk(job, e).out = <<>> /\ Walk(job, e).page = {}
                   /\ Walk(job, e).shifts = 0 /\ Walk(job, e).pc = "page"
                   /\ Walk(job, e).tickets = <<>>
    /\ \A job, pc : /\ Script(job, pc).pc = pc /\ Script(job, pc).tickets = SeedTickets
    /\ Idle.pc = "idle" /\ Idle.tickets = <<>>
BY DEF Walk, Script, Idle

\* A step of a call that lists nothing, which leaves the tickets alone.
LEMMA WriterPays ==
    ASSUME WalkInv, NotesInv, NEW c \in Callers, NEW t, Put(c, t),
           glpi'["Ticket"] = glpi["Ticket"], nextId' \in {nextId, nextId + 1},
           faults' \in Nat, faults' >= faults,
           \/ t.pc \notin Walks \cup {"solution", "close"} /\ t.tickets \in Seq(Fixtures)
           \/ t = Idle \/ t = Walk("report", "Ticket")
    PROVE  NotesInv'
<1>1. nextId' \in Nat /\ nextId' >= nextId /\ <<>> \in Seq(Fixtures)
  BY DEF WalkInv, StoreOK
<1>2. CASE t.pc \notin Walks \cup {"solution", "close"} /\ t.tickets \in Seq(Fixtures)
  BY <1>1, <1>2, NotesPut DEF Lists
<1>3. CASE t = Idle
  <2>1. t.pc = "idle" /\ t.tickets = <<>>
    BY <1>3, FreshCalls
  <2> QED BY <1>1, <2>1, NotesPut DEF Lists, Walks
<1>4. CASE t = Walk("report", "Ticket")
  <2>1. /\ t.pc = "page" /\ t.tickets = <<>> /\ t.out = <<>> /\ t.page = {} /\ t.shifts \in Nat
    BY <1>4, FreshCalls
  <2>2. PageOK(t, glpi) /\ Hollow(t) = {} /\ Gone(t, glpi) = {}
    BY <2>1, FreshWalk
  <2> QED BY <1>1, <2>1, <2>2, NotesPut
<1> QED
  BY <1>2, <1>3, <1>4

LEMMA StartsPay ==
    ASSUME WalkInv, NotesInv, \/ Start \/ PollOrImport \/ RunScript
                              \/ \E i \in DOMAIN glpi["Ticket"] : GetOneTicket(i)
                              \/ \E c \in Callers : SeedDemo(c)
    PROVE  NotesInv'
<1>0. nextId \in Nat /\ faults \in Nat /\ <<>> \in Seq(Fixtures)
  BY DEF WalkInv, StoreOK, NotesInv
<1>1. UNCHANGED <<glpi, nextId, faults>>
  BY DEF Start, PollOrImport, StartWalk, RunScript, GetOneTicket, GetTicket, SeedDemo, seedVars
<1>2. ASSUME NEW c \in Callers, NEW t, Put(c, t), t.pc \notin {"solution", "close"},
             t.tickets \in Seq(Fixtures),
             Lists(t) => t.out = <<>> /\ t.page = {} /\ t.shifts \in Nat
      PROVE  NotesInv'
  BY <1>0, <1>1, <1>2, FreshWalk, NotesPut
<1>3. ASSUME NEW c \in Callers, NEW job, NEW e, Put(c, Walk(job, e)) PROVE NotesInv'
  <2> DEFINE t == Walk(job, e)
  <2>1. /\ t.pc = "page" /\ t.tickets = <<>> /\ t.out = <<>> /\ t.page = {} /\ t.shifts \in Nat
    BY FreshCalls
  <2>2. Put(c, t)
    BY <1>3
  <2> HIDE DEF t
  <2> QED BY <1>0, <1>2, <2>1, <2>2
<1>4. CASE Start
  BY <1>3, <1>4, CallerAssumption DEF Start
<1>5. ASSUME NEW job, NEW e, StartWalk(job, e) PROVE NotesInv'
  BY <1>3, <1>5, CallerAssumption DEF StartWalk
<1>6. CASE RunScript
  <2> DEFINE t == Script("script", "purge")
  <2>1. Put(Cli, t) /\ t.pc = "purge" /\ t.tickets \in Seq(Fixtures)
    BY <1>6, FreshCalls, FixturesFit DEF RunScript
  <2> HIDE DEF t
  <2> QED BY <1>2, <2>1, CallerAssumption DEF Lists, Walks
<1>7. ASSUME NEW i \in DOMAIN glpi["Ticket"], GetOneTicket(i) PROVE NotesInv'
  <2> DEFINE t == [Idle EXCEPT !.pc = "rows", !.job = "get", !.short = TRUE,
                               !.page = {glpi["Ticket"][i]}]
  <2>1. Put(Poll, t) /\ t.pc = "rows" /\ t.job = "get" /\ t.tickets = <<>>
    BY <1>7 DEF GetOneTicket, GetTicket, Idle
  <2> HIDE DEF t
  <2> QED BY <1>0, <1>2, <2>1, CallerAssumption DEF Lists
<1>8. ASSUME NEW c \in Callers, SeedDemo(c) PROVE NotesInv'
  <2> DEFINE t == [Idle EXCEPT !.pc = "category", !.job = "demo", !.tickets = next_pack]
  <2>1. next_pack \in Seq(Fixtures)
    <3>1. Len(Packs) \in Nat \ {0} /\ call_count \in Nat /\ DOMAIN Packs = 1 .. Len(Packs)
      BY FixtureAssumption DEF WalkInv
    <3>2. (call_count % Len(Packs)) + 1 \in DOMAIN Packs
      BY <3>1
    <3> QED BY <3>2, FixturesFit DEF next_pack
  <2>2. Put(c, t) /\ t.pc = "category" /\ t.tickets = next_pack
    BY <1>8 DEF SeedDemo, Idle
  <2> HIDE DEF t
  <2> QED BY <1>2, <2>1, <2>2 DEF Lists, Walks
<1> QED
  BY <1>4, <1>5, <1>6, <1>7, <1>8 DEF PollOrImport

LEMMA PageEndSame ==
    ASSUME NEW u, IsSession(u), u.pc = "rows"
    PROVE  LET t == PageEnd(u) IN
           /\ t.out = u.out /\ t.page = u.page /\ t.shifts = u.shifts /\ t.job = u.job
           /\ t.endpoint = u.endpoint /\ t.tickets = u.tickets /\ t.pc \in Walks
           /\ t.pc = "listed" => t.page = {}
<1>1. CASE u.page # {}
  BY <1>1 DEF PageEnd, Walks
<1>2. CASE u.page = {}
  BY <1>2 DEF PageEnd, Listed, Walks, IsSession, Idle
<1> QED
  BY <1>1, <1>2

\* A ticket that GLPI shows no notes of was purged, or has none to show.
LEMMA FetchedNone ==
    ASSUME WalkInv, NEW s, PageOK(s, glpi), NEW row \in s.page, s.page \in SUBSET Row,
           row.name \in WithNotes, SolutionOf(row.id) = "none"
    PROVE  row.id \in Gone(s, glpi) \cup Bare(glpi, calls)
<1>1. CASE row.id \notin Ids(glpi["Ticket"])
  BY <1>1 DEF Gone
<1>2. CASE row.id \in Ids(glpi["Ticket"])
  <2>1. PICK i \in DOMAIN glpi["Ticket"] : glpi["Ticket"][i].id = row.id
    BY <1>2 DEF Ids
  <2>2. Resolved(glpi["Ticket"][i]) /\ glpi["Ticket"][i].name = row.name
    BY <2>1 DEF PageOK
  <2>3. glpi["Ticket"] \in Seq(Row) /\ glpi["Ticket"][i] \in Row
    BY DEF WalkInv, StoreOK, Endpoint
  <2>4. glpi["Ticket"][i].solution = "none"
    BY <2>1, <2>3 DEF SolutionOf, Row, Text
  <2>5. row.id \in Nat
    BY DEF Row
  <2> QED BY <2>1, <2>2, <2>4, <2>5 DEF Bare, IsBare
<1> QED
  BY <1>1, <1>2

LEMMA WalksPay ==
    ASSUME WalkInv, NotesInv, NEW c \in Callers, ContinueWalk(c)
    PROVE  NotesInv'
<1> DEFINE s == calls[c]
<1>0. /\ IsSession(s) /\ Control(c, s) /\ WalkOK(s, glpi, nextId) /\ StoreOK(glpi, nextId)
      /\ UNCHANGED <<glpi, nextId>> /\ nextId \in Nat /\ faults \in Nat
      /\ s.tickets \in Seq(Fixtures) /\ s.shifts \in Nat
      /\ Lists(s) => PageOK(s, glpi) /\ Paid(Poor(s, glpi, calls), faults + s.shifts)
  BY CallFacts DEF ContinueWalk, WalkStep, GetPage, GetPageFails, HydrateTicket, seedVars,
                   NotesInv, WalkPaid, StoreOK, IsSession
\* The walk goes on with u, which must have paid for what it met.
<1>1. ASSUME NEW u, Put(c, PageEnd(u)), IsSession(u), u.pc = "rows", u.shifts = s.shifts,
             u.job = s.job, u.endpoint = s.endpoint, u.tickets = s.tickets, s.pc \in Walks,
             faults' \in Nat, faults' >= faults,
             Lists(s) => /\ \A r \in u.page : Resolved(r)
                         /\ \A r \in u.page, i \in DOMAIN glpi["Ticket"] :
                              glpi["Ticket"][i].id = r.id =>
                                 /\ Resolved(glpi["Ticket"][i])
                                 /\ glpi["Ticket"][i].name = r.name
                         /\ Grown(Poor(s, glpi, calls), Poor(u, glpi, calls),
                                  faults + s.shifts, faults' + u.shifts)
      PROVE  NotesInv'
  <2> DEFINE t == PageEnd(u)
  <2>1. /\ t.out = u.out /\ t.page = u.page /\ t.shifts = u.shifts /\ t.job = u.job
        /\ t.endpoint = u.endpoint /\ t.tickets = u.tickets /\ t.pc \in Walks
        /\ t.pc = "listed" => t.page = {}
    BY <1>1, PageEndSame
  <2>2. Put(c, t)
    BY <1>1
  <2> HIDE DEF t
  <2>3. Lists(t) => Lists(s)
    BY <1>1, <2>1 DEF Lists
  <2>4. Poor(t, glpi, calls) = Poor(u, glpi, calls)
    BY <2>1 DEF Poor, Hollow, Gone
  <2>5. Lists(s) => PageOK(t, glpi)
    BY <1>1, <2>1 DEF PageOK
  <2>6. t.pc \notin {"solution", "close"} /\ t.tickets \in Seq(Fixtures)
        /\ t.shifts \in Nat /\ t.shifts = u.shifts
    BY <1>0, <1>1, <2>1 DEF Walks
  <2>7. Lists(t) => /\ PageOK(t, glpi) /\ t.shifts \in Nat /\ Lists(s)
                    /\ Grown(Poor(s, glpi, calls), Poor(t, glpi, calls),
                             faults + s.shifts, faults' + t.shifts)
    BY <1>1, <2>3, <2>4, <2>5, <2>6
  <2>8. glpi'["Ticket"] = glpi["Ticket"] /\ nextId' \in Nat /\ nextId' >= nextId
    BY <1>0
  <2> HIDE DEF s
  <2> QED BY <1>1, <2>2, <2>6, <2>7, <2>8, NotesPut DEF s
<1>2. CASE GetPage(c)
  <2> DEFINE rows == PageAt(glpi[s.endpoint], s.offset)
             u == Read(s, rows)
  <2>1. s.pc = "page" /\ Put(c, PageEnd(u)) /\ faults' = faults
    BY <1>2 DEF GetPage
  <2>2. IsSession(u) /\ u.pc = "rows"
    BY <1>0, <2>1, ReadOK DEF WalkOK
  <2>3. /\ u.job = s.job /\ u.shifts = s.shifts /\ u.endpoint = s.endpoint
        /\ u.tickets = s.tickets
        /\ s.endpoint = "Ticket" =>
              u.out = s.out /\ u.page = {row \in Members(rows) : Resolved(row)}
    BY <1>0 DEF Read, IsSession, Idle
  <2>4. ASSUME Lists(s)
        PROVE  /\ \A r \in u.page : Resolved(r)
               /\ \A r \in u.page, i \in DOMAIN glpi["Ticket"] :
                    glpi["Ticket"][i].id = r.id =>
                       Resolved(glpi["Ticket"][i]) /\ glpi["Ticket"][i].name = r.name
               /\ Grown(Poor(s, glpi, calls), Poor(u, glpi, calls),
                        faults + s.shifts, faults' + u.shifts)
    <3> DEFINE all == glpi["Ticket"]
    <3>1. s.endpoint = "Ticket" /\ s.offset \in Nat /\ all \in Seq(Row) /\ rows = PageAt(all, s.offset)
      BY <1>0, <2>4 DEF Lists, IsSession, StoreOK, Endpoint
    <3>2. /\ DOMAIN PageAt(all, s.offset) = 1 .. Len(PageAt(all, s.offset))
          /\ \A i \in 1 .. Len(PageAt(all, s.offset)) :
                /\ s.offset + i \in DOMAIN all
                /\ PageAt(all, s.offset)[i] = all[s.offset + i]
      <4> HIDE DEF all
      <4> QED BY <3>1, PageFacts
    <3>3. \A r \in Members(rows) : \E k \in DOMAIN all : r = all[k]
      BY <3>1, <3>2 DEF Members
    <3>4. \A i, k \in DOMAIN all : all[i].id = all[k].id => i = k
      <4>1. DOMAIN all = 1 .. Len(all) /\ Len(all) \in Nat /\ \A i \in DOMAIN all : all[i].id \in Nat
        <5> HIDE DEF all
        <5> QED BY <3>1, RowFacts
      <4>2. \A i, k \in DOMAIN all : i < k => all[i].id < all[k].id
        BY <1>0 DEF StoreOK, Endpoint
      <4> HIDE DEF all
      <4> QED BY <4>1, <4>2
    <3>5. Gone(u, glpi) = {} /\ Hollow(u) = Hollow(s)
      <4>1. \A r \in u.page : r.id \in Ids(all)
        BY <2>3, <3>1, <3>3 DEF Ids
      <4> QED BY <2>3, <3>1, <4>1 DEF Gone, Hollow
    <3>6. Grown(Poor(s, glpi, calls), Poor(u, glpi, calls), faults + s.shifts, faults' + u.shifts)
      BY <1>0, <2>1, <2>3, <3>5 DEF Poor, Grown
    <3>7. ASSUME NEW r \in u.page
          PROVE  /\ Resolved(r)
                 /\ \A i \in DOMAIN all : all[i].id = r.id =>
                       Resolved(all[i]) /\ all[i].name = r.name
      <4>1. r \in Members(rows) /\ Resolved(r)
        BY <2>3, <3>1, <3>7
      <4>2. PICK k \in DOMAIN all : r = all[k]
        BY <3>3, <4>1
      <4> QED BY <3>4, <4>1, <4>2
    <3> QED BY <3>6, <3>7
  <2> HIDE DEF u, rows
  <2>5. faults' \in Nat /\ faults' >= faults /\ s.pc \in Walks
    BY <1>0, <2>1 DEF Walks
  <2> HIDE DEF s
  <2> QED BY <1>1, <2>1, <2>2, <2>3, <2>4, <2>5 DEF s
<1>3. CASE GetPageFails(c)
  <2>1. Put(c, Idle) /\ faults' \in Nat /\ faults' >= faults
    BY <1>0, <1>3, ChargeFacts DEF GetPageFails
  <2> QED BY <1>0, <2>1, WriterPays
<1>4. CASE HydrateTicket(c)
  <2> DEFINE row == First(s.page)
             fetched(o) == IF o = "ok" THEN SolutionOf(row.id) ELSE "none"
             u(o) == [s EXCEPT !.page = @ \ {row}, !.out = Append(@, HandedOver(row, fetched(o)))]
  <2>1. PICK o \in Outcome : s.pc = "rows" /\ Put(c, PageEnd(u(o))) /\ Charge(o)
    BY <1>4 DEF HydrateTicket
  <2>2. fetched(o) \in Text
    BY DEF SolutionOf, Text
  <2>3. s.page # {} /\ s.page \in SUBSET Row /\ s.out \in Seq(Handed)
    BY <1>0, <2>1 DEF Control, IsSession
  <2>4. row \in s.page
    BY <2>3, FirstOfPage
  <2>5. IsSession(u(o)) /\ u(o).pc = "rows"
    BY <1>0, <2>1, <2>2, <2>3, HydrateOK DEF WalkOK
  <2>6. /\ u(o).job = s.job /\ u(o).shifts = s.shifts /\ u(o).endpoint = s.endpoint
        /\ u(o).tickets = s.tickets /\ u(o).page = s.page \ {row}
        /\ u(o).out = Append(s.out, HandedOver(row, fetched(o)))
    BY <1>0 DEF IsSession, Idle
  <2>7. /\ faults' \in Nat /\ faults' >= faults /\ s.pc \in Walks
        /\ o # "ok" => faults' >= faults + 1
    BY <1>0, <2>1, ChargeFacts DEF Walks
  <2>8. Hollow(u(o)) \subseteq Hollow(s) \cup
           (IF row.name \in WithNotes /\ fetched(o) = "none" THEN {row.id} ELSE {})
    <3> HIDE DEF u, fetched, row
    <3>1. /\ \A i \in DOMAIN u(o).out :
                \/ i \in DOMAIN s.out /\ u(o).out[i] = s.out[i]
                \/ u(o).out[i] = HandedOver(row, fetched(o))
      BY <2>3, <2>6
    <3>2. /\ HandedOver(row, fetched(o)).id = row.id
          /\ HandedOver(row, fetched(o)).name = row.name
          /\ HandedOver(row, fetched(o)).solution = fetched(o)
      BY DEF HandedOver
    <3>3. ASSUME NEW i \in DOMAIN u(o).out, u(o).out[i].id \in Nat,
                 u(o).out[i].name \in WithNotes, u(o).out[i].solution = "none"
          PROVE  \/ u(o).out[i].id \in Hollow(s)
                 \/ u(o).out[i].id = row.id /\ row.name \in WithNotes /\ fetched(o) = "none"
      BY <3>1, <3>2, <3>3 DEF Hollow
    <3> QED BY <3>3 DEF Hollow
  <2>9. Gone(u(o), glpi) \subseteq Gone(s, glpi)
    BY <2>6 DEF Gone
  <2>10. ASSUME Lists(s)
         PROVE  /\ \A r \in u(o).page : Resolved(r)
                /\ \A r \in u(o).page, i \in DOMAIN glpi["Ticket"] :
                     glpi["Ticket"][i].id = r.id =>
                        Resolved(glpi["Ticket"][i]) /\ glpi["Ticket"][i].name = r.name
                /\ Grown(Poor(s, glpi, calls), Poor(u(o), glpi, calls),
                         faults + s.shifts, faults' + u(o).shifts)
    <3>1. PageOK(s, glpi)
      BY <1>0, <2>10
    <3>2. CASE o = "ok"
      <4>1. row.name \in WithNotes /\ fetched(o) = "none" =>
               row.id \in Gone(s, glpi) \cup Bare(glpi, calls)
        BY <2>3, <2>4, <3>1, <3>2, FetchedNone
      <4> HIDE DEF u, fetched, row
      <4>2. Poor(u(o), glpi, calls) \subseteq Poor(s, glpi, calls)
        BY <2>8, <2>9, <4>1 DEF Poor
      <4>3. Grown(Poor(s, glpi, calls), Poor(u(o), glpi, calls),
                  faults + s.shifts, faults' + u(o).shifts)
        BY <1>0, <2>6, <2>7, <4>2 DEF Grown
      <4> QED BY <2>6, <3>1, <4>3 DEF PageOK
    <3>3. CASE o # "ok"
      <4> HIDE DEF u, fetched, row
      <4>1. Poor(u(o), glpi, calls) \subseteq Poor(s, glpi, calls) \cup {row.id}
        BY <2>8, <2>9 DEF Poor
      <4>2. /\ faults + s.shifts \in Nat /\ faults' + u(o).shifts \in Nat
            /\ (faults + s.shifts) + 1 <= faults' + u(o).shifts
        BY <1>0, <2>6, <2>7, <3>3
      <4>3. Grown(Poor(s, glpi, calls), Poor(u(o), glpi, calls),
                  faults + s.shifts, faults' + u(o).shifts)
        BY <4>1, <4>2 DEF Grown
      <4> QED BY <2>6, <3>1, <4>3 DEF PageOK
    <3> QED BY <3>2, <3>3
  <2> HIDE DEF u, fetched, row, s
  <2> QED BY <1>1, <2>1, <2>5, <2>6, <2>7, <2>10 DEF s
<1> QED
  BY <1>2, <1>3, <1>4 DEF ContinueWalk, WalkStep

\* The steps of a writing call before its tickets.
LEMMA WritesPay ==
    ASSUME WalkInv, NotesInv, NEW c \in Callers,
           \/ Deliver(c) \/ PurgeList(c) \/ ListCategories(c) \/ EnsureCategory(c)
           \/ \E k \in Categories : CreateCategory(c, k)
           \/ CreateArticle(c)
    PROVE  NotesInv'
<1> DEFINE s == calls[c]
<1>0. /\ IsSession(s) /\ faults \in Nat /\ nextId \in Nat /\ s.tickets \in Seq(Fixtures)
      /\ glpi \in [Endpoint -> Seq(Row)]
  BY CallFacts DEF NotesInv, StoreOK
<1>1. ASSUME NEW t, Put(c, t), t.pc \notin Walks \cup {"solution", "close"},
             t.tickets = s.tickets,
             glpi'["Ticket"] = glpi["Ticket"], nextId' \in {nextId, nextId + 1},
             faults' \in Nat, faults' >= faults
      PROVE  NotesInv'
  BY <1>0, <1>1, WriterPays
<1>2. CASE Deliver(c)
  <2>1. /\ Put(c, IF s.job = "inventory" THEN AfterInventory(s) ELSE Idle)
        /\ UNCHANGED <<glpi, nextId, faults>>
    BY <1>2 DEF Deliver, seedVars
  <2>2. ASSUME Put(c, Script("seed", "categories")) PROVE NotesInv'
    <3> DEFINE t == Script("seed", "categories")
    <3>1. t.pc = "categories" /\ t.tickets \in Seq(Fixtures) /\ Put(c, t)
      BY <2>2, FreshCalls, FixturesFit
    <3> HIDE DEF t
    <3> QED BY <1>0, <2>1, <3>1, WriterPays DEF Walks
  <2>3. ASSUME Put(c, Idle) PROVE NotesInv'
    BY <1>0, <2>1, <2>3, WriterPays
  <2> QED BY <2>1, <2>2, <2>3 DEF AfterInventory
<1>3. CASE PurgeList(c)
  <2> DEFINE rows == SubSeq(glpi[s.endpoint], 1, Lesser(PageSize, Len(glpi[s.endpoint])))
             paged == [s EXCEPT !.pc = "delete", !.page = Members(rows)]
  <2>1. PICK o \in Outcome :
            /\ Charge(o)
            /\ Put(c, IF ~Answered(o) THEN Idle
                      ELSE IF o = "refused" \/ rows = <<>> THEN PurgeDone(s) ELSE paged)
    BY <1>3 DEF PurgeList
  <2>2. UNCHANGED <<glpi, nextId>> /\ faults' \in Nat /\ faults' >= faults
    BY <1>0, <1>3, <2>1, ChargeFacts DEF PurgeList, seedVars
  <2>3. /\ PurgeDone(s).pc \in {"purge", "categories"} /\ PurgeDone(s).tickets = s.tickets
        /\ paged.pc = "delete" /\ paged.tickets = s.tickets
    BY <1>0 DEF PurgeDone, IsSession, Idle
  <2> HIDE DEF rows, paged
  <2>4. Put(c, Idle) \/ Put(c, PurgeDone(s)) \/ Put(c, paged)
    BY <2>1
  <2> HIDE DEF s
  <2> QED BY <1>0, <1>1, <2>2, <2>3, <2>4, WriterPays DEF Walks
<1>4. CASE ListCategories(c)
  <2> DEFINE missing == {k \in s.missing : ~Exists(k)}
             more == [s EXCEPT !.missing = missing,
                               !.pc = IF missing = {} THEN "article" ELSE "newcategory"]
  <2>1. (Put(c, more) \/ Put(c, Idle)) /\ UNCHANGED <<glpi, nextId>>
        /\ faults' \in Nat /\ faults' >= faults
    BY <1>0, <1>4, ChargeFacts DEF ListCategories, seedVars
  <2>2. more.pc \in {"article", "newcategory"} /\ more.tickets = s.tickets
    BY <1>0 DEF IsSession, Idle
  <2> HIDE DEF more, s
  <2> QED BY <1>0, <1>1, <2>1, <2>2, WriterPays DEF Walks
<1>5. CASE EnsureCategory(c)
  <2> DEFINE k == Head(s.tickets).category
             more == [s EXCEPT !.pc = "newcategory", !.missing = {k}]
             on == [s EXCEPT !.pc = "ticket"]
  <2>1. (Put(c, more) \/ Put(c, on)) /\ UNCHANGED <<glpi, nextId>>
        /\ faults' \in Nat /\ faults' >= faults
    BY <1>0, <1>5, ChargeFacts DEF EnsureCategory
  <2>2. /\ more.pc = "newcategory" /\ more.tickets = s.tickets
        /\ on.pc = "ticket" /\ on.tickets = s.tickets
    BY <1>0 DEF IsSession, Idle
  <2> HIDE DEF more, on, s
  <2> QED BY <1>0, <1>1, <2>1, <2>2 DEF Walks
<1>6. ASSUME NEW k \in Categories, CreateCategory(c, k) PROVE NotesInv'
  <2> DEFINE rest == s.missing \ {k}
             dropped == [s EXCEPT !.pc = "ticket", !.missing = {}]
             on == [s EXCEPT !.missing = rest,
                             !.pc = IF rest = {} THEN "article" ELSE "newcategory"]
  <2>1. PICK o \in Outcome :
            /\ Charge(o)
            /\ Put(c, CASE s.job = "demo" -> dropped
                        [] s.job # "demo" /\ Answered(o) -> on
                        [] OTHER -> Idle)
    BY <1>6 DEF CreateCategory
  <2>2. UNCHANGED <<glpi, nextId>> /\ faults' \in Nat /\ faults' >= faults
    BY <1>0, <1>6, <2>1, ChargeFacts DEF CreateCategory
  <2>3. /\ on.pc \in {"article", "newcategory"} /\ on.tickets = s.tickets
        /\ dropped.pc = "ticket" /\ dropped.tickets = s.tickets
    BY <1>0 DEF IsSession, Idle
  <2> HIDE DEF dropped, on, s
  <2>4. Put(c, dropped) \/ Put(c, on) \/ Put(c, Idle)
    BY <2>1
  <2> QED BY <1>0, <1>1, <2>2, <2>3, <2>4, WriterPays DEF Walks
<1>7. CASE CreateArticle(c)
  <2> DEFINE rest == [s EXCEPT !.articles = Tail(@),
                               !.pc = IF Len(s.articles) = 1 THEN "ticket" ELSE "article"]
  <2>1. PICK o \in Outcome :
            /\ Charge(o)
            /\ glpi' = IF Applied(o)
                       THEN [glpi EXCEPT !["KnowbaseItem"] =
                                Append(@, NewRow(Head(s.articles), 0))]
                       ELSE glpi
            /\ nextId' = IF Applied(o) THEN nextId + 1 ELSE nextId
            /\ Put(c, IF o = "ok" THEN rest ELSE Idle)
    BY <1>7 DEF CreateArticle
  <2>2. glpi'["Ticket"] = glpi["Ticket"] /\ nextId' \in {nextId, nextId + 1}
    BY <1>0, <2>1 DEF Endpoint
  <2>3. faults' \in Nat /\ faults' >= faults
    BY <1>0, <2>1, ChargeFacts
  <2>4. rest.pc \in {"ticket", "article"} /\ rest.tickets = s.tickets
    BY <1>0 DEF IsSession, Idle
  <2>5. Put(c, rest) \/ Put(c, Idle)
    BY <2>1
  <2> HIDE DEF rest, s
  <2> QED BY <1>0, <1>1, <2>2, <2>3, <2>4, <2>5, WriterPays DEF Walks
<1> QED
  BY <1>2, <1>3, <1>4, <1>5, <1>6, <1>7

\* What a ticket's call turns to when the ticket in hand is done with.
LEMMA TicketDone ==
    ASSUME WalkInv, NotesInv, NEW c \in Callers, calls[c].pc \in Tickets,
           NEW t \in {Idle, NextTicket(calls[c]), Raised(calls[c])}
    PROVE  \/ t.pc \notin Walks \cup {"solution", "close"} /\ t.tickets \in Seq(Fixtures)
           \/ t = Walk("report", "Ticket")
<1> DEFINE s == calls[c]
           next == [s EXCEPT !.tickets = Tail(@), !.tid = 0,
                             !.pc = IF s.job = "demo" THEN "category" ELSE "ticket"]
<1>0. IsSession(s) /\ Control(c, s) /\ s.tickets \in Seq(Fixtures) /\ s.tickets # <<>>
  BY CallFacts DEF NotesInv, Control, Tickets, Walks
<1>1. next.pc \in {"category", "ticket"} /\ next.tickets = Tail(s.tickets)
  BY <1>0 DEF IsSession, Idle
<1>2. Tail(s.tickets) \in Seq(Fixtures) /\ <<>> \in Seq(Fixtures)
  BY <1>0, TailFacts
<1>3. \/ NextTicket(s) = next \/ NextTicket(s) = Walk("report", "Ticket") \/ NextTicket(s) = Idle
  BY DEF NextTicket
<1> HIDE DEF next
<1>4. t \in {Idle, next, Walk("report", "Ticket")}
  BY <1>3 DEF Raised
<1> QED
  BY <1>1, <1>2, <1>4, FreshCalls DEF Walks

\* A step on a ticket: GLPI's rows are as NotesStep wants them.
LEMMA TicketPays ==
    ASSUME WalkInv, NotesInv, NEW c \in Callers, NEW t, Put(c, t),
           calls[c].pc \in Tickets,
           \/ t \in {Idle, NextTicket(calls[c]), Raised(calls[c])}
           \/ t.pc \in {"solution", "close"} /\ t.tickets = calls[c].tickets,
           TidOK(t, glpi', nextId'),
           faults' \in Nat, nextId' \in Nat, faults' >= faults, nextId' >= nextId,
           Grown(Bare(glpi, calls), Bare(glpi', calls'), faults, faults'),
           Follows(glpi["Ticket"], glpi'["Ticket"], nextId)
    PROVE  NotesInv'
<1>1. CASE t.pc \notin Walks /\ t.tickets \in Seq(Fixtures)
  BY <1>1, NotesStep DEF Lists
<1>2. CASE t = Walk("report", "Ticket")
  <2>1. /\ t.pc = "page" /\ t.tickets = <<>> /\ t.out = <<>> /\ t.page = {} /\ t.shifts \in Nat
        /\ <<>> \in Seq(Fixtures)
    BY <1>2, FreshCalls
  <2>2. PageOK(t, glpi') /\ Hollow(t) = {} /\ Gone(t, glpi') = {}
    BY <2>1, FreshWalk
  <2> QED BY <2>1, <2>2, NotesStep
<1>3. CASE t.pc \in {"solution", "close"} /\ t.tickets = calls[c].tickets
  <2>1. calls[c].tickets \in Seq(Fixtures)
    BY DEF NotesInv
  <2> QED BY <1>1, <1>3, <2>1 DEF Walks
<1> QED
  BY <1>1, <1>2, <1>3, TicketDone

\* The ids of GLPI's tickets are below the next one.
LEMMA TicketIds ==
    ASSUME WalkInv
    PROVE  /\ glpi["Ticket"] \in Seq(Row) /\ nextId \in Nat
           /\ \A i \in DOMAIN glpi["Ticket"] :
                 /\ glpi["Ticket"][i] \in Row
                 /\ glpi["Ticket"][i].id \in Nat /\ glpi["Ticket"][i].id < nextId
<1>1. glpi["Ticket"] \in Seq(Row) /\ nextId \in Nat
  BY DEF WalkInv, StoreOK, Endpoint
<1>2. \A i \in DOMAIN glpi["Ticket"] : glpi["Ticket"][i].id < nextId
  BY DEF WalkInv, StoreOK, Endpoint
<1> QED
  BY <1>1, <1>2, RowFacts

LEMMA CreatesPay ==
    ASSUME WalkInv, NotesInv, NEW c \in Callers, CreateTicket(c)
    PROVE  NotesInv'
<1> DEFINE s == calls[c]
           on == [s EXCEPT !.pc = AfterCreate(s), !.tid = nextId]
           row == NewRow(Head(s.tickets).name, INCOMING)
           old == glpi["Ticket"]
           new == glpi'["Ticket"]
<1>0. /\ IsSession(s) /\ Control(c, s) /\ s.pc = "ticket" /\ s.pc \in Tickets
      /\ faults \in Nat /\ nextId \in Nat
      /\ s.tickets \in Seq(Fixtures) /\ s.tickets # <<>> /\ StoreOK(glpi, nextId)
  BY CallFacts DEF CreateTicket, NotesInv, StoreOK, Tickets, Control, Walks
<1>1. PICK o \in Outcome :
          /\ Charge(o)
          /\ glpi' = IF Applied(o) THEN [glpi EXCEPT !["Ticket"] = Append(@, row)] ELSE glpi
          /\ nextId' = IF Applied(o) THEN nextId + 1 ELSE nextId
          /\ Put(c, CASE o = "ok" -> on
                      [] o = "refused" -> NextTicket(s)
                      [] OTHER -> Raised(s))
  BY DEF CreateTicket
<1>2. faults' \in Nat /\ faults' >= faults
  BY <1>0, <1>1, ChargeFacts
<1>3. /\ on.pc = AfterCreate(s) /\ on.tid = nextId /\ on.tickets = s.tickets
      /\ on.pc \in {"solution", "close"}
  BY <1>0 DEF IsSession, Idle, AfterCreate
<1>4. /\ row.id = nextId /\ row.name = Head(s.tickets).name /\ ~Resolved(row)
      /\ Head(s.tickets) \in Fixtures
  BY <1>0, TailFacts DEF NewRow, Resolved, RESOLVED_STATUSES, INCOMING, SOLVED, CLOSED
<1> HIDE DEF on, row
<1>5. PICK t : /\ Put(c, t) /\ t \in {on, NextTicket(s), Raised(s)}
               /\ o # "ok" => t \in {NextTicket(s), Raised(s)}
  <2> HIDE DEF s
  <2> QED BY <1>1
<1>6. /\ calls'[c] = t
      /\ \A d \in Callers : d # c => calls'[d] = calls[d]
  BY <1>5, PutFacts DEF WalkInv
<1>7. /\ t \in {NextTicket(s), Raised(s)} => t.pc \notin {"solution", "close"}
  BY <1>0, TicketDone, FreshCalls
<1>8. ASSUME \/ t \in {NextTicket(s), Raised(s)}
             \/ t.pc \in {"solution", "close"} /\ t.tickets = s.tickets,
             TidOK(t, glpi', nextId'), nextId' \in Nat, nextId' >= nextId,
             Grown(Bare(glpi, calls), Bare(glpi', calls'), faults, faults'),
             Follows(glpi["Ticket"], glpi'["Ticket"], nextId)
      PROVE  NotesInv'
  <2>1. Put(c, t)
    BY <1>5
  <2>2. \/ t \in {Idle, NextTicket(s), Raised(s)}
        \/ t.pc \in {"solution", "close"} /\ t.tickets = s.tickets
    BY <1>8
  <2>3. s.pc \in Tickets
    BY <1>0
  <2> QED BY <1>2, <1>8, <2>1, <2>2, <2>3, TicketPays
<1>9. CASE ~Applied(o)
  <2>1. glpi' = glpi /\ nextId' = nextId /\ t \in {NextTicket(s), Raised(s)}
    BY <1>1, <1>5, <1>9 DEF Applied
  <2>2. Bare(glpi', calls') \subseteq Bare(glpi, calls)
    <3>1. \A id : Closing(calls', id) => Closing(calls, id)
      BY <1>6, <1>7, <2>1 DEF Closing
    <3>2. \A r : IsBare(r, calls') => IsBare(r, calls)
      BY <3>1 DEF IsBare
    <3> QED BY <2>1, <3>2 DEF Bare
  <2>3. Grown(Bare(glpi, calls), Bare(glpi', calls'), faults, faults')
    BY <1>0, <1>2, <2>2 DEF Grown
  <2>4. TidOK(t, glpi', nextId') /\ nextId' \in Nat /\ nextId' >= nextId
    BY <1>0, <1>7, <2>1 DEF TidOK
  <2>5. Follows(glpi["Ticket"], glpi'["Ticket"], nextId)
    BY <2>1 DEF Follows
  <2> QED BY <1>8, <2>1, <2>3, <2>4, <2>5
<1>10. CASE Applied(o)
  <2>1. nextId' = nextId + 1 /\ new = Append(old, row) /\ old \in Seq(Row)
    BY <1>0, <1>1, <1>10 DEF StoreOK, Endpoint
  <2>2. /\ Len(old) \in Nat /\ DOMAIN old = 1 .. Len(old) /\ DOMAIN new = 1 .. Len(old) + 1
        /\ \A i \in DOMAIN old : i \in DOMAIN new /\ new[i] = old[i]
        /\ \A i \in DOMAIN new : \/ i \in DOMAIN old /\ new[i] = old[i]
                                 \/ new[i] = row
    <3> HIDE DEF old, new
    <3> QED BY <2>1
  <2>3. \A i \in DOMAIN old : old[i].id \in Nat /\ old[i].id < nextId
    BY TicketIds
  <2> HIDE DEF old, new
  <2>4. ~IsBare(row, calls')
    <3> SUFFICES ASSUME row.name \in WithNotes, Closing(calls', nextId) PROVE FALSE
      BY <1>4 DEF IsBare
    <3>1. PICK d \in Callers : calls'[d].pc = "close" /\ calls'[d].tid = nextId
      BY DEF Closing
    <3>2. d = c
      <4>1. ASSUME d # c PROVE FALSE
        <5>1. TidOK(calls[d], glpi, nextId) /\ calls[d].pc = "close" /\ calls[d].tid = nextId
          BY <1>6, <3>1, <4>1 DEF NotesInv
        <5> QED BY <1>0, <5>1 DEF TidOK
      <4> QED BY <4>1
    <3>3. t = on /\ AfterCreate(s) = "close"
      BY <1>3, <1>5, <1>6, <1>7, <3>1, <3>2
    <3>4. Head(s.tickets).notes = "given"
      BY <1>4, NotesByName
    <3> QED BY <3>3, <3>4 DEF AfterCreate
  <2>5. \A i \in DOMAIN old : IsBare(old[i], calls') => IsBare(old[i], calls)
    <3>1. \A id \in Nat : id < nextId /\ Closing(calls', id) => Closing(calls, id)
      <4>1. t.pc = "close" => t.tid = nextId
        BY <1>3, <1>5, <1>7
      <4> QED BY <1>0, <1>6, <4>1 DEF Closing
    <3> QED BY <2>3, <3>1 DEF IsBare
  <2>6. Bare(glpi', calls') \subseteq Bare(glpi, calls)
    BY <2>2, <2>4, <2>5 DEF Bare, old, new
  <2>7. Grown(Bare(glpi, calls), Bare(glpi', calls'), faults, faults')
    BY <1>0, <1>2, <2>6 DEF Grown
  <2>8. TidOK(t, glpi', nextId')
    <3>1. CASE t \in {NextTicket(s), Raised(s)}
      BY <1>7, <3>1 DEF TidOK
    <3>2. CASE t = on
      <4>1. \A i \in DOMAIN new : new[i].id = nextId => new[i].name = Head(s.tickets).name
        BY <1>0, <1>4, <2>2, <2>3
      <4>2. nextId < nextId'
        BY <1>0, <2>1
      <4> QED BY <1>3, <3>2, <4>1, <4>2 DEF TidOK, new
    <3> QED BY <1>5, <3>1, <3>2
  <2>9. Follows(old, new, nextId)
    <3>1. Ids(old) \subseteq Ids(new)
      BY <2>2 DEF Ids
    <3>2. \A i \in DOMAIN new : \/ \E j \in DOMAIN old : new[i] = old[j]
                                \/ new[i].id = nextId
      BY <1>4, <2>2
    <3> QED BY <3>1, <3>2 DEF Follows
  <2>10. nextId' \in Nat /\ nextId' >= nextId
    BY <1>0, <2>1
  <2>11. \/ t \in {NextTicket(s), Raised(s)}
         \/ t.pc \in {"solution", "close"} /\ t.tickets = s.tickets
    <3>1. CASE t = on
      BY <1>3, <3>1
    <3> QED BY <1>5, <3>1
  <2> HIDE DEF s
  <2> QED BY <1>8, <2>7, <2>8, <2>9, <2>10, <2>11 DEF old, new
<1> QED
  BY <1>9, <1>10

\* A ticket that is given a solution or closed keeps its name.
LEMMA UpdateRows ==
    ASSUME WalkInv, NEW id, NEW status \in {SOLVED, CLOSED}, NEW solution,
           glpi' = Update(id, status, solution)
    PROVE  /\ DOMAIN glpi'["Ticket"] = DOMAIN glpi["Ticket"]
           /\ \A i \in DOMAIN glpi["Ticket"] :
                 /\ glpi'["Ticket"][i].id = glpi["Ticket"][i].id
                 /\ glpi'["Ticket"][i].name = glpi["Ticket"][i].name
                 /\ Resolved(glpi["Ticket"][i]) => Resolved(glpi'["Ticket"][i])
                 /\ glpi["Ticket"][i].id = id => Resolved(glpi'["Ticket"][i])
                 /\ IF glpi["Ticket"][i].id = id
                    THEN glpi'["Ticket"][i].solution = solution
                    ELSE glpi'["Ticket"][i] = glpi["Ticket"][i]
           /\ Follows(glpi["Ticket"], glpi'["Ticket"], nextId)
<1> DEFINE old == glpi["Ticket"]
           new == [i \in DOMAIN old |->
                     IF old[i].id = id
                     THEN [old[i] EXCEPT !.status = status, !.solution = solution]
                     ELSE old[i]]
<1>1. "Ticket" \in DOMAIN glpi /\ \A i \in DOMAIN old : old[i] \in Row
  BY TicketIds DEF WalkInv, StoreOK, Endpoint
<1>2. glpi'["Ticket"] = new
  BY <1>1 DEF Update
<1>3. \A row \in Row :
          LET r == [row EXCEPT !.status = status, !.solution = solution] IN
          /\ r.id = row.id /\ r.name = row.name /\ r.solution = solution /\ r.status = status
  BY DEF Row
<1> HIDE DEF old
<1>4. /\ DOMAIN new = DOMAIN old
      /\ \A i \in DOMAIN old :
            /\ new[i].id = old[i].id /\ new[i].name = old[i].name
            /\ new[i].status = IF old[i].id = id THEN status ELSE old[i].status
            /\ IF old[i].id = id THEN new[i].solution = solution ELSE new[i] = old[i]
  BY <1>1, <1>3
<1> HIDE DEF new
<1>5. \A i \in DOMAIN old : Resolved(old[i]) \/ old[i].id = id => Resolved(new[i])
  BY <1>4 DEF Resolved, RESOLVED_STATUSES
<1>6. Follows(old, new, nextId)
  BY <1>4, <1>5 DEF Follows, Ids
<1> QED
  BY <1>2, <1>4, <1>5, <1>6 DEF old

\* A ticket is given its notes, or the refusal is paid for.
LEMMA SolvesPay ==
    ASSUME WalkInv, NotesInv, NEW c \in Callers, PostSolution(c)
    PROVE  NotesInv'
<1> DEFINE s == calls[c]
           on == [s EXCEPT !.pc = "close"]
           old == glpi["Ticket"]
           new == glpi'["Ticket"]
<1>0. /\ IsSession(s) /\ Control(c, s) /\ s.pc = "solution" /\ s.pc \in Tickets
      /\ faults \in Nat /\ nextId \in Nat /\ TidOK(s, glpi, nextId)
      /\ s.tickets \in Seq(Fixtures) /\ s.tickets # <<>>
  BY CallFacts DEF PostSolution, NotesInv, StoreOK, Tickets, Control, Walks
<1>1. PICK o \in Outcome :
          /\ Charge(o)
          /\ glpi' = IF Applied(o) THEN Update(s.tid, SOLVED, Head(s.tickets).notes) ELSE glpi
          /\ Put(c, IF Answered(o) THEN on ELSE Raised(s))
          /\ nextId' = nextId
  BY DEF PostSolution, seedVars
<1>2. faults' \in Nat /\ faults' >= faults /\ (o # "ok" => faults' >= faults + 1)
  BY <1>0, <1>1, ChargeFacts
<1>3. on.pc = "close" /\ on.tid = s.tid /\ on.tickets = s.tickets
  BY <1>0 DEF IsSession, Idle
<1> HIDE DEF on
<1>4. PICK t \in {on, Raised(s)} : Put(c, t)
  BY <1>1
<1>5. /\ calls'[c] = t
      /\ \A d \in Callers : d # c => calls'[d] = calls[d]
  BY <1>4, PutFacts DEF WalkInv
<1>6. t # on => t.pc \notin {"solution", "close"}
  BY <1>0, <1>4, TicketDone, FreshCalls
<1>7. \A id : Closing(calls', id) => Closing(calls, id) \/ id = s.tid
  BY <1>3, <1>5, <1>6 DEF Closing
<1>8. /\ Follows(old, new, nextId)
      /\ \A i \in DOMAIN new : i \in DOMAIN old /\ new[i].id = old[i].id /\ new[i].name = old[i].name
      /\ \A i \in DOMAIN new : old[i].id # s.tid => new[i] = old[i]
      /\ \A i \in DOMAIN new :
            old[i].id = s.tid => new[i] = old[i] \/ new[i].solution = Head(s.tickets).notes
      /\ Applied(o) => \A i \in DOMAIN new :
            old[i].id = s.tid => new[i].solution = Head(s.tickets).notes
  <2>1. CASE Applied(o)
    <3>1. glpi' = Update(s.tid, SOLVED, Head(s.tickets).notes) /\ SOLVED \in {SOLVED, CLOSED}
      BY <1>1, <2>1
    <3>2. /\ DOMAIN new = DOMAIN old /\ Follows(old, new, nextId)
          /\ \A i \in DOMAIN old :
                /\ new[i].id = old[i].id /\ new[i].name = old[i].name
                /\ IF old[i].id = s.tid THEN new[i].solution = Head(s.tickets).notes
                                       ELSE new[i] = old[i]
      <4> HIDE DEF s
      <4> QED BY <3>1, UpdateRows
    <3> HIDE DEF old, new, s
    <3> QED BY <3>2
  <2>2. CASE ~Applied(o)
    <3>1. glpi' = glpi
      BY <1>1, <2>2
    <3> QED BY <2>2, <3>1 DEF Follows
  <2> QED BY <2>1, <2>2
<1> HIDE DEF old, new
<1>9. ASSUME NEW i \in DOMAIN new, IsBare(new[i], calls')
      PROVE  IsBare(old[i], calls) \/ (new[i].id = s.tid /\ ~Applied(o))
  <2>1. CASE old[i].id # s.tid
    BY <1>7, <1>8, <1>9, <2>1 DEF IsBare
  <2>2. CASE old[i].id = s.tid /\ Applied(o)
    <3>1. new[i].name = Head(s.tickets).name
      BY <1>0, <1>8, <2>2 DEF TidOK, old
    <3>2. Head(s.tickets) \in Fixtures
      BY <1>0, TailFacts
    <3>3. Head(s.tickets).notes = "given"
      BY <1>9, <3>1, <3>2, NotesByName DEF IsBare
    <3> QED BY <1>8, <1>9, <2>2, <3>3 DEF IsBare
  <2> QED BY <1>8, <2>1, <2>2
<1>10. \/ Bare(glpi', calls') \subseteq Bare(glpi, calls)
       \/ o # "ok" /\ Bare(glpi', calls') \subseteq Bare(glpi, calls) \cup {s.tid}
  <2>1. CASE Applied(o)
    <3>1. \A i \in DOMAIN new : IsBare(new[i], calls') => IsBare(old[i], calls)
      BY <1>9, <2>1
    <3> QED BY <1>8, <3>1 DEF Bare, old, new
  <2>2. CASE ~Applied(o)
    BY <1>8, <1>9, <2>2 DEF Bare, old, new, Applied
  <2> QED BY <2>1, <2>2
<1>11. Grown(Bare(glpi, calls), Bare(glpi', calls'), faults, faults')
  BY <1>0, <1>2, <1>10 DEF Grown
<1>12. TidOK(t, glpi', nextId')
  <2>1. CASE t = on
    BY <1>0, <1>1, <1>3, <1>8, <2>1 DEF TidOK, old, new
  <2> QED BY <1>6, <2>1 DEF TidOK
<1>13. \/ t \in {Idle, NextTicket(s), Raised(s)}
       \/ t.pc \in {"solution", "close"} /\ t.tickets = s.tickets
  BY <1>3, <1>4
<1>14. nextId' \in Nat /\ nextId' >= nextId /\ s.pc \in Tickets
  BY <1>0, <1>1
<1>15. Follows(glpi["Ticket"], glpi'["Ticket"], nextId)
  BY <1>8 DEF old, new
<1> QED
  BY <1>2, <1>4, <1>11, <1>12, <1>13, <1>14, <1>15, TicketPays

\* A closed ticket that shows no notes was about to be closed without.
LEMMA ClosesPay ==
    ASSUME WalkInv, NotesInv, NEW c \in Callers, CloseTicket(c)
    PROVE  NotesInv'
<1> DEFINE s == calls[c]
           old == glpi["Ticket"]
           new == glpi'["Ticket"]
<1>0. /\ s.pc = "close" /\ s.pc \in Tickets
      /\ faults \in Nat /\ nextId \in Nat /\ \A i \in DOMAIN old : old[i] \in Row
  BY TicketIds DEF CloseTicket, NotesInv, Tickets
<1>1. PICK o \in Outcome :
          /\ Charge(o)
          /\ glpi' = IF Applied(o) THEN Update(s.tid, CLOSED, SolutionOf(s.tid)) ELSE glpi
          /\ Put(c, IF Answered(o) THEN NextTicket(s) ELSE Raised(s))
          /\ nextId' = nextId
  BY DEF CloseTicket, seedVars
<1>2. faults' \in Nat /\ faults' >= faults
  BY <1>0, <1>1, ChargeFacts
<1>3. PICK t \in {NextTicket(s), Raised(s)} : Put(c, t)
  BY <1>1
<1>4. /\ calls'[c] = t
      /\ \A d \in Callers : d # c => calls'[d] = calls[d]
  BY <1>3, PutFacts DEF WalkInv
<1>5. t.pc \notin {"solution", "close"}
  BY <1>0, <1>3, TicketDone, FreshCalls
<1>6. \A id : Closing(calls', id) => Closing(calls, id)
  BY <1>4, <1>5 DEF Closing
<1>7. /\ Follows(old, new, nextId)
      /\ \A i \in DOMAIN new :
            /\ i \in DOMAIN old /\ new[i].id = old[i].id /\ new[i].name = old[i].name
            /\ \/ new[i] = old[i]
               \/ old[i].id = s.tid /\ new[i].solution = SolutionOf(s.tid)
  <2>1. CASE Applied(o)
    <3>1. glpi' = Update(s.tid, CLOSED, SolutionOf(s.tid)) /\ CLOSED \in {SOLVED, CLOSED}
      BY <1>1, <2>1
    <3>2. /\ DOMAIN new = DOMAIN old /\ Follows(old, new, nextId)
          /\ \A i \in DOMAIN old :
                /\ new[i].id = old[i].id /\ new[i].name = old[i].name
                /\ IF old[i].id = s.tid THEN new[i].solution = SolutionOf(s.tid)
                                       ELSE new[i] = old[i]
      <4> HIDE DEF s
      <4> QED BY <3>1, UpdateRows
    <3> HIDE DEF old, new, s
    <3> QED BY <3>2
  <2>2. CASE ~Applied(o)
    <3>1. glpi' = glpi
      BY <1>1, <2>2
    <3> QED BY <3>1 DEF Follows
  <2> QED BY <2>1, <2>2
<1>8. ASSUME NEW i \in DOMAIN new, IsBare(new[i], calls')
      PROVE  IsBare(old[i], calls)
  <2>1. CASE new[i] = old[i]
    BY <1>6, <1>8, <2>1 DEF IsBare
  <2>2. CASE old[i].id = s.tid /\ new[i].solution = SolutionOf(s.tid)
    <3>1. SolutionOf(s.tid) = "none"
      BY <1>8, <2>2 DEF IsBare
    <3>2. old[i].solution # "given" /\ old[i].solution \in Text
      BY <1>0, <1>7, <2>2, <3>1 DEF SolutionOf, Row
    <3>3. Closing(calls, old[i].id)
      BY <1>0, <2>2 DEF Closing
    <3> QED BY <1>7, <1>8, <3>2, <3>3 DEF IsBare, Text
  <2> QED BY <1>7, <2>1, <2>2
<1>9. Bare(glpi', calls') \subseteq Bare(glpi, calls)
  BY <1>7, <1>8 DEF Bare
<1>10. Grown(Bare(glpi, calls), Bare(glpi', calls'), faults, faults')
  BY <1>0, <1>2, <1>9 DEF Grown
<1>11. TidOK(t, glpi', nextId')
  BY <1>5 DEF TidOK
<1>12. t \in {Idle, NextTicket(s), Raised(s)}
  BY <1>3
<1>13. nextId' \in Nat /\ nextId' >= nextId /\ s.pc \in Tickets
  BY <1>0, <1>1
<1> QED
  BY <1>2, <1>3, <1>7, <1>10, <1>11, <1>12, <1>13, TicketPays

\* A row that is purged leaves the others as they are.
LEMMA PurgedRows ==
    ASSUME WalkInv, NEW e \in Endpoint, NEW id, glpi' = [glpi EXCEPT ![e] = Without(@, id)]
    PROVE  /\ \A i \in DOMAIN glpi'["Ticket"] : \E j \in DOMAIN glpi["Ticket"] :
                 glpi["Ticket"][j] = glpi'["Ticket"][i]
           /\ Ids(glpi["Ticket"]) \subseteq Ids(glpi'["Ticket"]) \cup {id}
           /\ e # "Ticket" => glpi'["Ticket"] = glpi["Ticket"]
<1>1. glpi \in [Endpoint -> Seq(Row)] /\ "Ticket" \in Endpoint
  BY DEF WalkInv, StoreOK, Endpoint
<1>2. CASE e # "Ticket"
  <2>1. glpi'["Ticket"] = glpi["Ticket"]
    BY <1>1, <1>2
  <2> QED BY <1>2, <2>1
<1>3. CASE e = "Ticket"
  <2> DEFINE rows == glpi["Ticket"]
             w == Without(rows, id)
  <2>1. glpi'["Ticket"] = w /\ rows \in Seq(Row)
    BY <1>1, <1>3
  <2> HIDE DEF rows, w
  <2>2. /\ w \in Seq(Row)
        /\ \/ id \notin Ids(rows) /\ w = rows
           \/ \E i \in 1 .. Len(rows) :
                 /\ rows[i].id = id
                 /\ Len(w) = Len(rows) - 1
                 /\ \A j \in 1 .. Len(w) :
                       w[j] = IF j < i THEN rows[j] ELSE rows[j + 1]
    BY <2>1, WithoutFacts DEF w
  <2>3. /\ DOMAIN rows = 1 .. Len(rows) /\ Len(rows) \in Nat
        /\ DOMAIN w = 1 .. Len(w) /\ Len(w) \in Nat
    BY <2>1, <2>2
  <2>4. CASE w = rows
    BY <1>3, <2>1, <2>4 DEF rows
  <2>5. ASSUME NEW i \in 1 .. Len(rows), rows[i].id = id, Len(w) = Len(rows) - 1,
               \A j \in 1 .. Len(w) : w[j] = IF j < i THEN rows[j] ELSE rows[j + 1]
        PROVE  /\ \A j \in DOMAIN w : \E k \in DOMAIN rows : rows[k] = w[j]
               /\ Ids(rows) \subseteq Ids(w) \cup {id}
    <3>1. ASSUME NEW j \in DOMAIN w PROVE \E k \in DOMAIN rows : rows[k] = w[j]
      <4>1. j \in DOMAIN rows /\ j + 1 \in DOMAIN rows
        BY <2>3, <2>5, <3>1
      <4> QED BY <2>3, <2>5, <4>1
    <3>2. ASSUME NEW k \in DOMAIN rows, k # i PROVE rows[k].id \in Ids(w)
      <4>1. CASE k < i
        <5>1. k \in DOMAIN w /\ w[k] = rows[k]
          BY <2>3, <2>5, <3>2, <4>1
        <5> QED BY <5>1 DEF Ids
      <4>2. CASE k > i
        <5>1. k - 1 \in DOMAIN w /\ ~(k - 1 < i) /\ (k - 1) + 1 = k
          BY <2>3, <2>5, <3>2, <4>2
        <5>2. w[k - 1] = rows[k]
          BY <2>3, <2>5, <5>1
        <5> QED BY <5>1, <5>2 DEF Ids
      <4> QED BY <2>3, <2>5, <3>2, <4>1, <4>2
    <3>3. Ids(rows) \subseteq Ids(w) \cup {id}
      BY <2>5, <3>2 DEF Ids
    <3> QED BY <3>1, <3>3
  <2> QED BY <1>3, <2>1, <2>2, <2>4, <2>5 DEF rows
<1> QED
  BY <1>2, <1>3

\* A purged row is counted by the walks that may hold it on their page.
LEMMA DeletesPay ==
    ASSUME WalkInv, NotesInv, NEW c \in Callers, DeleteRow(c)
    PROVE  NotesInv'
<1> DEFINE s == calls[c]
           e == s.endpoint
           id == First(s.page).id
           rest == [s EXCEPT !.page = @ \ {First(@)},
                             !.pc = IF s.page = {First(s.page)} THEN "purge" ELSE "delete"]
<1>0. /\ IsSession(s) /\ e \in Endpoint /\ faults \in Nat /\ nextId \in Nat
      /\ s.tickets \in Seq(Fixtures) /\ s.pc = "delete"
      /\ calls = [d \in Callers |-> calls[d]]
  BY CallFacts DEF NotesInv, StoreOK, IsSession, WalkInv, DeleteRow
<1>1. PICK o \in Outcome :
          /\ Charge(o)
          /\ glpi' = IF Applied(o) THEN [glpi EXCEPT ![e] = Without(@, id)] ELSE glpi
          /\ calls' = [d \in Callers |->
                IF d = c THEN IF Answered(o) THEN rest ELSE Idle
                ELSE IF Applied(o) /\ calls[d].pc \in {"page", "rows"} /\ calls[d].endpoint = e
                THEN [calls[d] EXCEPT !.shifts = @ + 1]
                ELSE calls[d]]
          /\ nextId' = nextId
  BY DEF DeleteRow, seedVars
<1>2. faults' \in Nat /\ faults' >= faults
  BY <1>0, <1>1, ChargeFacts
<1>3. rest.pc \in {"purge", "delete"} /\ rest.tickets = s.tickets
  BY <1>0 DEF IsSession, Idle
<1> HIDE DEF rest, id, e
<1>4. CASE ~Applied(o)
  <2>1. glpi' = glpi
    BY <1>1, <1>4
  <2> DEFINE t == IF Answered(o) THEN rest ELSE Idle
  <2>2. calls' = [d \in Callers |-> IF d = c THEN t ELSE calls[d]]
    BY <1>1, <1>4
  <2>3. t = rest \/ t = Idle
    OBVIOUS
  <2> HIDE DEF t, s
  <2>4. calls' = [calls EXCEPT ![c] = t]
    BY <1>0, <2>2
  <2>5. Put(c, t)
    BY <2>4 DEF Put
  <2> QED BY <1>0, <1>1, <1>2, <1>3, <2>1, <2>3, <2>5, WriterPays DEF Walks
<1>5. CASE Applied(o)
  <2>1. glpi' = [glpi EXCEPT ![e] = Without(@, id)]
    BY <1>1, <1>5
  <2>2. /\ \A i \in DOMAIN glpi'["Ticket"] : \E j \in DOMAIN glpi["Ticket"] :
              glpi["Ticket"][j] = glpi'["Ticket"][i]
        /\ Ids(glpi["Ticket"]) \subseteq Ids(glpi'["Ticket"]) \cup {id}
        /\ e # "Ticket" => glpi'["Ticket"] = glpi["Ticket"]
    BY <1>0, <2>1, PurgedRows
  <2>3. ASSUME NEW d \in Callers, d # c
        PROVE  /\ calls'[d] = Slid(calls[d], e)
               /\ calls'[d].pc = calls[d].pc /\ calls'[d].tid = calls[d].tid
               /\ calls'[d].tickets = calls[d].tickets /\ calls'[d].page = calls[d].page
               /\ calls'[d].out = calls[d].out /\ calls'[d].endpoint = calls[d].endpoint
               /\ calls'[d].job = calls[d].job
               /\ calls[d].shifts \in Nat /\ calls'[d].shifts \in Nat
               /\ calls'[d].shifts =
                    IF calls[d].pc \in {"page", "rows"} /\ calls[d].endpoint = e
                    THEN calls[d].shifts + 1 ELSE calls[d].shifts
    <3>1. IsSession(calls[d])
      BY CallFacts
    <3>2. calls'[d] = Slid(calls[d], e)
      BY <1>1, <1>5, <2>3 DEF Slid
    <3> QED BY <3>1, <3>2 DEF Slid, IsSession, Idle
  <2>4. calls'[c] \in {rest, Idle}
    BY <1>1
  <2>5. /\ calls'[c].pc \notin Walks \cup {"solution", "close"}
        /\ calls'[c].tickets \in Seq(Fixtures)
    <3>1. CASE calls'[c] = rest
      BY <1>0, <1>3, <3>1 DEF Walks
    <3>2. CASE calls'[c] = Idle
      BY <3>2, FreshCalls DEF Walks
    <3> QED BY <2>4, <3>1, <3>2
  <2>6. Bare(glpi', calls') \subseteq Bare(glpi, calls)
    <3>1. \A x : Closing(calls', x) => Closing(calls, x)
      BY <2>3, <2>5 DEF Closing
    <3>2. \A row : IsBare(row, calls') => IsBare(row, calls)
      BY <3>1 DEF IsBare
    <3> QED BY <2>2, <3>2 DEF Bare
  <2>7. Paid(Bare(glpi', calls'), faults')
    <3>1. Grown(Bare(glpi, calls), Bare(glpi', calls'), faults, faults')
      BY <1>0, <1>2, <2>6 DEF Grown
    <3> QED BY <3>1, GrownPaid DEF NotesInv
  <2>8. ASSUME NEW d \in Callers, d # c
        PROVE  /\ TidOK(calls'[d], glpi', nextId')
               /\ WalkPaid(calls'[d], glpi', calls', faults')
    <3> DEFINE a == calls[d]
               b == calls'[d]
    <3>1. TidOK(a, glpi, nextId) /\ WalkPaid(a, glpi, calls, faults)
      BY DEF NotesInv
    <3>2. /\ b.pc = a.pc /\ b.tid = a.tid /\ b.tickets = a.tickets /\ b.page = a.page
          /\ b.out = a.out /\ b.endpoint = a.endpoint /\ b.job = a.job
          /\ a.shifts \in Nat /\ b.shifts \in Nat
          /\ b.shifts = IF a.pc \in {"page", "rows"} /\ a.endpoint = e
                        THEN a.shifts + 1 ELSE a.shifts
      BY <2>3, <2>8
    <3> HIDE DEF a, b
    <3>3. TidOK(b, glpi', nextId')
      BY <1>1, <2>2, <3>1, <3>2 DEF TidOK
    <3>4. ASSUME Lists(b) PROVE PageOK(b, glpi') /\ Paid(Poor(b, glpi', calls'), faults' + b.shifts)
      <4>1. PageOK(a, glpi) /\ Paid(Poor(a, glpi, calls), faults + a.shifts)
            /\ a.endpoint = "Ticket" /\ a.pc \in Walks
        BY <3>1, <3>2, <3>4 DEF WalkPaid, Lists
      <4>2. PageOK(b, glpi')
        BY <2>2, <3>2, <4>1 DEF PageOK
      <4>3. Hollow(b) = Hollow(a)
        BY <3>2 DEF Hollow
      <4>4. \/ Gone(b, glpi') \subseteq Gone(a, glpi)
            \/ b.shifts = a.shifts + 1 /\ Gone(b, glpi') \subseteq Gone(a, glpi) \cup {id}
        <5>1. CASE e # "Ticket"
          BY <2>2, <3>2, <5>1 DEF Gone
        <5>2. CASE a.pc = "listed"
          BY <3>2, <4>1, <5>2 DEF PageOK, Gone
        <5>3. CASE e = "Ticket" /\ a.pc \in {"page", "rows"}
          BY <2>2, <3>2, <4>1, <5>3 DEF Gone
        <5> QED BY <4>1, <5>1, <5>2, <5>3 DEF Walks
      <4>5. /\ faults + a.shifts \in Nat /\ faults' + b.shifts \in Nat
            /\ faults + a.shifts <= faults' + b.shifts
            /\ b.shifts = a.shifts + 1 => (faults + a.shifts) + 1 <= faults' + b.shifts
        BY <1>0, <1>2, <3>2
      <4>6. \/ Poor(b, glpi', calls') \subseteq Poor(a, glpi, calls)
            \/ b.shifts = a.shifts + 1 /\ Poor(b, glpi', calls') \subseteq Poor(a, glpi, calls) \cup {id}
        BY <2>6, <4>3, <4>4 DEF Poor
      <4>7. Grown(Poor(a, glpi, calls), Poor(b, glpi', calls'),
                  faults + a.shifts, faults' + b.shifts)
        BY <4>5, <4>6 DEF Grown
      <4>8. Paid(Poor(b, glpi', calls'), faults' + b.shifts)
        BY <4>1, <4>7, GrownPaid
      <4> QED BY <4>2, <4>8
    <3> QED BY <3>3, <3>4 DEF WalkPaid, b
  <2>9. \A d \in Callers : calls'[d].tickets \in Seq(Fixtures)
    BY <2>3, <2>5 DEF NotesInv
  <2>10. TidOK(calls'[c], glpi', nextId') /\ WalkPaid(calls'[c], glpi', calls', faults')
    BY <2>5 DEF TidOK, WalkPaid, Lists
  <2> HIDE DEF s
  <2> QED BY <1>2, <2>7, <2>8, <2>9, <2>10 DEF NotesInv
<1> QED
  BY <1>4, <1>5

\* The end of the process is a fault of its own, and forgets most calls.
LEMMA CrashPays ==
    ASSUME WalkInv, NotesInv, Crash
    PROVE  NotesInv'
<1>0. /\ faults \in Nat /\ UNCHANGED <<glpi, nextId>> /\ faults' \in Nat /\ faults' >= faults
      /\ \A c \in Callers : calls'[c] \in {calls[c], Idle}
      /\ <<>> \in Seq(Fixtures)
  BY ChargeFacts DEF Crash, NotesInv
<1>1. Bare(glpi', calls') \subseteq Bare(glpi, calls)
  <2>1. \A x : Closing(calls', x) => Closing(calls, x)
    BY <1>0, FreshCalls DEF Closing
  <2>2. \A row : IsBare(row, calls') => IsBare(row, calls)
    BY <2>1 DEF IsBare
  <2> QED BY <1>0, <2>2 DEF Bare
<1>2. Paid(Bare(glpi', calls'), faults')
  <2>1. Grown(Bare(glpi, calls), Bare(glpi', calls'), faults, faults')
    BY <1>0, <1>1 DEF Grown
  <2> QED BY <2>1, GrownPaid DEF NotesInv
<1>3. ASSUME NEW s, TidOK(s, glpi, nextId) PROVE TidOK(s, glpi', nextId')
  BY <1>0, <1>3 DEF TidOK
<1>4. ASSUME NEW s, WalkPaid(s, glpi, calls, faults), s.shifts \in Nat
      PROVE  WalkPaid(s, glpi', calls', faults')
  <2>1. ASSUME Lists(s) PROVE PageOK(s, glpi') /\ Paid(Poor(s, glpi', calls'), faults' + s.shifts)
    <3>1. PageOK(s, glpi') /\ Gone(s, glpi') = Gone(s, glpi)
      BY <1>0, <1>4, <2>1 DEF WalkPaid, PageOK, Gone
    <3>2. /\ faults + s.shifts \in Nat /\ faults' + s.shifts \in Nat
          /\ faults + s.shifts <= faults' + s.shifts
      BY <1>0, <1>4
    <3>3. Poor(s, glpi', calls') \subseteq Poor(s, glpi, calls)
      BY <1>1, <3>1 DEF Poor
    <3>4. Grown(Poor(s, glpi, calls), Poor(s, glpi', calls'),
                faults + s.shifts, faults' + s.shifts)
      BY <3>2, <3>3 DEF Grown
    <3> QED BY <1>4, <2>1, <3>1, <3>4, GrownPaid DEF WalkPaid
  <2> QED BY <2>1 DEF WalkPaid
<1>5. /\ TidOK(Idle, glpi', nextId') /\ WalkPaid(Idle, glpi', calls', faults')
      /\ Idle.tickets \in Seq(Fixtures)
  BY <1>0, FreshCalls DEF TidOK, WalkPaid, Lists, Walks
<1>6. \A c \in Callers : calls[c].shifts \in Nat
  BY CallFacts DEF IsSession
<1>7. ASSUME NEW c \in Callers
      PROVE  /\ calls'[c].tickets \in Seq(Fixtures)
             /\ TidOK(calls'[c], glpi', nextId')
             /\ WalkPaid(calls'[c], glpi', calls', faults')
  <2>1. CASE calls'[c] = calls[c]
    BY <1>3, <1>4, <1>6, <2>1 DEF NotesInv
  <2> QED BY <1>0, <1>5, <2>1
<1> QED
  BY <1>0, <1>2, <1>7 DEF NotesInv

LEMMA NotesInvInductive ==
    ASSUME WalkInv, NotesInv, [Next]_vars
    PROVE  NotesInv'
<1>1. CASE UNCHANGED vars
  <2>1. UNCHANGED <<glpi, calls, faults, nextId>>
    BY <1>1 DEF vars, seedVars
  <2> QED BY <2>1 DEF NotesInv
<1>2. ASSUME NEW c \in Callers, Step(c) PROVE NotesInv'
  BY <1>2, WalksPay, WritesPay, DeletesPay, CreatesPay, SolvesPay, ClosesPay DEF Step
<1> QED
  BY <1>1, <1>2, StartsPay, CrashPays DEF Next

LEMMA NotesInvInit ==
    Init => NotesInv
<1> SUFFICES ASSUME Init PROVE NotesInv
  OBVIOUS
<1>1. /\ faults = 0 /\ glpi["Ticket"] = <<>> /\ \A c \in Callers : calls[c] = Idle
      /\ <<>> \in Seq(Fixtures)
  BY DEF Init, Endpoint
<1>2. Bare(glpi, calls) = {}
  BY <1>1 DEF Bare
<1>3. Paid(Bare(glpi, calls), faults)
  BY <1>1, <1>2, FS_EmptySet DEF Paid
<1>4. \A c \in Callers : /\ calls[c].tickets \in Seq(Fixtures)
                         /\ calls[c].pc \notin Walks \cup {"solution", "close"}
  BY <1>1, FreshCalls DEF Walks
<1> QED
  BY <1>1, <1>3, <1>4 DEF NotesInv, TidOK, WalkPaid, Lists

LEMMA NotesInvariant ==
    Spec => []NotesInv
<1>1. WalkInv /\ NotesInv /\ [Next]_vars => NotesInv'
  BY NotesInvInductive
<1> QED
  BY <1>1, NotesInvInit, WalkInvariant, PTL DEF Spec

\* A list of resolved tickets shows a ticket without the notes it was seeded
\* with only after a failed call or a purge, each of which pays for one.
THEOREM HollowPaidFor ==
    Spec => []HollowNotesNeedFaults
<1>1. ASSUME WalkInv, NotesInv PROVE HollowNotesNeedFaults
  <2> SUFFICES ASSUME NEW c \in Callers, calls[c].endpoint = "Ticket", calls[c].job # "get"
               PROVE  Cardinality({i \in DOMAIN calls[c].out :
                                     /\ calls[c].out[i].name \in WithNotes
                                     /\ calls[c].out[i].solution = "none"})
                         <= faults + calls[c].shifts
    BY DEF HollowNotesNeedFaults
  <2> DEFINE s == calls[c]
             hollow == {i \in DOMAIN s.out : /\ s.out[i].name \in WithNotes
                                             /\ s.out[i].solution = "none"}
  <2>0. /\ IsSession(s) /\ Control(c, s) /\ WalkOK(s, glpi, nextId)
        /\ faults \in Nat /\ s.shifts \in Nat
    BY <1>1, CallFacts DEF NotesInv, IsSession
  <2>1. CASE s.pc \notin Walks
    <3>1. s.out = <<>>
      BY <2>0, <2>1 DEF Control, Idle
    <3>2. hollow = {}
      BY <3>1
    <3> HIDE DEF hollow, s
    <3>3. Cardinality(hollow) = 0
      BY <3>2, FS_EmptySet
    <3> QED BY <2>0, <3>3 DEF hollow, s
  <2>2. CASE s.pc \in Walks
    <3>1. Paid(Poor(s, glpi, calls), faults + s.shifts)
      BY <1>1, <2>2 DEF NotesInv, WalkPaid, Lists
    <3>2. /\ IsFiniteSet(Hollow(s)) /\ Cardinality(Hollow(s)) <= Cardinality(Poor(s, glpi, calls))
      BY <3>1, FS_Subset DEF Poor, Paid
    <3> DEFINE f == [i \in hollow |-> s.out[i].id]
    <3>3. \A i \in hollow : s.out[i].id \in Nat
      <4>1. \A i \in DOMAIN s.out : s.out[i] \in Handed
        BY <2>0 DEF IsSession
      <4> QED BY <4>1 DEF Handed
    <3>4. f \in Injection(hollow, Hollow(s))
      <4>1. \A i \in hollow : f[i] \in Hollow(s)
        BY <3>3 DEF Hollow
      <4>2. \A i, j \in hollow : f[i] = f[j] => i = j
        BY <2>0 DEF WalkOK, InOrder
      <4>3. f \in [hollow -> Hollow(s)]
        BY <4>1
      <4> HIDE DEF hollow, f
      <4> QED BY <4>2, <4>3 DEF Injection, IsInjective
    <3> HIDE DEF hollow, f, s
    <3>5. /\ IsFiniteSet(hollow) /\ Cardinality(hollow) <= Cardinality(Hollow(s))
      BY <3>2, <3>4, FS_Injection
    <3>6. Cardinality(hollow) \in Nat /\ Cardinality(Hollow(s)) \in Nat
          /\ Cardinality(Poor(s, glpi, calls)) \in Nat
      BY <3>1, <3>2, <3>5, FS_CardinalityType DEF Paid
    <3> QED BY <2>0, <3>1, <3>2, <3>5, <3>6 DEF Paid, hollow, s
  <2> QED BY <2>1, <2>2
<1> QED
  BY <1>1, NotesInvariant, WalkInvariant, PTL

-----------------------------------------------------------------------------
(* The bootstrap: what it takes to seed twice *)

SeedNames == {SeedTickets[i].name : i \in DOMAIN SeedTickets}
Shown(row) == row.name \in SeedNames /\ Resolved(row)
\* A ticket of the seeding is resolved.
Seeded(g) == \E i \in DOMAIN g["Ticket"] : Shown(g["Ticket"][i])
Items(g, name) == {i \in DOMAIN g["KnowbaseItem"] : g["KnowbaseItem"][i].name = name}

\* The tickets that are not resolved and that no call is going to resolve.
InFlight(cs) ==
    {x \in Nat : \E c \in Callers : cs[c].pc \in {"solution", "close"} /\ cs[c].tid = x}
Lost(g, cs) ==
    {x \in Nat : \E i \in DOMAIN g["Ticket"] : g["Ticket"][i].id = x /\ ~Resolved(g["Ticket"][i])}
        \ InFlight(cs)
\* As many may be lost when the process ends.
Fallout == 1 + Cardinality(Admin)

Once(g, f) ==
    /\ \A i, j \in DOMAIN g["Ticket"] :
          /\ Shown(g["Ticket"][i]) /\ Shown(g["Ticket"][j])
          /\ g["Ticket"][i].name = g["Ticket"][j].name
          => i = j
    /\ \A k \in DOMAIN KbArticles : Paid(Items(g, KbArticles[k]), f + 1)

Foreign(s) == \A k \in DOMAIN s.tickets : s.tickets[k].name \notin SeedNames

\* What the seeding has in hand: nothing of it is there yet but the ticket
\* that is about to be closed.
Unseeded(b, g, f) ==
    /\ \A k \in DOMAIN b.tickets : b.tickets[k].name \in SeedNames
    /\ \A k, l \in DOMAIN b.tickets : b.tickets[k].name = b.tickets[l].name => k = l
    /\ \A k, l \in DOMAIN b.articles : b.articles[k] = b.articles[l] => k = l
    /\ b.pc \in {"solution", "close"} => b.tid \in Ids(g["Ticket"])
    /\ \A k \in DOMAIN b.tickets, i \in DOMAIN g["Ticket"] :
          Resolved(g["Ticket"][i]) /\ g["Ticket"][i].name = b.tickets[k].name =>
             b.pc = "close" /\ g["Ticket"][i].id = b.tid
    /\ \A k \in DOMAIN b.articles : Paid(Items(g, b.articles[k]), f)

\* The bootstrap's call: as long as it does not seed, a ticket of it is
\* resolved or the next seeding is paid for.
BootOK(b, g, f) ==
    /\ b.job = "seed" => Unseeded(b, g, f)
    /\ b.job # "seed" =>
          Seeded(g) \/ \A k \in DOMAIN KbArticles : Paid(Items(g, KbArticles[k]), f)
    /\ b.job = "inventory" /\ b.seen = {} => ~Seeded(g)

SeedInv ==
    /\ faults \in Nat /\ faults <= MaxFaults /\ scripts \in Nat
    /\ scripts = 0 =>
          /\ Once(glpi, faults)
          /\ BootOK(calls[Boot], glpi, faults)
          /\ Paid(Lost(glpi, calls), faults * Fallout)
          /\ \A c \in Callers : calls[c].shifts = 0
          /\ \A c \in Admin : Foreign(calls[c])
          /\ calls[Cli] = Idle
          /\ ~up => \A c \in Callers : calls[c] = Idle

\* No pack has a ticket of the seeding.
LEMMA PacksForeign ==
    ASSUME NEW p \in DOMAIN Packs, NEW i \in DOMAIN Packs[p]
    PROVE  Packs[p][i].name \notin SeedNames
<1> SUFFICES ASSUME NEW j \in DOMAIN SeedTickets, Packs[p][i].name = SeedTickets[j].name
             PROVE  FALSE
  BY DEF SeedNames
<1>1. Packs[p][i] \in Fixtures /\ SeedTickets[j] \in Fixtures
  BY DEF Fixtures
<1>2. Packs[p][i] = SeedTickets[j]
  BY <1>1, TitleAssumption
<1> QED
  BY <1>2, TitleAssumption

\* Two tickets of GLPI have two ids.
LEMMA IdsDiffer ==
    ASSUME WalkInv, NEW i \in DOMAIN glpi["Ticket"], NEW j \in DOMAIN glpi["Ticket"],
           glpi["Ticket"][i].id = glpi["Ticket"][j].id
    PROVE  i = j
<1>1. glpi["Ticket"] \in Seq(Row) /\ glpi["Ticket"][i].id \in Nat /\ glpi["Ticket"][j].id \in Nat
  BY TicketIds
<1>2. i \in Nat /\ j \in Nat
  BY <1>1, RowFacts
<1>3. i < j => glpi["Ticket"][i].id < glpi["Ticket"][j].id
  BY DEF WalkInv, StoreOK, Endpoint
<1>4. j < i => glpi["Ticket"][j].id < glpi["Ticket"][i].id
  BY DEF WalkInv, StoreOK, Endpoint
<1> QED
  BY <1>1, <1>2, <1>3, <1>4

LEMMA FalloutFacts ==
    /\ IsFiniteSet(Admin \cup {Boot}) /\ Cardinality(Admin \cup {Boot}) <= Fallout
    /\ Fallout \in Nat /\ Fallout >= 1
<1>1. Cardinality(Admin) \in Nat
  BY CallerAssumption, FS_CardinalityType
<1>2. IsFiniteSet(Admin \cup {Boot}) /\ Cardinality(Admin \cup {Boot}) <= Cardinality(Admin) + 1
  BY <1>1, CallerAssumption, OneMore
<1> QED
  BY <1>1, <1>2 DEF Fallout

\* Each fault pays for as many tickets as the end of the process costs.
LEMMA FalloutGrows ==
    ASSUME NEW n \in Nat, NEW m \in Nat
    PROVE  /\ n * Fallout \in Nat /\ m * Fallout \in Nat
           /\ n <= m => n * Fallout <= m * Fallout
           /\ n + 1 <= m => n * Fallout + Fallout <= m * Fallout
<1> DEFINE F == Fallout
<1>1. F \in Nat
  BY FalloutFacts
<1> HIDE DEF F
<1>2. n * F \in Nat /\ m * F \in Nat
  BY <1>1
<1>3. ASSUME n <= m PROVE n * F <= m * F
  <2> DEFINE d == m - n
  <2>1. d \in Nat /\ m = n + d
    BY <1>3
  <2> HIDE DEF d
  <2>2. (n + d) * F = n * F + d * F /\ d * F \in Nat
    BY <1>1, <2>1
  <2> QED BY <1>2, <2>1, <2>2
<1>4. ASSUME n + 1 <= m PROVE n * F + F <= m * F
  <2> DEFINE d == m - (n + 1)
  <2>1. d \in Nat /\ m = (n + 1) + d
    BY <1>4
  <2> HIDE DEF d
  <2>2. ((n + 1) + d) * F = n * F + F + d * F /\ d * F \in Nat
    BY <1>1, <2>1
  <2> QED BY <1>1, <1>2, <2>1, <2>2
<1> QED
  BY <1>2, <1>3, <1>4 DEF F

\* One more ticket is lost by one more fault.
LEMMA LostPaid ==
    ASSUME NEW A, NEW B, NEW n \in Nat, NEW m \in Nat, Paid(A, n * Fallout),
           \/ B \subseteq A /\ n <= m
           \/ \E x : B \subseteq A \cup {x} /\ n + 1 <= m
    PROVE  Paid(B, m * Fallout)
<1>1. /\ n * Fallout \in Nat /\ m * Fallout \in Nat
      /\ n <= m => n * Fallout <= m * Fallout
      /\ n + 1 <= m => n * Fallout + 1 <= m * Fallout
  BY FalloutGrows, FalloutFacts
<1>2. Grown(A, B, n * Fallout, m * Fallout)
  <2>1. CASE B \subseteq A /\ n <= m
    BY <1>1, <2>1 DEF Grown
  <2>2. CASE \E x : B \subseteq A \cup {x} /\ n + 1 <= m
    BY <1>1, <2>2 DEF Grown
  <2> QED BY <2>1, <2>2
<1> QED
  BY <1>2, GrownPaid

\* Nothing of the seeding changes in GLPI.
Harmless(g, h) ==
    /\ h["KnowbaseItem"] = g["KnowbaseItem"]
    /\ Ids(g["Ticket"]) \subseteq Ids(h["Ticket"])
    /\ \A i \in DOMAIN h["Ticket"] : Shown(h["Ticket"][i]) =>
          i \in DOMAIN g["Ticket"] /\ h["Ticket"][i] = g["Ticket"][i]
    /\ \A i \in DOMAIN g["Ticket"] : Shown(g["Ticket"][i]) =>
          i \in DOMAIN h["Ticket"] /\ h["Ticket"][i] = g["Ticket"][i]

LEMMA PaidMore ==
    ASSUME NEW A, NEW n \in Nat, NEW m \in Nat, n <= m, Paid(A, n)
    PROVE  Paid(A, m)
BY GrownPaid DEF Grown

LEMMA HarmlessKeeps ==
    ASSUME NEW g, NEW h, Harmless(g, h), NEW f \in Nat, NEW e \in Nat, f <= e
    PROVE  /\ Seeded(g) <=> Seeded(h)
           /\ \A name : Items(h, name) = Items(g, name)
           /\ Once(g, f) => Once(h, e)
           /\ \A b : BootOK(b, g, f) => BootOK(b, h, e)
           /\ \A b : Unseeded(b, g, f) => Unseeded(b, h, e)
<1>1. Seeded(g) <=> Seeded(h)
  BY DEF Seeded, Harmless
<1>2. \A name : Items(h, name) = Items(g, name)
  BY DEF Items, Harmless
<1>3. \A name : Paid(Items(g, name), f) => Paid(Items(h, name), e)
  BY <1>2, PaidMore
<1>4. \A name : Paid(Items(g, name), f + 1) => Paid(Items(h, name), e + 1)
  <2>1. f + 1 \in Nat /\ e + 1 \in Nat /\ f + 1 <= e + 1
    OBVIOUS
  <2> QED BY <1>2, <2>1, PaidMore
<1>5. Once(g, f) => Once(h, e)
  <2>1. ASSUME Once(g, f), NEW i \in DOMAIN h["Ticket"], NEW j \in DOMAIN h["Ticket"],
               Shown(h["Ticket"][i]), Shown(h["Ticket"][j]),
               h["Ticket"][i].name = h["Ticket"][j].name
        PROVE  i = j
    BY <2>1 DEF Once, Harmless
  <2> QED BY <1>4, <2>1 DEF Once
<1>6. ASSUME NEW b, Unseeded(b, g, f) PROVE Unseeded(b, h, e)
  <2>1. \A k \in DOMAIN b.articles : Paid(Items(h, b.articles[k]), e)
    BY <1>3, <1>6 DEF Unseeded
  <2>2. ASSUME NEW k \in DOMAIN b.tickets, NEW i \in DOMAIN h["Ticket"],
               Resolved(h["Ticket"][i]), h["Ticket"][i].name = b.tickets[k].name
        PROVE  b.pc = "close" /\ h["Ticket"][i].id = b.tid
    <3>1. Shown(h["Ticket"][i])
      BY <1>6, <2>2 DEF Unseeded, Shown
    <3>2. i \in DOMAIN g["Ticket"] /\ h["Ticket"][i] = g["Ticket"][i]
      BY <3>1 DEF Harmless
    <3> QED BY <1>6, <2>2, <3>2 DEF Unseeded
  <2>3. b.pc \in {"solution", "close"} => b.tid \in Ids(h["Ticket"])
    BY <1>6 DEF Unseeded, Harmless
  <2> QED BY <1>6, <2>1, <2>2, <2>3 DEF Unseeded
<1>7. ASSUME NEW b, BootOK(b, g, f) PROVE BootOK(b, h, e)
  BY <1>1, <1>3, <1>6, <1>7 DEF BootOK
<1> QED
  BY <1>1, <1>2, <1>5, <1>6, <1>7

LEMMA HarmlessSame ==
    ASSUME NEW g, NEW h, h["KnowbaseItem"] = g["KnowbaseItem"], h["Ticket"] = g["Ticket"]
    PROVE  Harmless(g, h)
BY DEF Harmless

LEMMA ChargeBound ==
    ASSUME faults \in Nat, faults <= MaxFaults, NEW o, Charge(o)
    PROVE  /\ faults' \in Nat /\ faults' <= MaxFaults /\ faults <= faults'
           /\ o # "ok" => faults + 1 <= faults'
BY DEF Charge

LEMMA SeedStep ==
    ASSUME WalkInv, SeedInv, scripts = 0, scripts' = 0, up',
           NEW c \in Callers \ {Cli}, NEW t, Put(c, t),
           faults' \in Nat, faults' <= MaxFaults,
           Once(glpi', faults'), Paid(Lost(glpi', calls'), faults' * Fallout),
           c = Boot => BootOK(t, glpi', faults'),
           c # Boot => BootOK(calls[Boot], glpi', faults'),
           t.shifts = 0, c \in Admin => Foreign(t)
    PROVE  SeedInv'
<1>1. /\ calls'[c] = t
      /\ \A d \in Callers : d # c => calls'[d] = calls[d]
  BY PutFacts DEF WalkInv
<1>2. BootOK(calls'[Boot], glpi', faults')
  BY <1>1, CallerAssumption
<1>3. /\ \A d \in Callers : calls'[d].shifts = 0
      /\ \A d \in Admin : Foreign(calls'[d])
      /\ calls'[Cli] = Idle
  BY <1>1, CallerAssumption DEF SeedInv
<1> QED
  BY <1>2, <1>3 DEF SeedInv

\* A step of a call that has no ticket in flight leaves none behind.
LEMMA LostKept ==
    ASSUME WalkInv, SeedInv, scripts = 0, NEW c \in Callers, NEW t, Put(c, t),
           glpi'["Ticket"] = glpi["Ticket"], calls[c].pc \notin {"solution", "close"},
           faults' \in Nat, faults <= faults'
    PROVE  Paid(Lost(glpi', calls'), faults' * Fallout)
<1>1. \A d \in Callers : d # c => calls'[d] = calls[d]
  BY PutFacts DEF WalkInv
<1>2. InFlight(calls) \subseteq InFlight(calls')
  BY <1>1 DEF InFlight
<1>3. Lost(glpi', calls') \subseteq Lost(glpi, calls)
  BY <1>2 DEF Lost
<1> QED
  BY <1>3, LostPaid DEF SeedInv

LEMMA QuietStep ==
    ASSUME WalkInv, SeedInv, scripts = 0, scripts' = 0, up',
           NEW c \in Callers \ {Cli}, NEW t, Put(c, t), glpi' = glpi,
           faults' \in Nat, faults' <= MaxFaults, faults <= faults',
           calls[c].pc \notin {"solution", "close"},
           c = Boot => BootOK(t, glpi, faults'),
           t.shifts = 0, c \in Admin => Foreign(t)
    PROVE  SeedInv'
<1>1. Paid(Lost(glpi', calls'), faults' * Fallout)
  BY LostKept
<1>2. Harmless(glpi, glpi')
  BY HarmlessSame
<1>3. Once(glpi', faults') /\ BootOK(calls[Boot], glpi', faults')
  BY <1>2, HarmlessKeeps DEF SeedInv
<1> QED
  BY <1>1, <1>3, SeedStep

\* What an inventory that shows nothing means when the cap hides nothing:
\* before the first resolved ticket there are only tickets that were lost.
LEMMA EmptyInventory ==
    ASSUME WalkInv, SeedInv, scripts = 0, ~up, MaxTotal > MaxFaults * Fallout,
           Wanted("Ticket") = {}
    PROVE  ~Seeded(glpi)
<1> DEFINE all == glpi["Ticket"]
<1>1. /\ all \in Seq(Row) /\ \A i \in DOMAIN all : all[i].id \in Nat
      /\ DOMAIN all = 1 .. Len(all) /\ Len(all) \in Nat /\ MaxTotal \in Nat
  BY TicketIds
<1>2. \A i, j \in DOMAIN all : all[i].id = all[j].id => i = j
  BY IdsDiffer
<1>3. \A j \in DOMAIN all : j <= MaxTotal => ~Resolved(all[j])
  BY DEF Wanted
<1>4. InFlight(calls) = {}
  <2>1. \A c \in Callers : calls[c] = Idle
    BY DEF SeedInv
  <2> QED BY <2>1, FreshCalls DEF InFlight
<1>5. Paid(Lost(glpi, calls), faults * Fallout) /\ faults \in Nat /\ faults <= MaxFaults
  BY DEF SeedInv
<1> SUFFICES ASSUME NEW i \in DOMAIN all, Resolved(all[i]) PROVE FALSE
  BY DEF Seeded, Shown
<1>6. 1 .. MaxTotal \subseteq DOMAIN all
  <2>1. i > MaxTotal
    BY <1>1, <1>3
  <2> HIDE DEF all
  <2> QED BY <1>1, <2>1
<1> DEFINE S == 1 .. MaxTotal
           L == Lost(glpi, calls)
           f == [j \in S |-> all[j].id]
<1>7. f \in Injection(S, L)
  <2>1. \A j \in S : f[j] \in L
    BY <1>1, <1>3, <1>4, <1>6 DEF Lost
  <2>2. \A j, k \in S : f[j] = f[k] => j = k
    BY <1>2, <1>6
  <2>3. f \in [S -> L]
    BY <2>1
  <2> HIDE DEF S, L, f
  <2> QED BY <2>2, <2>3 DEF Injection, IsInjective
<1> HIDE DEF L, f
<1>8. Cardinality(S) <= Cardinality(L) /\ Cardinality(S) = MaxTotal
  BY <1>1, <1>5, <1>7, FS_Injection, FS_Interval DEF Paid, L
<1>9. Cardinality(L) <= faults * Fallout /\ Cardinality(L) \in Nat
  BY <1>5, FS_CardinalityType DEF Paid, L
<1>10. faults * Fallout <= MaxFaults * Fallout /\ faults * Fallout \in Nat /\ MaxFaults * Fallout \in Nat
  BY <1>5, FalloutGrows
<1> QED
  BY <1>1, <1>8, <1>9, <1>10

LEMMA ForeignPack ==
    ASSUME WalkInv PROVE Foreign([Idle EXCEPT !.pc = "category", !.job = "demo", !.tickets = next_pack])
<1> DEFINE s == [Idle EXCEPT !.pc = "category", !.job = "demo", !.tickets = next_pack]
<1>1. s.tickets = next_pack
  BY DEF Idle
<1>2. Len(Packs) \in Nat \ {0} /\ call_count \in Nat /\ DOMAIN Packs = 1 .. Len(Packs)
  BY FixtureAssumption DEF WalkInv
<1>3. (call_count % Len(Packs)) + 1 \in DOMAIN Packs
  BY <1>2
<1> QED
  BY <1>1, <1>3, PacksForeign DEF Foreign, next_pack

LEMMA StartsSeedOnce ==
    ASSUME WalkInv, SeedInv, scripts' = 0, MaxTotal > MaxFaults * Fallout,
           \/ Start \/ PollOrImport \/ RunScript
           \/ \E i \in DOMAIN glpi["Ticket"] : GetOneTicket(i)
           \/ \E c \in Callers : SeedDemo(c)
    PROVE  SeedInv'
<1>0. faults \in Nat /\ faults <= MaxFaults /\ scripts \in Nat
  BY DEF SeedInv
<1>1. CASE RunScript
  BY <1>0, <1>1 DEF RunScript
<1>2. CASE Start
  <2> DEFINE t == Walk("inventory", "Ticket")
  <2>1. /\ Put(Boot, t) /\ UNCHANGED <<glpi, faults, scripts>> /\ up' /\ ~up
    BY <1>2 DEF Start
  <2>2. t.shifts = 0 /\ t.job = "inventory" /\ t.seen = Wanted("Ticket")
    BY DEF Walk, Idle
  <2> HIDE DEF t
  <2>3. calls[Boot] = Idle /\ Boot \in Callers \ {Cli} /\ Boot \notin Admin
    BY <2>1, CallerAssumption DEF SeedInv
  <2>4. BootOK(Idle, glpi, faults)
    BY <2>1, <2>3 DEF SeedInv
  <2>5. BootOK(t, glpi, faults')
    <3>1. Idle.job # "seed"
      BY DEF Idle
    <3>2. t.seen = {} => ~Seeded(glpi)
      BY <2>1, <2>2, EmptyInventory
    <3> QED BY <2>1, <2>2, <2>4, <3>1, <3>2 DEF BootOK
  <2>6. calls[Boot].pc \notin {"solution", "close"}
    BY <2>3, FreshCalls
  <2> QED BY <1>0, <2>1, <2>2, <2>3, <2>5, <2>6, QuietStep
<1>3. ASSUME NEW c \in Callers \ {Boot, Cli}, NEW t, Put(c, t), up, up' = up,
             UNCHANGED <<glpi, faults, scripts>>, calls[c].pc = "idle",
             t.shifts = 0, c \in Admin => Foreign(t)
      PROVE  SeedInv'
  BY <1>0, <1>3, QuietStep
<1>4. Poll \in Callers \ {Boot, Cli} /\ Poll \notin Admin
  BY CallerAssumption
<1>5. ASSUME NEW job, NEW e, StartWalk(job, e) PROVE SeedInv'
  BY <1>3, <1>4, <1>5, FreshCalls DEF StartWalk, Free, seedVars
<1>6. ASSUME NEW i \in DOMAIN glpi["Ticket"], GetOneTicket(i) PROVE SeedInv'
  <2> DEFINE t == [Idle EXCEPT !.pc = "rows", !.job = "get", !.short = TRUE,
                               !.page = {glpi["Ticket"][i]}]
  <2>1. t.shifts = 0
    BY DEF Idle
  <2>2. Put(Poll, t) /\ up /\ UNCHANGED <<glpi, faults, seedVars>> /\ calls[Poll].pc = "idle"
    BY <1>6 DEF GetOneTicket, GetTicket, Free
  <2> HIDE DEF t
  <2> QED BY <1>3, <1>4, <2>1, <2>2 DEF seedVars
<1>7. ASSUME NEW c \in Callers, SeedDemo(c) PROVE SeedInv'
  <2> DEFINE t == [Idle EXCEPT !.pc = "category", !.job = "demo", !.tickets = next_pack]
  <2>1. t.shifts = 0 /\ Foreign(t)
    BY ForeignPack DEF Idle
  <2>2. /\ Put(c, t) /\ up /\ UNCHANGED <<glpi, faults, scripts, up>> /\ calls[c].pc = "idle"
        /\ c \in Admin
    BY <1>7 DEF SeedDemo, Free
  <2>3. c \in Callers \ {Boot, Cli}
    BY <2>2, CallerAssumption
  <2> HIDE DEF t
  <2> QED BY <1>3, <2>1, <2>2, <2>3
<1> QED
  BY <1>1, <1>2, <1>5, <1>6, <1>7 DEF PollOrImport

\* Who is at work when the script is not.
LEMMA AtWork ==
    ASSUME WalkInv, SeedInv, scripts = 0, NEW c \in Callers, calls[c].pc # "idle"
    PROVE  /\ up /\ c \in Callers \ {Cli} /\ IsSession(calls[c]) /\ Control(c, calls[c])
           /\ calls[c].shifts = 0 /\ calls[c].pc \notin {"purge", "delete"}
           /\ calls[c].pc \in Walks => /\ c \in {Poll, Boot} /\ c \notin Admin
                                       /\ calls[c].job # "seed"
           /\ calls[c].pc \notin Walks => \/ c = Boot /\ c \notin Admin /\ calls[c].job = "seed"
                                          \/ c \in Admin /\ c # Boot /\ calls[c].job = "demo"
           /\ c \in Admin => Foreign(calls[c])
<1>1. Idle.pc = "idle"
  BY FreshCalls
<1>2. up /\ c # Cli /\ calls[c].shifts = 0 /\ (c \in Admin => Foreign(calls[c]))
  BY <1>1 DEF SeedInv
<1>3. IsSession(calls[c]) /\ Control(c, calls[c])
  BY CallFacts
<1>4. c = Poll \/ c = Boot \/ c \in Admin
  BY <1>2, CallerAssumption
<1>5. /\ Boot \notin Admin /\ Poll \notin Admin /\ Poll # Boot /\ Cli \notin Admin
      /\ Poll # Cli /\ Boot # Cli
  BY CallerAssumption
<1>6. calls[c].job \in JobsOf(c)
  BY <1>3 DEF Control
<1>7. CASE calls[c].pc \in Walks
  <2>1. calls[c].job \in {"poll", "import", "get", "inventory", "report"}
    BY <1>3, <1>7 DEF Control
  <2>2. c \in {Poll, Boot}
    BY <1>2, <1>4, <1>5, <1>6, <2>1 DEF JobsOf
  <2> QED BY <1>2, <1>3, <1>5, <1>7, <2>1, <2>2 DEF Walks
<1>8. CASE calls[c].pc \notin Walks
  <2>1. /\ calls[c].job \in {"seed", "script", "demo"}
        /\ calls[c].pc \in {"purge", "delete"} => calls[c].job = "script"
    BY <1>3, <1>8 DEF Control
  <2>2. \/ c = Boot /\ calls[c].job = "seed"
        \/ c \in Admin /\ calls[c].job = "demo"
    BY <1>2, <1>4, <1>5, <1>6, <2>1 DEF JobsOf
  <2> QED BY <1>2, <1>3, <1>5, <1>8, <2>1, <2>2
<1> QED
  BY <1>7, <1>8

\* The bootstrap's call goes on with t, which seeds no more than it does.
LEMMA BootRests ==
    ASSUME WalkInv, SeedInv, scripts = 0, NEW t, faults' \in Nat, faults <= faults',
           calls[Boot].job # "seed", t.job # "seed",
           t.job = "inventory" => calls[Boot].job = "inventory" /\ t.seen = calls[Boot].seen
    PROVE  BootOK(t, glpi, faults')
<1>1. Harmless(glpi, glpi)
  BY HarmlessSame
<1>2. BootOK(calls[Boot], glpi, faults')
  BY <1>1, HarmlessKeeps DEF SeedInv
<1> QED
  BY <1>2 DEF BootOK

\* A seeding that ends by a fault has paid for the next one.
LEMMA BootStops ==
    ASSUME NEW t, NEW g, NEW f \in Nat, NEW e \in Nat, f + 1 <= e, Once(g, f),
           t.job \notin {"seed", "inventory"}
    PROVE  BootOK(t, g, e)
<1>1. \A k \in DOMAIN KbArticles : Paid(Items(g, KbArticles[k]), e)
  <2>1. f + 1 \in Nat
    OBVIOUS
  <2> QED BY <2>1, PaidMore DEF Once
<1> QED
  BY <1>1 DEF BootOK

\* The seeding goes on with t, with the same in hand.
LEMMA BootGoesOn ==
    ASSUME WalkInv, SeedInv, scripts = 0, NEW t, faults' \in Nat, faults <= faults',
           calls[Boot].job = "seed", t.job = "seed",
           t.tickets = calls[Boot].tickets, t.articles = calls[Boot].articles,
           calls[Boot].pc # "close", t.pc \notin {"solution", "close"}
    PROVE  BootOK(t, glpi, faults')
<1>1. Harmless(glpi, glpi)
  BY HarmlessSame
<1>2. Unseeded(calls[Boot], glpi, faults)
  BY DEF SeedInv, BootOK
<1>3. Unseeded(calls[Boot], glpi, faults')
  BY <1>1, <1>2, HarmlessKeeps DEF SeedInv
<1> QED
  BY <1>3 DEF BootOK, Unseeded

LEMMA PageEndKeeps ==
    ASSUME NEW u, DOMAIN u = DOMAIN Idle
    PROVE  /\ PageEnd(u).job = u.job /\ PageEnd(u).seen = u.seen
           /\ PageEnd(u).shifts = u.shifts
<1>1. Listed(u).job = u.job /\ Listed(u).seen = u.seen /\ Listed(u).shifts = u.shifts
  BY DEF Listed, Idle
<1>2. CASE PageEnd(u) = u
  BY <1>2
<1>3. CASE PageEnd(u) = Listed(u)
  BY <1>1, <1>3
<1>4. CASE PageEnd(u) = [u EXCEPT !.pc = "page", !.offset = NextOffset(u)]
  BY <1>4 DEF Idle
<1> QED
  BY <1>2, <1>3, <1>4 DEF PageEnd

LEMMA WalksSeedOnce ==
    ASSUME WalkInv, SeedInv, scripts = 0, NEW c \in Callers, ContinueWalk(c)
    PROVE  SeedInv'
<1> DEFINE s == calls[c]
<1>0. /\ s.pc \in {"page", "rows"} /\ UNCHANGED <<glpi, scripts, up>>
      /\ faults \in Nat /\ faults <= MaxFaults
  BY DEF ContinueWalk, WalkStep, GetPage, GetPageFails, HydrateTicket, seedVars, SeedInv
<1>1. /\ up /\ c \in Callers \ {Cli} /\ IsSession(s) /\ s.shifts = 0
      /\ s.job # "seed" /\ c \notin Admin /\ s.pc \notin {"solution", "close"}
  BY <1>0, AtWork DEF Walks
<1>2. ASSUME NEW t, Put(c, t), faults' \in Nat, faults' <= MaxFaults, faults <= faults',
             \/ t = Idle
             \/ t.job = s.job /\ t.seen = s.seen /\ t.shifts = s.shifts
      PROVE  SeedInv'
  <2>1. Idle.job = "none" /\ Idle.shifts = 0
    BY DEF Idle
  <2>2. /\ t.shifts = 0 /\ t.job # "seed"
        /\ t.job = "inventory" => s.job = "inventory" /\ t.seen = s.seen
    BY <1>1, <1>2, <2>1
  <2>3. c = Boot => BootOK(t, glpi, faults')
    BY <1>1, <1>2, <2>2, BootRests
  <2> QED BY <1>0, <1>1, <1>2, <2>2, <2>3, QuietStep
<1>3. ASSUME NEW u, Put(c, PageEnd(u)), DOMAIN u = DOMAIN Idle,
             faults' \in Nat, faults' <= MaxFaults, faults <= faults',
             u.job = s.job, u.seen = s.seen, u.shifts = s.shifts
      PROVE  SeedInv'
  <2>1. PageEnd(u).job = s.job /\ PageEnd(u).seen = s.seen /\ PageEnd(u).shifts = s.shifts
    BY <1>3, PageEndKeeps
  <2> QED BY <1>2, <1>3, <2>1
<1>4. CASE GetPage(c)
  <2> DEFINE rows == PageAt(glpi[s.endpoint], s.offset)
             u == Read(s, rows)
  <2>1. Put(c, PageEnd(u)) /\ faults' = faults
    BY <1>4 DEF GetPage
  <2>2. DOMAIN u = DOMAIN Idle /\ u.job = s.job /\ u.seen = s.seen /\ u.shifts = s.shifts
    BY <1>1 DEF Read, IsSession, Idle
  <2> HIDE DEF u, s
  <2> QED BY <1>0, <1>3, <2>1, <2>2
<1>5. CASE GetPageFails(c)
  <2>1. Put(c, Idle) /\ faults' \in Nat /\ faults' <= MaxFaults /\ faults <= faults'
    BY <1>0, <1>5, ChargeBound DEF GetPageFails
  <2> QED BY <1>2, <2>1
<1>6. CASE HydrateTicket(c)
  <2> DEFINE row == First(s.page)
             u(o) == [s EXCEPT !.page = @ \ {row}, !.out = Append(@,
                        HandedOver(row, IF o = "ok" THEN SolutionOf(row.id) ELSE "none"))]
  <2>1. PICK o \in Outcome : Put(c, PageEnd(u(o))) /\ Charge(o)
    BY <1>6 DEF HydrateTicket
  <2>2. /\ DOMAIN u(o) = DOMAIN Idle /\ u(o).job = s.job /\ u(o).seen = s.seen
        /\ u(o).shifts = s.shifts
    BY <1>1 DEF IsSession, Idle
  <2>3. faults' \in Nat /\ faults' <= MaxFaults /\ faults <= faults'
    BY <1>0, <2>1, ChargeBound
  <2> HIDE DEF u, s
  <2> QED BY <1>3, <2>1, <2>2, <2>3
<1> QED
  BY <1>4, <1>5, <1>6 DEF ContinueWalk, WalkStep

LEMMA DeliverSeedsOnce ==
    ASSUME WalkInv, SeedInv, scripts = 0, NEW c \in Callers, Deliver(c)
    PROVE  SeedInv'
<1> DEFINE s == calls[c]
           t == IF s.job = "inventory" THEN AfterInventory(s) ELSE Idle
<1>0. /\ s.pc = "listed" /\ Put(c, t) /\ UNCHANGED <<glpi, scripts, up, faults>>
      /\ faults \in Nat /\ faults <= MaxFaults
  BY DEF Deliver, seedVars, SeedInv
<1>1. /\ up /\ c \in Callers \ {Cli} /\ IsSession(s) /\ s.shifts = 0
      /\ s.job # "seed" /\ c \notin Admin /\ Control(c, s)
  BY <1>0, AtWork DEF Walks
<1>2. /\ Idle.job = "none" /\ Idle.shifts = 0
      /\ Script("seed", "categories").shifts = 0 /\ Script("seed", "categories").job = "seed"
      /\ Script("seed", "categories").pc = "categories"
      /\ Script("seed", "categories").tickets = SeedTickets
      /\ Script("seed", "categories").articles = KbArticles
  BY DEF Idle, Script
<1>3. \/ t = Idle
      \/ t = Script("seed", "categories") /\ s.job = "inventory" /\ s.out = <<>>
  BY DEF AfterInventory
<1> HIDE DEF t
<1>4. CASE t = Idle
  <2>1. c = Boot => BootOK(t, glpi, faults')
    BY <1>0, <1>1, <1>2, <1>4, BootRests
  <2> QED BY <1>0, <1>1, <1>2, <1>4, <2>1, QuietStep
<1>5. CASE t = Script("seed", "categories") /\ s.job = "inventory" /\ s.out = <<>>
  <2>1. s.seen = {}
    <3>1. IsFiniteSet(s.seen) /\ Cardinality(s.seen \ Ids(s.out)) <= 0
      BY <1>0, <1>1, CallFacts DEF WalkOK, Thorough, Missed
    <3>2. s.seen \ Ids(s.out) = s.seen
      BY <1>5 DEF Ids
    <3>3. Cardinality(s.seen) \in Nat /\ Cardinality(s.seen) <= 0
      BY <3>1, <3>2, FS_CardinalityType
    <3>4. Cardinality(s.seen) = 0
      BY <3>3
    <3> QED BY <3>1, <3>4, FS_EmptySet
  <2>2. c = Boot => ~Seeded(glpi) /\ \A k \in DOMAIN KbArticles : Paid(Items(glpi, KbArticles[k]), faults)
    BY <1>5, <2>1 DEF SeedInv, BootOK
  <2>3. \A k \in DOMAIN SeedTickets : SeedTickets[k] \in Fixtures /\ SeedTickets[k].name \in SeedNames
    BY DEF Fixtures, SeedNames
  <2>4. \A k, l \in DOMAIN SeedTickets : SeedTickets[k].name = SeedTickets[l].name => k = l
    BY <2>3, TitleAssumption
  <2>5. c = Boot => Unseeded(t, glpi, faults)
    BY <1>2, <1>5, <2>2, <2>3, <2>4, TitleAssumption DEF Unseeded, Seeded, Shown
  <2>6. c = Boot => BootOK(t, glpi, faults')
    BY <1>0, <1>2, <1>5, <2>5 DEF BootOK
  <2> QED BY <1>0, <1>1, <1>2, <1>5, <2>6, QuietStep
<1> QED
  BY <1>3, <1>4, <1>5

LEMMA CategoriesSeedOnce ==
    ASSUME WalkInv, SeedInv, scripts = 0, NEW c \in Callers,
           \/ ListCategories(c) \/ EnsureCategory(c)
           \/ \E k \in Categories : CreateCategory(c, k)
    PROVE  SeedInv'
<1> DEFINE s == calls[c]
<1>0. /\ s.pc \in {"categories", "category", "newcategory"} /\ UNCHANGED <<glpi, scripts, up>>
      /\ faults \in Nat /\ faults <= MaxFaults /\ Once(glpi, faults)
  BY DEF ListCategories, EnsureCategory, CreateCategory, seedVars, SeedInv
<1>1. /\ up /\ c \in Callers \ {Cli} /\ IsSession(s) /\ s.shifts = 0 /\ Control(c, s)
      /\ \/ c = Boot /\ c \notin Admin /\ s.job = "seed"
         \/ c \in Admin /\ c # Boot /\ s.job = "demo"
      /\ c \in Admin => Foreign(s)
  BY <1>0, AtWork DEF Walks
<1>2. ASSUME NEW t, Put(c, t), faults' \in Nat, faults' <= MaxFaults, faults <= faults',
             \/ t = Idle /\ faults + 1 <= faults'
             \/ /\ t.job = s.job /\ t.tickets = s.tickets /\ t.articles = s.articles
                /\ t.shifts = s.shifts /\ t.pc \notin {"solution", "close"}
      PROVE  SeedInv'
  <2>1. Idle.job = "none" /\ Idle.shifts = 0 /\ Foreign(Idle)
    BY DEF Idle, Foreign
  <2>2. t.shifts = 0 /\ (c \in Admin => Foreign(t))
    BY <1>1, <1>2, <2>1 DEF Foreign
  <2>3. ASSUME c = Boot PROVE BootOK(t, glpi, faults')
    <3>1. CASE t = Idle /\ faults + 1 <= faults'
      BY <1>0, <1>2, <2>1, <3>1, BootStops
    <3>2. CASE /\ t.job = s.job /\ t.tickets = s.tickets /\ t.articles = s.articles
               /\ t.pc \notin {"solution", "close"}
      BY <1>0, <1>1, <1>2, <2>3, <3>2, BootGoesOn
    <3> QED BY <1>2, <3>1, <3>2
  <2> QED BY <1>0, <1>1, <1>2, <2>2, <2>3, QuietStep
<1>3. CASE ListCategories(c)
  <2> DEFINE missing == {k \in s.missing : ~Exists(k)}
             more == [s EXCEPT !.missing = missing,
                               !.pc = IF missing = {} THEN "article" ELSE "newcategory"]
  <2>1. PICK o \in {"ok", "refused"} : Charge(o) /\ Put(c, IF o = "ok" THEN more ELSE Idle)
    BY <1>3 DEF ListCategories
  <2>2. /\ faults' \in Nat /\ faults' <= MaxFaults /\ faults <= faults'
        /\ o # "ok" => faults + 1 <= faults'
    BY <1>0, <2>1, ChargeBound
  <2>3. /\ more.job = s.job /\ more.tickets = s.tickets /\ more.articles = s.articles
        /\ more.shifts = s.shifts /\ more.pc \notin {"solution", "close"}
    BY <1>1 DEF IsSession, Idle
  <2> HIDE DEF more, s
  <2> QED BY <1>2, <2>1, <2>2, <2>3
<1>4. CASE EnsureCategory(c)
  <2> DEFINE k == Head(s.tickets).category
             more == [s EXCEPT !.pc = "newcategory", !.missing = {k}]
             on == [s EXCEPT !.pc = "ticket"]
  <2>1. (Put(c, more) \/ Put(c, on)) /\ (faults' = faults \/ \E o \in {"ok", "refused"} : Charge(o))
    BY <1>4 DEF EnsureCategory
  <2>2. faults' \in Nat /\ faults' <= MaxFaults /\ faults <= faults'
    BY <1>0, <2>1, ChargeBound
  <2>3. /\ more.job = s.job /\ more.tickets = s.tickets /\ more.articles = s.articles
        /\ more.shifts = s.shifts /\ more.pc = "newcategory"
        /\ on.job = s.job /\ on.tickets = s.tickets /\ on.articles = s.articles
        /\ on.shifts = s.shifts /\ on.pc = "ticket"
    BY <1>1 DEF IsSession, Idle
  <2> HIDE DEF more, on, s
  <2> QED BY <1>2, <2>1, <2>2, <2>3
<1>5. ASSUME NEW k \in Categories, CreateCategory(c, k) PROVE SeedInv'
  <2> DEFINE rest == s.missing \ {k}
             dropped == [s EXCEPT !.pc = "ticket", !.missing = {}]
             on == [s EXCEPT !.missing = rest,
                             !.pc = IF rest = {} THEN "article" ELSE "newcategory"]
  <2>1. PICK o \in Outcome :
            /\ Charge(o)
            /\ Put(c, CASE s.job = "demo" -> dropped
                        [] s.job # "demo" /\ Answered(o) -> on
                        [] OTHER -> Idle)
    BY <1>5 DEF CreateCategory
  <2>2. /\ faults' \in Nat /\ faults' <= MaxFaults /\ faults <= faults'
        /\ o # "ok" => faults + 1 <= faults'
    BY <1>0, <2>1, ChargeBound
  <2>3. /\ on.job = s.job /\ on.tickets = s.tickets /\ on.articles = s.articles
        /\ on.shifts = s.shifts /\ on.pc \notin {"solution", "close"}
        /\ dropped.job = s.job /\ dropped.tickets = s.tickets /\ dropped.articles = s.articles
        /\ dropped.shifts = s.shifts /\ dropped.pc = "ticket"
    BY <1>1 DEF IsSession, Idle
  <2>4. Put(c, dropped) \/ Put(c, on) \/ (Put(c, Idle) /\ o # "ok")
    <3> HIDE DEF dropped, on
    <3> QED BY <2>1 DEF Answered
  <2> HIDE DEF dropped, on, s
  <2> QED BY <1>2, <2>2, <2>3, <2>4
<1> QED
  BY <1>3, <1>4, <1>5

LEMMA TailParts ==
    ASSUME NEW S, NEW q \in Seq(S), q # <<>>
    PROVE  /\ 1 \in DOMAIN q /\ Head(q) = q[1]
           /\ \A k \in DOMAIN Tail(q) : k + 1 \in DOMAIN q /\ k + 1 # 1 /\ Tail(q)[k] = q[k + 1]
           /\ \A k, l \in DOMAIN Tail(q) : k + 1 = l + 1 => k = l
<1>1. DOMAIN q = 1 .. Len(q) /\ Len(q) \in Nat /\ Len(q) # 0 /\ Head(q) = q[1]
  OBVIOUS
<1>2. Tail(q) \in Seq(S) /\ Len(Tail(q)) = Len(q) - 1
  OBVIOUS
<1>3. DOMAIN Tail(q) = 1 .. Len(q) - 1
  BY <1>2
<1>4. \A k \in 1 .. Len(q) - 1 : Tail(q)[k] = q[k + 1]
  OBVIOUS
<1> QED
  BY <1>1, <1>3, <1>4

\* An article more.
LEMMA ArticlesSeedOnce ==
    ASSUME WalkInv, SeedInv, scripts = 0, NEW c \in Callers, CreateArticle(c)
    PROVE  SeedInv'
<1> DEFINE s == calls[c]
           rest == [s EXCEPT !.articles = Tail(@),
                             !.pc = IF Len(s.articles) = 1 THEN "ticket" ELSE "article"]
           old == glpi["KnowbaseItem"]
           new == glpi'["KnowbaseItem"]
           name == Head(s.articles)
<1>0. /\ s.pc = "article" /\ UNCHANGED <<scripts, up>>
      /\ faults \in Nat /\ faults <= MaxFaults /\ Once(glpi, faults)
  BY DEF CreateArticle, SeedInv
<1>1. /\ up /\ c \in Callers \ {Cli} /\ IsSession(s) /\ s.shifts = 0 /\ Control(c, s)
      /\ c = Boot /\ c \notin Admin /\ s.job = "seed"
  <2>1. s.job \in {"seed", "script"}
    BY <1>0, AtWork DEF Control, Walks
  <2> QED BY <1>0, <2>1, AtWork DEF Walks
<1>2. s.articles \in Seq(Names) /\ s.articles # <<>> /\ Unseeded(s, glpi, faults)
  BY <1>0, <1>1 DEF IsSession, Control, SeedInv, BootOK
<1>3. PICK o \in Outcome :
          /\ Charge(o)
          /\ glpi' = IF Applied(o)
                     THEN [glpi EXCEPT !["KnowbaseItem"] = Append(@, NewRow(name, 0))]
                     ELSE glpi
          /\ Put(c, IF o = "ok" THEN rest ELSE Idle)
  BY DEF CreateArticle
<1>4. /\ faults' \in Nat /\ faults' <= MaxFaults /\ faults <= faults'
      /\ o # "ok" => faults + 1 <= faults'
  BY <1>0, <1>3, ChargeBound
<1>5. /\ rest.articles = Tail(s.articles) /\ rest.tickets = s.tickets /\ rest.job = s.job
      /\ rest.pc \in {"ticket", "article"} /\ rest.shifts = s.shifts
  BY <1>1 DEF IsSession, Idle
<1> HIDE DEF rest
<1>6. /\ glpi'["Ticket"] = glpi["Ticket"]
      /\ old \in Seq(Row) /\ (new = old \/ new = Append(old, NewRow(name, 0)))
  <2>1. glpi \in [Endpoint -> Seq(Row)]
    BY DEF WalkInv, StoreOK
  <2> QED BY <1>3, <2>1 DEF Endpoint
<1>7. /\ \A n : Items(glpi', n) \subseteq Items(glpi, n) \cup {Len(old) + 1}
      /\ \A n : n # name => Items(glpi', n) = Items(glpi, n)
  <2>1. CASE new = old
    BY <2>1 DEF Items
  <2>2. CASE new = Append(old, NewRow(name, 0))
    <3> DEFINE row == NewRow(name, 0)
    <3>1. row.name = name
      BY DEF NewRow
    <3> HIDE DEF row, old, name
    <3>2. /\ DOMAIN old = 1 .. Len(old) /\ Len(old) \in Nat /\ DOMAIN new = 1 .. Len(old) + 1
          /\ \A i \in 1 .. Len(old) : new[i] = old[i]
          /\ new[Len(old) + 1] = row
      BY <1>6, <2>2 DEF row
    <3>3. \A n : Items(glpi', n) = IF n = name THEN Items(glpi, n) \cup {Len(old) + 1}
                                               ELSE Items(glpi, n)
      BY <3>1, <3>2 DEF Items, old
    <3> QED BY <3>3
  <2> QED BY <1>6, <2>1, <2>2
<1> HIDE DEF old, new
<1>8. 1 \in DOMAIN s.articles /\ name = s.articles[1]
  BY <1>2, TailParts
<1>9. Once(glpi', faults)
  <2>1. ASSUME NEW k \in DOMAIN KbArticles
        PROVE  Paid(Items(glpi', KbArticles[k]), faults + 1)
    <3>1. CASE KbArticles[k] = name
      <4>1. Paid(Items(glpi, name), faults)
        BY <1>2, <1>8 DEF Unseeded
      <4>2. Grown(Items(glpi, name), Items(glpi', name), faults, faults + 1)
        BY <1>0, <1>7 DEF Grown
      <4> QED BY <3>1, <4>1, <4>2, GrownPaid
    <3>2. CASE KbArticles[k] # name
      BY <1>0, <1>7, <3>2 DEF Once
    <3> QED BY <3>1, <3>2
  <2> QED BY <1>0, <1>6, <2>1 DEF Once
<1>10. Once(glpi', faults')
  <2>1. Harmless(glpi', glpi')
    BY HarmlessSame
  <2> QED BY <1>0, <1>4, <1>9, <2>1, HarmlessKeeps
<1>11. CASE o = "ok"
  <2>1. Unseeded(rest, glpi', faults')
    <3>1. ASSUME NEW k \in DOMAIN rest.articles
          PROVE  Paid(Items(glpi', rest.articles[k]), faults')
      <4>1. k + 1 \in DOMAIN s.articles /\ k + 1 # 1 /\ rest.articles[k] = s.articles[k + 1]
        BY <1>2, <1>5, TailParts
      <4>2. rest.articles[k] # name
        BY <1>2, <1>8, <4>1 DEF Unseeded
      <4>3. Paid(Items(glpi', rest.articles[k]), faults)
        BY <1>2, <1>7, <4>1, <4>2 DEF Unseeded
      <4> QED BY <1>0, <1>4, <4>3, PaidMore
    <3>2. \A k, l \in DOMAIN rest.articles : rest.articles[k] = rest.articles[l] => k = l
      <4>1. \A k, l \in DOMAIN s.articles : s.articles[k] = s.articles[l] => k = l
        BY <1>2 DEF Unseeded
      <4> QED BY <1>2, <1>5, <4>1, TailParts
    <3> QED BY <1>0, <1>2, <1>5, <1>6, <3>1, <3>2 DEF Unseeded
  <2>2. BootOK(rest, glpi', faults')
    BY <1>1, <1>5, <2>1 DEF BootOK
  <2>3. Put(c, rest) /\ s.pc \notin {"solution", "close"}
    BY <1>0, <1>3, <1>11
  <2>4. Paid(Lost(glpi', calls'), faults' * Fallout)
    BY <1>1, <1>4, <1>6, <2>3, LostKept
  <2> QED BY <1>0, <1>1, <1>4, <1>5, <1>10, <2>2, <2>3, <2>4, SeedStep
<1>12. CASE o # "ok"
  <2>1. Idle.job = "none" /\ Idle.shifts = 0
    BY DEF Idle
  <2>2. BootOK(Idle, glpi', faults')
    BY <1>0, <1>4, <1>9, <1>12, <2>1, BootStops
  <2>3. Put(c, Idle) /\ s.pc \notin {"solution", "close"}
    BY <1>0, <1>3, <1>12
  <2>4. Paid(Lost(glpi', calls'), faults' * Fallout)
    BY <1>1, <1>4, <1>6, <2>3, LostKept
  <2> QED BY <1>0, <1>1, <1>4, <1>10, <2>1, <2>2, <2>3, <2>4, SeedStep
<1> QED
  BY <1>11, <1>12

\* The call after a ticket: it waits for no walk, and seeds nothing new.
LEMMA NextFacts ==
    ASSUME WalkInv, NEW c \in Callers, calls[c].pc \in Tickets, calls[c].shifts = 0,
           NEW t \in {Idle, NextTicket(calls[c]), Raised(calls[c])}
    PROVE  /\ t.shifts = 0
           /\ Foreign(calls[c]) => Foreign(t)
           /\ t.pc \notin {"solution", "close"}
           /\ calls[c].job = "seed" =>
                 \/ t.job \notin {"seed", "inventory"}
                 \/ /\ t.job = "seed" /\ t.tickets = Tail(calls[c].tickets)
                    /\ t.articles = calls[c].articles
<1> DEFINE s == calls[c]
           next == [s EXCEPT !.tickets = Tail(@), !.tid = 0,
                             !.pc = IF s.job = "demo" THEN "category" ELSE "ticket"]
<1>0. IsSession(s) /\ s.tickets \in Seq(Fixture) /\ s.tickets # <<>>
  BY CallFacts DEF Control, Tickets, Walks, IsSession
<1>1. /\ next.pc \in {"category", "ticket"} /\ next.tickets = Tail(s.tickets)
      /\ next.shifts = s.shifts /\ next.job = s.job /\ next.articles = s.articles
  BY <1>0 DEF IsSession, Idle
<1>2. Foreign(s) => Foreign(next)
  BY <1>0, <1>1, TailParts DEF Foreign
<1>3. t \in {Idle, next, Walk("report", "Ticket")}
  BY DEF NextTicket, Raised
<1> HIDE DEF next
<1>4. /\ Idle.shifts = 0 /\ Idle.job = "none" /\ Idle.pc = "idle" /\ Foreign(Idle)
      /\ Walk("report", "Ticket").shifts = 0 /\ Walk("report", "Ticket").job = "report"
      /\ Walk("report", "Ticket").pc = "page" /\ Foreign(Walk("report", "Ticket"))
  BY DEF Idle, Walk, Foreign
<1> HIDE DEF s
<1> QED
  BY <1>1, <1>2, <1>3, <1>4 DEF s

\* The seeding is done with a ticket: nothing of the rest is resolved, and
\* what it has resolved, or a fault, keeps the next boot from doing it again.
LEMMA BootNext ==
    ASSUME WalkInv, calls[Boot].pc \in Tickets, calls[Boot].shifts = 0,
           calls[Boot].job = "seed",
           NEW t \in {Idle, NextTicket(calls[Boot]), Raised(calls[Boot])},
           NEW g, NEW f \in Nat, NEW e \in Nat, f <= e, Unseeded(calls[Boot], glpi, f),
           g["KnowbaseItem"] = glpi["KnowbaseItem"],
           \A k \in DOMAIN calls[Boot].tickets, i \in DOMAIN g["Ticket"] :
              Resolved(g["Ticket"][i]) /\ g["Ticket"][i].name = calls[Boot].tickets[k].name =>
                 k = 1,
           Seeded(g) \/ \A k \in DOMAIN KbArticles : Paid(Items(g, KbArticles[k]), e)
    PROVE  BootOK(t, g, e)
<1> DEFINE s == calls[Boot]
<1>0. Boot \in Callers
  BY CallerAssumption
<1>1. s.tickets \in Seq(Fixture) /\ s.tickets # <<>>
  BY <1>0, CallFacts DEF Control, Tickets, Walks, IsSession
<1>2. /\ t.pc \notin {"solution", "close"}
      /\ \/ t.job \notin {"seed", "inventory"}
         \/ t.job = "seed" /\ t.tickets = Tail(s.tickets) /\ t.articles = s.articles
  BY <1>0, NextFacts
<1> HIDE DEF s
<1>3. CASE t.job \notin {"seed", "inventory"}
  BY <1>3 DEF BootOK
<1>4. CASE t.job = "seed" /\ t.tickets = Tail(s.tickets) /\ t.articles = s.articles
  <2>1. \A k \in DOMAIN t.tickets :
           k + 1 \in DOMAIN s.tickets /\ k + 1 # 1 /\ t.tickets[k] = s.tickets[k + 1]
    BY <1>1, <1>4, TailParts
  <2>2. \A k \in DOMAIN t.tickets : t.tickets[k].name \in SeedNames
    BY <2>1 DEF Unseeded, s
  <2>3. \A k, l \in DOMAIN t.tickets : t.tickets[k].name = t.tickets[l].name => k = l
    <3>1. \A k, l \in DOMAIN s.tickets : s.tickets[k].name = s.tickets[l].name => k = l
      BY DEF Unseeded, s
    <3>2. \A k, l \in DOMAIN t.tickets : k + 1 = l + 1 => k = l
      BY <1>1, <1>4, TailParts
    <3> QED BY <2>1, <3>1, <3>2
  <2>4. \A k \in DOMAIN t.tickets, i \in DOMAIN g["Ticket"] :
           ~(Resolved(g["Ticket"][i]) /\ g["Ticket"][i].name = t.tickets[k].name)
    BY <2>1 DEF s
  <2>5. \A k \in DOMAIN t.articles : Paid(Items(g, t.articles[k]), e)
    <3>1. \A name : Items(g, name) = Items(glpi, name)
      BY DEF Items
    <3> QED BY <1>4, <3>1, PaidMore DEF Unseeded, s
  <2>6. \A k, l \in DOMAIN t.articles : t.articles[k] = t.articles[l] => k = l
    BY <1>4 DEF Unseeded, s
  <2>7. Unseeded(t, g, e)
    BY <1>2, <2>2, <2>3, <2>4, <2>5, <2>6 DEF Unseeded
  <2> QED BY <1>4, <2>7 DEF BootOK
<1> QED
  BY <1>2, <1>3, <1>4

LEMMA PaidByFault ==
    ASSUME NEW g, NEW f \in Nat, NEW e \in Nat, f + 1 <= e, Once(g, f)
    PROVE  \A k \in DOMAIN KbArticles : Paid(Items(g, KbArticles[k]), e)
<1>1. f + 1 \in Nat
  OBVIOUS
<1> QED
  BY <1>1, PaidMore DEF Once

LEMMA CreatesSeedOnce ==
    ASSUME WalkInv, SeedInv, scripts = 0, NEW c \in Callers, CreateTicket(c)
    PROVE  SeedInv'
<1> DEFINE s == calls[c]
           on == [s EXCEPT !.pc = AfterCreate(s), !.tid = nextId]
           row == NewRow(Head(s.tickets).name, INCOMING)
           old == glpi["Ticket"]
           new == glpi'["Ticket"]
<1>0. /\ s.pc = "ticket" /\ UNCHANGED <<scripts, up>> /\ nextId \in Nat
      /\ faults \in Nat /\ faults <= MaxFaults /\ Once(glpi, faults)
      /\ \A i \in DOMAIN old : old[i].id \in Nat
  BY TicketIds DEF CreateTicket, SeedInv
<1>1. /\ up /\ c \in Callers \ {Cli} /\ IsSession(s) /\ s.shifts = 0 /\ s.pc \in Tickets
      /\ \/ c = Boot /\ c \notin Admin /\ s.job = "seed"
         \/ c \in Admin /\ c # Boot /\ s.job = "demo"
      /\ c \in Admin => Foreign(s)
  BY <1>0, AtWork DEF Walks, Tickets
<1>2. PICK o \in Outcome :
          /\ Charge(o)
          /\ glpi' = IF Applied(o) THEN [glpi EXCEPT !["Ticket"] = Append(@, row)] ELSE glpi
          /\ Put(c, CASE o = "ok" -> on
                      [] o = "refused" -> NextTicket(s)
                      [] OTHER -> Raised(s))
  BY DEF CreateTicket
<1>3. /\ faults' \in Nat /\ faults' <= MaxFaults /\ faults <= faults'
      /\ o # "ok" => faults + 1 <= faults'
  BY <1>0, <1>2, ChargeBound
<1>4. /\ on.pc \in {"solution", "close"} /\ on.tid = nextId /\ on.tickets = s.tickets
      /\ on.articles = s.articles /\ on.job = s.job /\ on.shifts = s.shifts
  BY <1>1 DEF IsSession, Idle, AfterCreate
<1>5. row.id = nextId /\ ~Resolved(row)
  BY DEF NewRow, Resolved, RESOLVED_STATUSES, INCOMING, SOLVED, CLOSED
<1> HIDE DEF on, row
<1>6. PICK t : /\ Put(c, t)
               /\ \/ o = "ok" /\ t = on
                  \/ o # "ok" /\ t \in {Idle, NextTicket(s), Raised(s)}
  <2> HIDE DEF s
  <2> QED BY <1>2
<1>7. /\ calls'[c] = t
      /\ \A d \in Callers : d # c => calls'[d] = calls[d]
  BY <1>6, PutFacts DEF WalkInv
<1>8. /\ glpi'["KnowbaseItem"] = glpi["KnowbaseItem"] /\ old \in Seq(Row)
      /\ \/ new = old
         \/ new = Append(old, row)
      /\ Applied(o) => new = Append(old, row)
  <2>1. glpi \in [Endpoint -> Seq(Row)]
    BY DEF WalkInv, StoreOK
  <2> QED BY <1>2, <2>1 DEF Endpoint
<1>9. /\ \A i \in DOMAIN old : i \in DOMAIN new /\ new[i] = old[i]
      /\ \A i \in DOMAIN new : \/ i \in DOMAIN old /\ new[i] = old[i]
                               \/ new[i] = row
      /\ Applied(o) => \E i \in DOMAIN new : new[i] = row
  <2> HIDE DEF old, new
  <2>1. CASE new = Append(old, row)
    <3>1. /\ DOMAIN old = 1 .. Len(old) /\ Len(old) \in Nat /\ DOMAIN new = 1 .. Len(old) + 1
          /\ \A i \in 1 .. Len(old) : new[i] = old[i]
          /\ new[Len(old) + 1] = row
      BY <1>8, <2>1
    <3> QED BY <3>1
  <2>2. CASE new = old /\ ~Applied(o)
    BY <2>2
  <2> QED BY <1>8, <2>1, <2>2
<1> HIDE DEF old, new
<1>10. Harmless(glpi, glpi')
  <2>1. Ids(old) \subseteq Ids(new)
    BY <1>9 DEF Ids
  <2> QED BY <1>5, <1>8, <1>9, <2>1 DEF Harmless, Shown, old, new
<1>11. /\ Once(glpi', faults') /\ Once(glpi', faults)
       /\ BootOK(calls[Boot], glpi', faults')
       /\ \A b : Unseeded(b, glpi, faults) => Unseeded(b, glpi', faults')
  BY <1>0, <1>3, <1>10, HarmlessKeeps DEF SeedInv
<1>12. Paid(Lost(glpi', calls'), faults' * Fallout)
  <2>1. InFlight(calls) \subseteq InFlight(calls')
    BY <1>0, <1>7 DEF InFlight
  <2>2. Lost(glpi', calls') \subseteq Lost(glpi, calls) \cup {nextId}
    BY <1>5, <1>9, <2>1 DEF Lost, old, new
  <2>3. o = "ok" => nextId \in InFlight(calls')
    BY <1>0, <1>4, <1>6, <1>7 DEF InFlight
  <2>4. o = "ok" => Lost(glpi', calls') \subseteq Lost(glpi, calls)
    BY <2>2, <2>3 DEF Lost
  <2> QED BY <1>0, <1>3, <2>2, <2>4, LostPaid DEF SeedInv
<1>13. CASE o = "ok"
  <2>1. c = Boot => BootOK(on, glpi', faults')
    <3> SUFFICES ASSUME c = Boot PROVE BootOK(on, glpi', faults')
      OBVIOUS
    <3>1. Unseeded(s, glpi', faults')
      BY <1>1, <1>11 DEF SeedInv, BootOK
    <3>2. on.tid \in Ids(glpi'["Ticket"])
      BY <1>4, <1>5, <1>9, <1>13 DEF Applied, Ids, new
    <3>3. Unseeded(on, glpi', faults')
      BY <1>0, <1>4, <3>1, <3>2 DEF Unseeded
    <3> QED BY <1>1, <1>4, <3>3 DEF BootOK
  <2>2. c \in Admin => Foreign(on)
    BY <1>1, <1>4 DEF Foreign
  <2>3. Put(c, on)
    BY <1>6, <1>13
  <2> HIDE DEF s
  <2> QED BY <1>0, <1>1, <1>3, <1>4, <1>11, <1>12, <2>1, <2>2, <2>3, SeedStep DEF s
<1>14. CASE o # "ok"
  <2>1. t \in {Idle, NextTicket(s), Raised(s)}
    BY <1>6, <1>14
  <2>2. t.shifts = 0 /\ (c \in Admin => Foreign(t))
    BY <1>1, <2>1, NextFacts
  <2>3. ASSUME c = Boot PROVE BootOK(t, glpi', faults')
    <3>1. Unseeded(s, glpi, faults) /\ Unseeded(s, glpi', faults')
      BY <1>1, <1>11, <2>3 DEF SeedInv, BootOK
    <3>2. \A k \in DOMAIN s.tickets, i \in DOMAIN glpi'["Ticket"] :
             ~(Resolved(glpi'["Ticket"][i]) /\ glpi'["Ticket"][i].name = s.tickets[k].name)
      BY <1>0, <3>1 DEF Unseeded
    <3>3. \A k \in DOMAIN KbArticles : Paid(Items(glpi', KbArticles[k]), faults')
      BY <1>0, <1>3, <1>11, <1>14, PaidByFault
    <3>4. s = calls[Boot] /\ s.job = "seed"
      BY <1>1, <2>3
    <3> HIDE DEF s
    <3> QED BY <1>0, <1>1, <1>3, <1>8, <2>1, <3>1, <3>2, <3>3, <3>4, BootNext
  <2> QED BY <1>0, <1>1, <1>3, <1>6, <1>11, <1>12, <2>2, <2>3, SeedStep
<1> QED
  BY <1>13, <1>14

\* Nothing but the ticket with that id changes.
Touches(g, h, id) ==
    /\ h["KnowbaseItem"] = g["KnowbaseItem"]
    /\ DOMAIN h["Ticket"] = DOMAIN g["Ticket"]
    /\ \A i \in DOMAIN g["Ticket"] :
          /\ h["Ticket"][i].id = g["Ticket"][i].id
          /\ h["Ticket"][i].name = g["Ticket"][i].name
          /\ Resolved(g["Ticket"][i]) => Resolved(h["Ticket"][i])
          /\ g["Ticket"][i].id # id => h["Ticket"][i] = g["Ticket"][i]
Solved(g, id) ==
    \A i \in DOMAIN g["Ticket"] : g["Ticket"][i].id = id => Resolved(g["Ticket"][i])

LEMMA UpdateTouches ==
    ASSUME WalkInv, NEW id, NEW status \in {SOLVED, CLOSED}, NEW solution,
           glpi' = Update(id, status, solution)
    PROVE  Touches(glpi, glpi', id) /\ Solved(glpi', id)
<1>1. glpi'["KnowbaseItem"] = glpi["KnowbaseItem"]
  BY DEF WalkInv, StoreOK, Endpoint, Update
<1>2. /\ DOMAIN glpi'["Ticket"] = DOMAIN glpi["Ticket"]
      /\ \A i \in DOMAIN glpi["Ticket"] :
            /\ glpi'["Ticket"][i].id = glpi["Ticket"][i].id
            /\ glpi'["Ticket"][i].name = glpi["Ticket"][i].name
            /\ Resolved(glpi["Ticket"][i]) => Resolved(glpi'["Ticket"][i])
            /\ glpi["Ticket"][i].id = id => Resolved(glpi'["Ticket"][i])
            /\ glpi["Ticket"][i].id # id => glpi'["Ticket"][i] = glpi["Ticket"][i]
  BY UpdateRows
<1> QED
  BY <1>1, <1>2 DEF Touches, Solved

\* What a step on a ticket that was created does: o is the answer, t the call
\* it leaves.
TicketStep(c, o, t) ==
    /\ Charge(o) /\ Put(c, t) /\ UNCHANGED <<scripts, up>>
    /\ Touches(glpi, glpi', calls[c].tid)
    /\ o = "ok" => Solved(glpi', calls[c].tid)
    /\ \/ calls[c].pc = "solution" /\ t = [calls[c] EXCEPT !.pc = "close"]
       \/ /\ t \in {Idle, NextTicket(calls[c]), Raised(calls[c])}
          /\ calls[c].pc = "solution" => o # "ok"

LEMMA TicketSteps ==
    ASSUME WalkInv, NEW c \in Callers, PostSolution(c) \/ CloseTicket(c)
    PROVE  /\ calls[c].pc \in {"solution", "close"}
           /\ \E o \in Outcome : \E t : TicketStep(c, o, t)
<1> DEFINE s == calls[c]
           on == [s EXCEPT !.pc = "close"]
<1>1. Touches(glpi, glpi, s.tid)
  BY DEF Touches
<1>2. CASE PostSolution(c)
  <2> DEFINE h == Update(s.tid, SOLVED, Head(s.tickets).notes)
  <2>1. PICK o \in Outcome :
            /\ Charge(o)
            /\ glpi' = IF Applied(o) THEN h ELSE glpi
            /\ Put(c, IF Answered(o) THEN on ELSE Raised(s))
    BY <1>2 DEF PostSolution
  <2>2. UNCHANGED <<scripts, up>> /\ s.pc = "solution"
    BY <1>2 DEF PostSolution, seedVars
  <2>3. glpi' = h => Touches(glpi, glpi', s.tid) /\ Solved(glpi', s.tid)
    <3> DEFINE notes == Head(s.tickets).notes
               id == s.tid
    <3> HIDE DEF notes, id
    <3>1. ASSUME glpi' = Update(id, SOLVED, notes)
          PROVE  Touches(glpi, glpi', id) /\ Solved(glpi', id)
      BY <3>1, UpdateTouches
    <3> QED BY <3>1 DEF notes, id
  <2> HIDE DEF h, on
  <2>4. PICK t : /\ Put(c, t)
                 /\ \/ t = on
                    \/ t = Raised(s) /\ o # "ok"
    <3>1. CASE Answered(o)
      BY <2>1, <3>1
    <3>2. CASE ~Answered(o)
      BY <2>1, <3>2 DEF Answered
    <3> QED BY <3>1, <3>2
  <2>5. Touches(glpi, glpi', s.tid) /\ (o = "ok" => Solved(glpi', s.tid))
    BY <1>1, <2>1, <2>3 DEF Applied
  <2>6. TicketStep(c, o, t)
    BY <2>1, <2>2, <2>4, <2>5 DEF TicketStep, on
  <2> QED BY <2>2, <2>6
<1>3. CASE CloseTicket(c)
  <2> DEFINE h == Update(s.tid, CLOSED, SolutionOf(s.tid))
  <2>1. PICK o \in Outcome :
            /\ Charge(o)
            /\ glpi' = IF Applied(o) THEN h ELSE glpi
            /\ Put(c, IF Answered(o) THEN NextTicket(s) ELSE Raised(s))
    BY <1>3 DEF CloseTicket
  <2>2. UNCHANGED <<scripts, up>> /\ s.pc = "close"
    BY <1>3 DEF CloseTicket, seedVars
  <2>3. glpi' = h => Touches(glpi, glpi', s.tid) /\ Solved(glpi', s.tid)
    <3> DEFINE notes == SolutionOf(s.tid)
               id == s.tid
    <3> HIDE DEF notes, id
    <3>1. ASSUME glpi' = Update(id, CLOSED, notes)
          PROVE  Touches(glpi, glpi', id) /\ Solved(glpi', id)
      BY <3>1, UpdateTouches
    <3> QED BY <3>1 DEF notes, id
  <2> HIDE DEF h
  <2>4. PICK t \in {NextTicket(s), Raised(s)} : Put(c, t)
    BY <2>1
  <2>5. Touches(glpi, glpi', s.tid) /\ (o = "ok" => Solved(glpi', s.tid))
    BY <1>1, <2>1, <2>3 DEF Applied
  <2>6. TicketStep(c, o, t)
    BY <2>1, <2>2, <2>4, <2>5 DEF TicketStep
  <2> QED BY <2>2, <2>6
<1> QED
  BY <1>2, <1>3

\* A ticket of the seeding that is given its solution, or closed, is the only
\* one of its name that is resolved.
LEMMA SolvesSeedOnce ==
    ASSUME WalkInv, NotesInv, SeedInv, scripts = 0, NEW c \in Callers,
           PostSolution(c) \/ CloseTicket(c)
    PROVE  SeedInv'
<1> DEFINE s == calls[c]
           on == [s EXCEPT !.pc = "close"]
           old == glpi["Ticket"]
           new == glpi'["Ticket"]
<1>0. PICK o \in Outcome : \E t : TicketStep(c, o, t)
  BY TicketSteps
<1>1. PICK t : TicketStep(c, o, t)
  BY <1>0
<1>2. /\ s.pc \in {"solution", "close"} /\ s.pc \in Tickets
      /\ faults \in Nat /\ faults <= MaxFaults /\ Once(glpi, faults) /\ nextId \in Nat
      /\ \A i \in DOMAIN old : old[i].id \in Nat
  BY TicketSteps, TicketIds DEF Tickets, SeedInv
<1>3. /\ up /\ c \in Callers \ {Cli} /\ IsSession(s) /\ s.shifts = 0
      /\ \/ c = Boot /\ c \notin Admin /\ s.job = "seed"
         \/ c \in Admin /\ c # Boot /\ s.job = "demo"
      /\ c \in Admin => Foreign(s)
  BY <1>2, AtWork DEF Walks
<1>4. /\ faults' \in Nat /\ faults' <= MaxFaults /\ faults <= faults'
      /\ o # "ok" => faults + 1 <= faults'
  BY <1>1, <1>2, ChargeBound DEF TicketStep
<1>5. /\ on.pc = "close" /\ on.tid = s.tid /\ on.tickets = s.tickets /\ on.job = s.job
      /\ on.articles = s.articles /\ on.shifts = s.shifts
  BY <1>3 DEF IsSession, Idle
<1>6. /\ Put(c, t) /\ UNCHANGED <<scripts, up>>
      /\ Touches(glpi, glpi', s.tid)
      /\ o = "ok" => Solved(glpi', s.tid)
      /\ \/ s.pc = "solution" /\ t = on
         \/ /\ t \in {Idle, NextTicket(s), Raised(s)}
            /\ s.pc = "solution" => o # "ok"
  BY <1>1 DEF TicketStep
<1> HIDE DEF on
<1>7. /\ calls'[c] = t
      /\ \A d \in Callers : d # c => calls'[d] = calls[d]
  BY <1>6, PutFacts DEF WalkInv
<1>8. /\ 1 \in DOMAIN s.tickets
      /\ \A i \in DOMAIN old : old[i].id = s.tid => old[i].name = s.tickets[1].name
  <2>1. s.tickets \in Seq(Fixtures) /\ s.tickets # <<>> /\ TidOK(s, glpi, nextId)
    BY <1>2, CallFacts DEF NotesInv, Control, Tickets, Walks
  <2>2. Head(s.tickets) = s.tickets[1] /\ 1 \in DOMAIN s.tickets
    BY <2>1, TailParts
  <2> QED BY <1>2, <2>1, <2>2 DEF TidOK
<1>9. /\ DOMAIN new = DOMAIN old /\ Ids(new) = Ids(old)
      /\ \A i \in DOMAIN old : new[i].id = old[i].id /\ new[i].name = old[i].name
      /\ \A i \in DOMAIN old : Resolved(old[i]) => Resolved(new[i])
      /\ \A i \in DOMAIN old : Resolved(new[i]) => Resolved(old[i]) \/ old[i].id = s.tid
      /\ \A i \in DOMAIN old : old[i].id # s.tid => new[i] = old[i]
  BY <1>6 DEF Touches, Ids
<1> HIDE DEF new
<1>10. c = Boot => Unseeded(s, glpi, faults)
  BY <1>3 DEF SeedInv, BootOK
<1>11. c \in Admin => Harmless(glpi, glpi')
  <2> SUFFICES ASSUME c \in Admin PROVE Harmless(glpi, glpi')
    OBVIOUS
  <2>1. \A i \in DOMAIN old : old[i].id = s.tid => old[i].name \notin SeedNames
    BY <1>3, <1>8 DEF Foreign
  <2>2. glpi'["KnowbaseItem"] = glpi["KnowbaseItem"]
    BY <1>6 DEF Touches
  <2> QED BY <1>9, <2>1, <2>2 DEF Harmless, Shown, new
<1>12. c = Boot => \A k \in DOMAIN s.tickets, i \in DOMAIN old :
          Resolved(new[i]) /\ new[i].name = s.tickets[k].name => old[i].id = s.tid
  BY <1>9, <1>10 DEF Unseeded
<1>13. Once(glpi', faults)
  <2>1. CASE c \in Admin
    BY <1>2, <1>11, <2>1, HarmlessKeeps
  <2>2. CASE c = Boot
    <3>1. ASSUME NEW i \in DOMAIN old, NEW j \in DOMAIN old, Shown(new[i]), Shown(new[j]),
                 new[i].name = new[j].name
          PROVE  i = j
      <4>1. CASE old[i].id # s.tid /\ old[j].id # s.tid
        BY <1>2, <1>9, <3>1, <4>1 DEF Once
      <4>2. CASE old[i].id = s.tid \/ old[j].id = s.tid
        <5>1. new[i].name = s.tickets[1].name /\ new[j].name = s.tickets[1].name
          BY <1>8, <1>9, <3>1, <4>2
        <5>2. old[i].id = s.tid /\ old[j].id = s.tid
          BY <1>8, <1>12, <2>2, <3>1, <5>1 DEF Shown
        <5> QED BY <3>1, <5>2, IdsDiffer
      <4> QED BY <4>1, <4>2
    <3>2. \A n : Items(glpi', n) = Items(glpi, n)
      BY <1>6 DEF Touches, Items
    <3> QED BY <1>2, <1>9, <3>1, <3>2 DEF Once, new
  <2> QED BY <1>3, <2>1, <2>2
<1>14. Once(glpi', faults')
  <2>1. Harmless(glpi', glpi')
    BY HarmlessSame
  <2> QED BY <1>2, <1>4, <1>13, <2>1, HarmlessKeeps
<1>15. Paid(Lost(glpi', calls'), faults' * Fallout)
  <2>1. InFlight(calls) \subseteq InFlight(calls') \cup {s.tid}
    BY <1>7 DEF InFlight
  <2>2. Lost(glpi', calls') \subseteq Lost(glpi, calls) \cup {s.tid}
    BY <1>9, <2>1 DEF Lost, new
  <2>3. CASE o = "ok"
    <3>1. s.tid \notin Lost(glpi', calls')
      BY <1>6, <2>3 DEF Lost, Solved
    <3> QED BY <1>2, <1>4, <2>2, <3>1, LostPaid DEF SeedInv
  <2>4. CASE o # "ok"
    BY <1>2, <1>4, <2>2, <2>4, LostPaid DEF SeedInv
  <2> QED BY <2>3, <2>4
<1>16. c # Boot => BootOK(calls[Boot], glpi', faults')
  BY <1>2, <1>3, <1>4, <1>11, HarmlessKeeps DEF SeedInv
<1>17. CASE s.pc = "solution" /\ t = on
  <2>1. ASSUME c = Boot PROVE BootOK(on, glpi', faults')
    <3>1. \A k \in DOMAIN s.articles : Paid(Items(glpi', s.articles[k]), faults')
      <4>1. \A n : Items(glpi', n) = Items(glpi, n)
        BY <1>6 DEF Touches, Items
      <4> QED BY <1>2, <1>4, <1>10, <2>1, <4>1, PaidMore DEF Unseeded
    <3>2. \A k \in DOMAIN s.tickets, i \in DOMAIN new :
             Resolved(new[i]) /\ new[i].name = s.tickets[k].name => new[i].id = s.tid
      BY <1>9, <1>12, <2>1
    <3>3. s.tid \in Ids(new)
      BY <1>2, <1>9, <1>10, <2>1 DEF Unseeded
    <3>4. Unseeded(on, glpi', faults')
      BY <1>5, <1>10, <2>1, <3>1, <3>2, <3>3 DEF Unseeded, new
    <3> QED BY <1>3, <1>5, <2>1, <3>4 DEF BootOK
  <2>2. c \in Admin => Foreign(on)
    BY <1>3, <1>5 DEF Foreign
  <2>3. Put(c, on)
    BY <1>6, <1>17
  <2> HIDE DEF s
  <2> QED BY <1>2, <1>3, <1>4, <1>5, <1>6, <1>14, <1>15, <1>16, <2>1, <2>2, <2>3, SeedStep DEF s
<1>18. CASE t \in {Idle, NextTicket(s), Raised(s)} /\ (s.pc = "solution" => o # "ok")
  <2>1. t.shifts = 0 /\ (c \in Admin => Foreign(t))
    BY <1>2, <1>3, <1>18, NextFacts
  <2>2. ASSUME c = Boot PROVE BootOK(t, glpi', faults')
    <3>1. s = calls[Boot] /\ s.job = "seed" /\ Unseeded(s, glpi, faults)
      BY <1>3, <1>10, <2>2
    <3>2. \A k \in DOMAIN s.tickets, i \in DOMAIN new :
             Resolved(new[i]) /\ new[i].name = s.tickets[k].name => k = 1
      <4>1. ASSUME NEW k \in DOMAIN s.tickets, NEW i \in DOMAIN new, Resolved(new[i]),
                   new[i].name = s.tickets[k].name
            PROVE  k = 1
        <5>1. new[i].name = s.tickets[1].name
          BY <1>8, <1>9, <1>12, <2>2, <4>1
        <5> QED BY <1>8, <3>1, <4>1, <5>1 DEF Unseeded
      <4> QED BY <4>1
    <3>3. Seeded(glpi') \/ \A k \in DOMAIN KbArticles : Paid(Items(glpi', KbArticles[k]), faults')
      <4>1. CASE o = "ok"
        <5>1. PICK i \in DOMAIN old : old[i].id = s.tid
          BY <1>2, <3>1 DEF Unseeded, Ids
        <5>2. new[i].name \in SeedNames
          BY <1>8, <1>9, <3>1, <5>1 DEF Unseeded
        <5>3. Resolved(new[i])
          BY <1>6, <1>9, <4>1, <5>1 DEF Solved, new
        <5> QED BY <1>9, <5>2, <5>3 DEF Seeded, Shown, new
      <4>2. CASE o # "ok"
        BY <1>2, <1>4, <1>13, <4>2, PaidByFault
      <4> QED BY <4>1, <4>2
    <3>4. glpi'["KnowbaseItem"] = glpi["KnowbaseItem"]
      BY <1>6 DEF Touches
    <3> HIDE DEF s
    <3> QED BY <1>2, <1>3, <1>4, <1>18, <3>1, <3>2, <3>3, <3>4, BootNext DEF new
  <2> QED BY <1>2, <1>3, <1>4, <1>6, <1>14, <1>15, <1>16, <2>1, <2>2, SeedStep
<1> QED
  BY <1>6, <1>17, <1>18

\* The end of the process costs the tickets that were in flight, one for
\* each of its callers at most.
LEMMA CrashSeedsOnce ==
    ASSUME WalkInv, SeedInv, scripts = 0, Crash
    PROVE  SeedInv'
<1> DEFINE T == {calls[c].tid : c \in Admin \cup {Boot}}
<1>1. /\ faults \in Nat /\ Once(glpi, faults) /\ Paid(Lost(glpi, calls), faults * Fallout)
      /\ faults' \in Nat /\ faults' <= MaxFaults /\ faults + 1 <= faults' /\ faults <= faults'
      /\ glpi' = glpi /\ scripts' = scripts /\ ~up'
  BY ChargeBound DEF Crash, SeedInv
<1>2. \A c \in Callers : calls'[c] = Idle
  BY DEF Crash, SeedInv
<1>3. InFlight(calls) \subseteq T
  <2>1. ASSUME NEW c \in Callers, calls[c].pc \in {"solution", "close"}
        PROVE  c \in Admin \cup {Boot}
    BY <2>1, AtWork DEF Walks
  <2> QED BY <2>1 DEF InFlight
<1>4. IsFiniteSet(T) /\ Cardinality(T) \in Nat /\ Cardinality(T) <= Fallout /\ Fallout \in Nat
  <2> DEFINE A == Admin \cup {Boot}
             f == [c \in A |-> calls[c].tid]
  <2>1. f \in Surjection(A, T)
    BY DEF Surjection
  <2> HIDE DEF f, A, T
  <2>2. IsFiniteSet(A) /\ Cardinality(A) <= Fallout /\ Fallout \in Nat
    BY FalloutFacts DEF A
  <2>3. IsFiniteSet(T) /\ Cardinality(T) <= Cardinality(A)
    BY <2>1, <2>2, FS_Surjection
  <2>4. Cardinality(T) \in Nat /\ Cardinality(A) \in Nat
    BY <2>2, <2>3, FS_CardinalityType
  <2> QED BY <2>2, <2>3, <2>4
<1> HIDE DEF T
<1>5. Paid(Lost(glpi', calls'), faults' * Fallout)
  <2> DEFINE L == Lost(glpi, calls)
             M == Lost(glpi', calls')
  <2>1. M \subseteq L \cup T
    BY <1>1, <1>3 DEF Lost
  <2>2. IsFiniteSet(L) /\ Cardinality(L) <= faults * Fallout /\ Cardinality(L) \in Nat
    BY <1>1, FS_CardinalityType DEF Paid
  <2> HIDE DEF L, M
  <2>3. /\ IsFiniteSet(L \cup T) /\ IsFiniteSet(L \cap T)
        /\ Cardinality(L \cup T) = Cardinality(L) + Cardinality(T) - Cardinality(L \cap T)
    BY <1>4, <2>2, FS_Union, FS_Intersection
  <2>4. Cardinality(L \cup T) \in Nat /\ Cardinality(L \cap T) \in Nat
    BY <2>3, FS_CardinalityType
  <2>5. /\ faults * Fallout \in Nat /\ faults' * Fallout \in Nat
        /\ faults * Fallout + Fallout <= faults' * Fallout
    BY <1>1, FalloutGrows
  <2>6. IsFiniteSet(M) /\ Cardinality(M) <= Cardinality(L \cup T)
    BY <2>1, <2>3, FS_Subset
  <2>7. Cardinality(M) \in Nat
    BY <2>6, FS_CardinalityType
  <2>8. Cardinality(M) <= faults' * Fallout
    BY <1>4, <2>2, <2>3, <2>4, <2>5, <2>6, <2>7
  <2> QED BY <2>6, <2>8 DEF Paid, M
<1>6. Once(glpi', faults')
  <2>1. Harmless(glpi, glpi')
    BY <1>1, HarmlessSame
  <2> QED BY <1>1, <2>1, HarmlessKeeps
<1>7. Idle.job = "none" /\ Idle.shifts = 0 /\ Foreign(Idle)
  BY DEF Idle, Foreign
<1>8. BootOK(Idle, glpi', faults')
  BY <1>1, <1>7, BootStops
<1>9. Boot \in Callers /\ Cli \in Callers /\ Admin \subseteq Callers
  BY CallerAssumption
<1> QED
  BY <1>1, <1>2, <1>5, <1>6, <1>7, <1>8, <1>9 DEF SeedInv

\* Only the counters matter once the script has run.
LEMMA Counters ==
    ASSUME SeedInv, Next
    PROVE  /\ faults' \in Nat /\ faults' <= MaxFaults /\ scripts' \in Nat
           /\ scripts' = 0 => scripts = 0
<1>0. faults \in Nat /\ faults <= MaxFaults /\ scripts \in Nat
  BY DEF SeedInv
<1>1. ASSUME NEW o, Charge(o) PROVE faults' \in Nat /\ faults' <= MaxFaults
  BY <1>0, <1>1, ChargeBound
<1>2. CASE RunScript
  BY <1>0, <1>2 DEF RunScript
<1>3. CASE Start
  BY <1>0, <1>3 DEF Start
<1>4. CASE Crash
  BY <1>0, <1>1, <1>4 DEF Crash
<1>5. CASE PollOrImport
  BY <1>0, <1>5 DEF PollOrImport, StartWalk, seedVars
<1>6. ASSUME NEW i \in DOMAIN glpi["Ticket"], GetOneTicket(i)
      PROVE  faults' = faults /\ scripts' = scripts
  BY <1>6 DEF GetOneTicket, GetTicket, seedVars
<1>7. ASSUME NEW c \in Callers, SeedDemo(c)
      PROVE  faults' = faults /\ scripts' = scripts
  BY <1>7 DEF SeedDemo
<1>8. ASSUME NEW c \in Callers, Step(c)
      PROVE  (faults' = faults \/ \E o : Charge(o)) /\ scripts' = scripts
  <2>1. CASE ContinueWalk(c)
    BY <2>1 DEF ContinueWalk, WalkStep, GetPage, GetPageFails, HydrateTicket, seedVars
  <2>2. CASE Deliver(c)
    BY <2>2 DEF Deliver, seedVars
  <2>3. CASE PurgeList(c) \/ DeleteRow(c)
    BY <2>3 DEF PurgeList, DeleteRow, seedVars
  <2>4. CASE ListCategories(c) \/ EnsureCategory(c)
    BY <2>4 DEF ListCategories, EnsureCategory, seedVars
  <2>5. ASSUME NEW k \in Categories, CreateCategory(c, k)
        PROVE  (\E o : Charge(o)) /\ scripts' = scripts
    BY <2>5 DEF CreateCategory
  <2>6. CASE CreateArticle(c) \/ CreateTicket(c)
    BY <2>6 DEF CreateArticle, CreateTicket
  <2>7. CASE PostSolution(c) \/ CloseTicket(c)
    BY <2>7 DEF PostSolution, CloseTicket, seedVars
  <2> QED BY <1>8, <2>1, <2>2, <2>3, <2>4, <2>5, <2>6, <2>7 DEF Step
<1> QED
  BY <1>0, <1>1, <1>2, <1>3, <1>4, <1>5, <1>6, <1>7, <1>8 DEF Next

LEMMA SeedInvInductive ==
    ASSUME MaxTotal > MaxFaults * Fallout, WalkInv, NotesInv, SeedInv, [Next]_vars
    PROVE  SeedInv'
<1>1. CASE UNCHANGED vars
  <2>1. UNCHANGED <<glpi, calls, faults, up, scripts>>
    BY <1>1 DEF vars, seedVars
  <2> QED BY <2>1 DEF SeedInv
<1>2. CASE Next /\ scripts' # 0
  BY <1>2, Counters DEF SeedInv
<1>3. CASE Next /\ scripts' = 0
  <2>1. scripts = 0
    BY <1>3, Counters
  <2>2. ASSUME NEW c \in Callers, Step(c) PROVE SeedInv'
    <3>1. ~PurgeList(c) /\ ~DeleteRow(c)
      BY <2>1, AtWork DEF PurgeList, DeleteRow
    <3> QED BY <2>1, <2>2, <3>1, WalksSeedOnce, DeliverSeedsOnce, CategoriesSeedOnce,
               ArticlesSeedOnce, CreatesSeedOnce, SolvesSeedOnce DEF Step
  <2> QED BY <1>3, <2>1, <2>2, StartsSeedOnce, CrashSeedsOnce DEF Next
<1> QED
  BY <1>1, <1>2, <1>3

LEMMA SeedInvInit ==
    Init => SeedInv
<1> SUFFICES ASSUME Init PROVE SeedInv
  OBVIOUS
<1>1. /\ faults = 0 /\ scripts = 0 /\ glpi["Ticket"] = <<>> /\ glpi["KnowbaseItem"] = <<>>
      /\ \A c \in Callers : calls[c] = Idle
  BY DEF Init, Endpoint
<1>2. /\ Idle.job = "none" /\ Idle.shifts = 0 /\ Foreign(Idle) /\ Boot \in Callers
      /\ Cli \in Callers /\ Admin \subseteq Callers
  BY CallerAssumption DEF Idle, Foreign
<1>3. /\ \A n \in Nat : Paid({}, n)
      /\ \A name : Items(glpi, name) = {}
      /\ Lost(glpi, calls) = {}
  BY <1>1, FS_EmptySet DEF Paid, Items, Lost
<1>4. Once(glpi, faults)
  <2>1. \A name : Paid(Items(glpi, name), faults + 1)
    <3>1. faults + 1 \in Nat
      BY <1>1
    <3> QED BY <1>3, <3>1
  <2> QED BY <1>1, <2>1 DEF Once
<1>5. BootOK(calls[Boot], glpi, faults)
  <2>1. \A name : Paid(Items(glpi, name), faults)
    <3>1. faults \in Nat
      BY <1>1
    <3> QED BY <1>3, <3>1
  <2> QED BY <1>1, <1>2, <2>1 DEF BootOK
<1>6. Paid(Lost(glpi, calls), faults * Fallout)
  BY <1>1, <1>3, FalloutGrows
<1> QED
  BY <1>1, <1>2, <1>4, <1>5, <1>6, PageAssumption DEF SeedInv

\* However often the process ends in the middle of its bootstrap and starts
\* again, each ticket of it is there and resolved once at most, and each
\* article once more per fault at most, as long as the cap of a listing is
\* above the tickets that faults can leave open: a page of open tickets must
\* not hide the resolved ones from the inventory.
THEOREM SeedsOnce ==
    ASSUME MaxTotal > MaxFaults * (1 + Cardinality(Admin))
    PROVE  Spec => []BootstrapSeedsOnce
<1>1. ASSUME SeedInv PROVE BootstrapSeedsOnce
  <2> SUFFICES ASSUME scripts = 0
               PROVE  /\ \A i \in DOMAIN SeedTickets :
                            Cardinality({j \in DOMAIN glpi["Ticket"] :
                               /\ glpi["Ticket"][j].name = SeedTickets[i].name
                               /\ Resolved(glpi["Ticket"][j])}) <= 1
                      /\ \A i \in DOMAIN KbArticles :
                            Cardinality({j \in DOMAIN glpi["KnowbaseItem"] :
                               glpi["KnowbaseItem"][j].name = KbArticles[i]}) <= 1 + faults
    BY DEF BootstrapSeedsOnce, Copies, IsRow
  <2>1. Once(glpi, faults) /\ faults \in Nat
    BY <1>1 DEF SeedInv
  <2>2. ASSUME NEW i \in DOMAIN SeedTickets
        PROVE  Cardinality({j \in DOMAIN glpi["Ticket"] :
                  /\ glpi["Ticket"][j].name = SeedTickets[i].name
                  /\ Resolved(glpi["Ticket"][j])}) <= 1
    <3> DEFINE S == {j \in DOMAIN glpi["Ticket"] :
                       /\ glpi["Ticket"][j].name = SeedTickets[i].name
                       /\ Resolved(glpi["Ticket"][j])}
    <3>1. \A j \in S : Shown(glpi["Ticket"][j])
      BY DEF Shown, SeedNames
    <3>2. \A j, k \in S : j = k
      BY <2>1, <3>1 DEF Once
    <3> HIDE DEF S
    <3>3. S = {} \/ \E j : S = {j}
      <4>1. ASSUME NEW j \in S PROVE S = {j}
        BY <3>2
      <4> QED BY <4>1
    <3>4. Cardinality(S) = 0 \/ Cardinality(S) = 1
      BY <3>3, FS_EmptySet, FS_Singleton
    <3> QED BY <3>4 DEF S
  <2>3. ASSUME NEW i \in DOMAIN KbArticles
        PROVE  Cardinality({j \in DOMAIN glpi["KnowbaseItem"] :
                  glpi["KnowbaseItem"][j].name = KbArticles[i]}) <= 1 + faults
    <3>1. Paid(Items(glpi, KbArticles[i]), faults + 1) /\ faults + 1 = 1 + faults
      BY <2>1 DEF Once
    <3> QED BY <3>1 DEF Paid, Items
  <2> QED BY <2>2, <2>3
<1>2. MaxTotal > MaxFaults * Fallout
  BY DEF Fallout
<1>3. WalkInv /\ NotesInv /\ SeedInv /\ [Next]_vars => SeedInv'
  BY <1>2, SeedInvInductive
<1> QED
  BY <1>1, <1>3, SeedInvInit, WalkInvariant, NotesInvariant, PTL DEF Spec

=============================================================================
