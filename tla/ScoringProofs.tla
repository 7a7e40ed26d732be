----------------------------- MODULE ScoringProofs -----------------------------
(* Scoring: scores are shares whatever the settings, one row judges a ticket, *)
(* and fuller notes cost no article, for any rows, tickets and PATCHes.       *)
EXTENDS Scoring, TLAPS

USE ScoringAssumption

\* A clipped number is a share.
LEMMA ClipRange == \A x \in Int : Clip(x) \in 0 .. Whole
BY DEF Clip, Whole

\* The parts of a score are shares, for any thresholds and any ticket.
LEMMA PartsAreShares ==
    ASSUME NEW row \in Settings, NEW t \in Tickets
    PROVE  Score(row, t) \in [Parts -> 0 .. Whole]
<1>1. t \in Ticket /\ row \in Row
  OBVIOUS
<1>2. ThinnessThreshold(row) \in Int
  BY <1>1 DEF Row, ThinnessThreshold, Or
<1>3. Penalty(ThinnessThreshold(row), t.notes) \in Int
  <2> DEFINE threshold == ThinnessThreshold(row)
  <2>1. threshold \in Int /\ t.notes \in Nat
    BY <1>1, <1>2 DEF Ticket
  <2>2. CASE t.notes >= threshold \/ threshold <= 0
    BY <2>2 DEF Penalty
  <2>3. CASE ~(t.notes >= threshold \/ threshold <= 0)
    <3>1. (threshold - t.notes) * 25 \in Int /\ threshold \in Nat \ {0}
      BY <2>1, <2>3
    <3>2. \A x \in Int, y \in Nat \ {0} : x \div y \in Int
      OBVIOUS
    <3>3. ((threshold - t.notes) * 25) \div threshold \in Int
      BY <3>1, <3>2
    <3> QED
      BY <2>3, <3>3 DEF Penalty
  <2> QED
    BY <2>2, <2>3
<1>4. Score(row, t).accuracy \in 0 .. Whole
  BY <1>1, <1>3, ClipRange DEF Score, Ticket, Whole
<1>5. Score(row, t).recency \in 0 .. Whole
  <2>1. t.age # NIL => Whole - t.age \in Int
    BY <1>1 DEF Ticket, Whole
  <2> QED
    BY <2>1, ClipRange DEF Score, Whole
<1>6. Score(row, t).coverage \in 0 .. Whole
  <2>1. t.relevance # NIL => Whole - t.relevance \in Int
    BY <1>1 DEF Ticket, Whole
  <2> QED
    BY <2>1, ClipRange DEF Score, Whole
<1> QED
  BY <1>4, <1>5, <1>6 DEF Score, Parts

\* And so is the overall score, for any weights that are numbers.
LEMMA OverallIsShare ==
    ASSUME NEW row \in Settings, NEW t \in Tickets, Scorable(row)
    PROVE  Overall(row, Score(row, t)) \in 0 .. Whole
<1> DEFINE s == Score(row, t)
<1>1. s.accuracy \in Int /\ s.recency \in Int /\ s.coverage \in Int
  BY PartsAreShares DEF Parts, Whole
<1>2. \A part \in Parts : Weight(row, part) \in Int
  BY DEF Scorable, Weight, Row, DefaultWeights, Parts
<1>3. \A x, y \in Int : x * y \in Int
  OBVIOUS
<1>4. /\ Weight(row, "accuracy") * s.accuracy \in Int
      /\ Weight(row, "recency") * s.recency \in Int
      /\ Weight(row, "coverage") * s.coverage \in Int
  <2> HIDE DEF s
  <2> QED
    BY <1>1, <1>2, <1>3 DEF Parts
<1>5. \A x, y, z \in Int : (x + y + z) \div 10 \in Int
  OBVIOUS
<1>6. (Weight(row, "accuracy") * s.accuracy + Weight(row, "recency") * s.recency
       + Weight(row, "coverage") * s.coverage) \div 10 \in Int
  <2> HIDE DEF s
  <2> QED
    BY <1>4, <1>5
<1> QED
  BY <1>6, ClipRange DEF Overall

-----------------------------------------------------------------------------
(* Fuller notes *)

\* A quotient that is rounded down keeps the order of the dividends.
LEMMA QuotientOrder ==
    ASSUME NEW x \in Int, NEW y \in Int, NEW n \in Nat \ {0}, x <= y
    PROVE  x \div n <= y \div n
<1> DEFINE p == x \div n
           q == y \div n
<1>1. p \in Int /\ q \in Int /\ n * p <= x /\ y < n * q + n
  OBVIOUS
<1>2. ASSUME p >= q + 1 PROVE FALSE
  <2> HIDE DEF p, q
  <2>1. n * p >= n * (q + 1) /\ n * (q + 1) = n * q + n
    BY <1>1, <1>2
  <2> QED BY <1>1, <2>1
<1> QED BY <1>1, <1>2

\* Fuller notes have no greater penalty.
LEMMA PenaltyFalls ==
    ASSUME NEW threshold \in Int, NEW m \in Nat, NEW n \in Nat, m <= n
    PROVE  /\ Penalty(threshold, m) \in Int /\ Penalty(threshold, n) \in Int
           /\ Penalty(threshold, n) <= Penalty(threshold, m)
<1>1. CASE n >= threshold \/ threshold <= 0
  <2>1. Penalty(threshold, n) = 0
    BY <1>1 DEF Penalty
  <2>2. CASE m >= threshold \/ threshold <= 0
    BY <2>1, <2>2 DEF Penalty
  <2>3. CASE ~(m >= threshold \/ threshold <= 0)
    <3>1. 0 <= (threshold - m) * 25 /\ threshold \in Nat \ {0}
      BY <2>3
    <3>2. /\ 0 \div threshold <= ((threshold - m) * 25) \div threshold
          /\ 0 \div threshold = 0 /\ ((threshold - m) * 25) \div threshold \in Int
      BY <3>1, QuotientOrder
    <3> QED BY <2>1, <2>3, <3>2 DEF Penalty
  <2> QED BY <2>2, <2>3
<1>2. CASE ~(n >= threshold \/ threshold <= 0)
  <2> DEFINE x == (threshold - n) * 25
             y == (threshold - m) * 25
  <2>1. x \in Int /\ y \in Int /\ x <= y /\ threshold \in Nat \ {0}
        /\ ~(m >= threshold \/ threshold <= 0)
    BY <1>2
  <2>2. /\ Penalty(threshold, n) = x \div threshold
        /\ Penalty(threshold, m) = y \div threshold
    BY <1>2, <2>1 DEF Penalty
  <2> HIDE DEF x, y
  <2>3. /\ x \div threshold \in Int /\ y \div threshold \in Int
        /\ x \div threshold <= y \div threshold
    BY <2>1, QuotientOrder
  <2> QED BY <2>2, <2>3
<1> QED BY <1>1, <1>2

\* The same row scores fuller notes no lower, unless a weight is negative.
LEMMA OverallRises ==
    ASSUME NEW row \in Settings, NEW t \in Tickets, NEW u \in Tickets,
           u.notes >= t.notes, u.age = t.age, u.relevance = t.relevance,
           u.confidence = t.confidence, Scorable(row),
           \A part \in Parts : Weight(row, part) >= 0
    PROVE  Overall(row, Score(row, u)) >= Overall(row, Score(row, t))
<1> DEFINE r == Score(row, t)
           s == Score(row, u)
<1>1. /\ r.accuracy \in Int /\ s.accuracy \in Int /\ r.recency \in Int
      /\ r.coverage \in Int /\ s.recency = r.recency /\ s.coverage = r.coverage
  <2>1. r \in [Parts -> 0 .. Whole] /\ s \in [Parts -> 0 .. Whole]
    BY PartsAreShares
  <2>2. s.recency = r.recency /\ s.coverage = r.coverage
    BY DEF Score
  <2> HIDE DEF r, s
  <2> QED BY <2>1, <2>2 DEF Parts, Whole
<1>2. r.accuracy <= s.accuracy
  <2> DEFINE limit == ThinnessThreshold(row)
  <2>1. /\ limit \in Int /\ t.notes \in Nat /\ u.notes \in Nat
        /\ t.confidence \in Int
    BY DEF Row, Ticket, ThinnessThreshold, Or, Whole
  <2>2. /\ Penalty(limit, t.notes) \in Int /\ Penalty(limit, u.notes) \in Int
        /\ Penalty(limit, u.notes) <= Penalty(limit, t.notes)
    <3> HIDE DEF limit
    <3> QED BY <2>1, PenaltyFalls
  <2>3. /\ r.accuracy = Clip(t.confidence - Penalty(limit, t.notes))
        /\ s.accuracy = Clip(t.confidence - Penalty(limit, u.notes))
    BY DEF Score
  <2> HIDE DEF r, s, limit
  <2> QED BY <2>1, <2>2, <2>3 DEF Clip, Whole
<1> DEFINE a == Weight(row, "accuracy")
           b == Weight(row, "recency") * r.recency
           c == Weight(row, "coverage") * r.coverage
<1>3. /\ a \in Nat /\ Weight(row, "recency") \in Int /\ Weight(row, "coverage") \in Int
  BY DEF Scorable, Weight, Row, DefaultWeights, Parts
<1>4. b \in Int /\ c \in Int
  <2> HIDE DEF r
  <2> QED BY <1>1, <1>3
<1>5. /\ Overall(row, r) = Clip((a * r.accuracy + b + c) \div 10)
      /\ Overall(row, s) = Clip((a * s.accuracy + b + c) \div 10)
  <2> HIDE DEF r, s
  <2> QED BY <1>1 DEF Overall
<1> HIDE DEF r, s, a, b, c
<1>6. a * r.accuracy \in Int /\ a * s.accuracy \in Int /\ a * r.accuracy <= a * s.accuracy
  <2>1. \A k \in Nat, x, y \in Int : x <= y => k * x \in Int /\ k * y \in Int /\ k * x <= k * y
    OBVIOUS
  <2> QED BY <1>1, <1>2, <1>3, <2>1
<1> DEFINE x == a * r.accuracy + b + c
           y == a * s.accuracy + b + c
<1>7. x \in Int /\ y \in Int /\ x <= y
  BY <1>4, <1>6
<1> HIDE DEF x, y
<1>8. x \div 10 \in Int /\ y \div 10 \in Int /\ x \div 10 <= y \div 10
  BY <1>7
<1>9. Clip(y \div 10) >= Clip(x \div 10)
  BY <1>8 DEF Clip, Whole
<1> QED BY <1>5, <1>9 DEF r, s, x, y

-----------------------------------------------------------------------------

\* What is said of the last ticket is what the row that was loaded says of it.
Judged ==
    result # NIL =>
        /\ job.seen \in Settings /\ job.ticket \in Tickets
        /\ result = Judgement(job.seen, job.ticket, job.gap)

\* What the handler has established of the row it loaded.
JobOK ==
    job.pc # "idle" =>
        /\ result = NIL
        /\ job.seen \in inForce
        /\ job.gap => job.pc = "generate"
        /\ ~job.gap /\ job.pc \in {"search", "generate"} =>
              ~Thin(job.seen, job.ticket) /\ job.seen.dedup_threshold # NIL
        /\ ~job.gap /\ job.pc = "generate" => ~IsCovered(job.seen, job.ticket)

IInv == ScoringTypeOK /\ JobOK /\ Judged /\ JudgedByOneRow

LEMMA InitInv == ScoringInit => IInv
BY DEF ScoringInit, IInv, ScoringTypeOK, JobOK, Judged, JudgedByOneRow, NoJob

\* A running job is a ticket with the row it loaded.
LEMMA RunningJob ==
    ASSUME ScoringTypeOK, job.pc # "idle"
    PROVE  job \in [pc : {"idle", "embed", "search", "generate"},
                    gap : BOOLEAN, ticket : Tickets, seen : Settings]
BY DEF ScoringTypeOK, NoJob

\* The four ways a job ends, each with the judgement of the row it loaded.
LEMMA FinishInv ==
    ASSUME IInv, job.pc # "idle", NEW r \in Result, Finish(r),
           r = Judgement(job.seen, job.ticket, job.gap)
    PROVE  IInv'
<1>1. ScoringTypeOK'
  BY RunningJob DEF IInv, ScoringTypeOK, Finish
<1>2. job'.pc = "idle" /\ job'.seen = job.seen /\ job'.ticket = job.ticket
      /\ job'.gap = job.gap
  BY RunningJob DEF IInv, Finish
<1>3. JudgedByOneRow'
  <2>1. job.seen \in inForce' /\ result' = r
    BY DEF IInv, JobOK, Finish
  <2>2. result' = Judgement(job.seen, job'.ticket, job'.gap)
    BY <1>2, <2>1
  <2> QED
    BY <2>1, <2>2 DEF JudgedByOneRow
<1>4. Judged'
  BY <1>2, RunningJob DEF IInv, Judged, Finish
<1> QED
  BY <1>1, <1>2, <1>3, <1>4 DEF IInv, JobOK

LEMMA NextInv == IInv /\ [ScoringNext]_svars => IInv'
<1> SUFFICES ASSUME IInv, [ScoringNext]_svars PROVE IInv'
  OBVIOUS
<1>1. CASE UpdateSettings
  <2>1. PICK row \in Settings :
          /\ settings' = row
          /\ inForce' = IF job.pc = "idle" THEN inForce ELSE inForce \cup {row}
          /\ UNCHANGED <<job, result>>
    BY <1>1 DEF UpdateSettings
  <2>2. inForce \subseteq inForce'
    BY <2>1
  <2>3. ScoringTypeOK'
    BY <2>1 DEF IInv, ScoringTypeOK
  <2>4. JobOK' /\ Judged'
    BY <2>1, <2>2 DEF IInv, JobOK, Judged
  <2>5. JudgedByOneRow'
    BY <2>1, <2>2 DEF IInv, JudgedByOneRow
  <2> QED
    BY <2>3, <2>4, <2>5 DEF IInv
<1>2. ASSUME NEW t \in Tickets, NEW gap \in BOOLEAN, LoadSettings(t, gap)
      PROVE  IInv'
  <2>1. job' = [pc |-> IF gap THEN "generate" ELSE "embed",
                gap |-> gap, ticket |-> t, seen |-> settings]
        /\ inForce' = {settings} /\ result' = NIL /\ settings' = settings
    BY <1>2 DEF LoadSettings
  <2>2. ScoringTypeOK'
    BY <2>1 DEF IInv, ScoringTypeOK
  <2> QED
    BY <2>1, <2>2 DEF IInv, JobOK, Judged, JudgedByOneRow
<1>3. CASE FlagGap
  <2>1. Skipped \in Result
    BY DEF Skipped, Result
  <2>2. job.pc = "embed" /\ Finish(Skipped)
    BY <1>3 DEF FlagGap
  <2>3. Skipped = Judgement(job.seen, job.ticket, job.gap)
    BY <1>3, <2>2 DEF FlagGap, Judgement, IInv, JobOK
  <2> QED
    BY <2>1, <2>2, <2>3, FinishInv
<1>4. CASE NoThreshold
  <2>1. Failed \in Result
    BY DEF Failed, Result
  <2>2. job.pc = "embed" /\ Finish(Failed)
    BY <1>4 DEF NoThreshold
  <2>3. Failed = Judgement(job.seen, job.ticket, job.gap)
    BY <1>4, <2>2 DEF NoThreshold, Judgement, IInv, JobOK
  <2> QED
    BY <2>1, <2>2, <2>3, FinishInv
<1>5. CASE PassGate
  <2>1. /\ job' = [job EXCEPT !.pc = "search"] /\ job.pc = "embed"
        /\ UNCHANGED <<settings, inForce, result>>
    BY <1>5 DEF PassGate
  <2>2. job' = [pc |-> "search", gap |-> job.gap, ticket |-> job.ticket,
                seen |-> job.seen]
    BY <2>1, RunningJob DEF IInv
  <2>3. ScoringTypeOK'
    BY <2>1, <2>2, RunningJob DEF IInv, ScoringTypeOK
  <2>4. JobOK' /\ Judged' /\ JudgedByOneRow'
    BY <1>5, <2>1, <2>2 DEF PassGate, IInv, JobOK, Judged, JudgedByOneRow
  <2> QED
    BY <2>3, <2>4 DEF IInv
<1>6. CASE Cover
  <2>1. Covered \in Result
    BY DEF Covered, Result
  <2>2. job.pc = "search" /\ Finish(Covered)
    BY <1>6 DEF Cover
  <2>3. Covered = Judgement(job.seen, job.ticket, job.gap)
    BY <1>6, <2>2, RunningJob DEF Cover, Judgement, IInv, JobOK
  <2> QED
    BY <2>1, <2>2, <2>3, FinishInv
<1>7. CASE Generate
  <2>1. /\ job' = [job EXCEPT !.pc = "generate"] /\ job.pc = "search"
        /\ UNCHANGED <<settings, inForce, result>>
    BY <1>7 DEF Generate
  <2>2. job' = [pc |-> "generate", gap |-> job.gap, ticket |-> job.ticket,
                seen |-> job.seen]
    BY <2>1, RunningJob DEF IInv
  <2>3. ScoringTypeOK'
    BY <2>1, <2>2, RunningJob DEF IInv, ScoringTypeOK
  <2>4. JobOK' /\ Judged' /\ JudgedByOneRow'
    BY <1>7, <2>1, <2>2 DEF Generate, IInv, JobOK, Judged, JudgedByOneRow
  <2> QED
    BY <2>3, <2>4 DEF IInv
<1>8. CASE ScoreDraft
  <2> DEFINE r == Drafted(job.seen, job.ticket)
  <2>1. job.pc = "generate" /\ Finish(r)
    BY <1>8 DEF ScoreDraft
  <2>2. r \in Result
    <3>1. job.seen \in Settings /\ job.ticket \in Tickets
      BY <2>1, RunningJob DEF IInv
    <3> QED
      BY <1>8, <3>1, OverallIsShare DEF ScoreDraft, Drafted, Result
  <2>3. r = Judgement(job.seen, job.ticket, job.gap)
    BY <1>8, <2>1, RunningJob DEF ScoreDraft, Judgement, IInv, JobOK
  <2> QED
    BY <2>1, <2>2, <2>3, FinishInv
<1>9. CASE NoScore
  <2>1. Failed \in Result
    BY DEF Failed, Result
  <2>2. job.pc = "generate" /\ Finish(Failed) /\ ~Scorable(job.seen)
    BY <1>9 DEF NoScore
  <2>3. Failed = Judgement(job.seen, job.ticket, job.gap)
    BY <2>2, RunningJob DEF Judgement, IInv, JobOK
  <2> QED
    BY <2>1, <2>2, <2>3, FinishInv
<1>10. CASE UNCHANGED svars
  BY <1>10 DEF svars, IInv, ScoringTypeOK, JobOK, Judged, JudgedByOneRow
<1> QED
  BY <1>1, <1>2, <1>3, <1>4, <1>5, <1>6, <1>7, <1>8, <1>9, <1>10 DEF ScoringNext

\* Whatever a PATCH leaves in the row, every score stored is a share
\* (scoring/health.py clips each part and the sum, and raises on a weight that
\* is null).
THEOREM ScoresAreShares == ScoringSpec => []ScoringTypeOK
BY InitInv, NextInv, PTL DEF ScoringSpec, IInv

\* However many PATCHes commit while a ticket is processed, one row that was
\* in force judges it (pipeline/generate.py loads the row once).
THEOREM OneRowJudges == ScoringSpec => []JudgedByOneRow
BY InitInv, NextInv, PTL DEF ScoringSpec, IInv

\* Completing a ticket's notes never costs its article or its score, for any
\* thresholds and any weights that are not negative: the penalty for thin notes
\* and the weighted sum of scoring/health.py never rise as the notes shrink.
THEOREM FullerNotesPay == ScoringSpec => []FullerNotesNeverHurt
<1>1. IInv => FullerNotesNeverHurt
  <2> SUFFICES ASSUME IInv, Drafting, \A part \in Parts : AllWeights(job.seen)[part] >= 0,
                      NEW u \in Tickets, u.notes >= job.ticket.notes,
                      u = [job.ticket EXCEPT !.notes = u.notes]
               PROVE  /\ Judgement(job.seen, u, job.gap).decision = "DRAFTED"
                      /\ Judgement(job.seen, u, job.gap).overall >= result.overall
    BY DEF FullerNotesNeverHurt
  <2> DEFINE t == job.ticket
             row == job.seen
  <2>1. /\ row \in Settings /\ t \in Tickets
        /\ result = Judgement(row, t, job.gap) /\ result.decision = "DRAFTED"
    BY DEF IInv, Judged, Drafting
  <2>2. /\ u.age = t.age /\ u.relevance = t.relevance /\ u.confidence = t.confidence
    BY <2>1 DEF Ticket
  <2>3. /\ result = Drafted(row, t) /\ Scorable(row)
        /\ ~job.gap => ~Thin(row, t) /\ row.dedup_threshold # NIL /\ ~IsCovered(row, t)
    BY <2>1 DEF Judgement, Skipped, Failed, Covered
  <2>4. ~Thin(row, t) => ~Thin(row, u)
    <3>1. t.notes \in Nat /\ u.notes \in Nat
      BY <2>1 DEF Ticket
    <3>2. MinChars(row) \in Int
      BY <2>1 DEF MinChars, Or, Row
    <3> QED BY <3>1, <3>2 DEF Thin
  <2>5. Judgement(row, u, job.gap) = Drafted(row, u)
    BY <2>2, <2>3, <2>4 DEF Judgement, IsCovered
  <2>6. \A part \in Parts : Weight(row, part) >= 0
    BY DEF AllWeights, Weight
  <2>7. Overall(row, Score(row, u)) >= Overall(row, Score(row, t))
    BY <2>1, <2>2, <2>3, <2>6, OverallRises
  <2> QED BY <2>3, <2>5, <2>7 DEF Drafted
<1> QED BY <1>1, InitInv, NextInv, PTL DEF ScoringSpec
=============================================================================
