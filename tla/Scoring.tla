-------------------------------- MODULE Scoring --------------------------------
(***************************************************************************)
(* The row of kb.settings and the numbers a ticket is judged by:           *)
(* update_settings of api/settings.py, score() of scoring/health.py, and   *)
(* what process_ticket of pipeline/generate.py and draft_for_gap of        *)
(* api/tickets.py do with them.  Both load the row once and use it across  *)
(* the calls of the models, while a PATCH may commit in between.           *)
(*                                                                         *)
(* Abstractions: shares (scores, relevance, confidence, thresholds) are    *)
(* whole percents, weights tenths, the age of a resolution a percentage of *)
(* a year, notes a number of characters, with no blanks around them; a     *)
(* quotient is rounded down; a weight the row's JSON leaves out, or has no *)
(* object for, is NIL, and one that is there but null, or no number, is    *)
(* NaN.  The search's answer and the confidence the model gives itself     *)
(* come with the ticket.  Of the row's columns these four are the ones the *)
(* program reads after it was written; the others a PATCH changes have no  *)
(* reader.                                                                 *)
(***************************************************************************)
EXTENDS Integers, FiniteSets

CONSTANTS
    NIL,          \* SQL NULL, None
    NaN,          \* a weight that is given and cannot be multiplied
    Settings,     \* the rows a PATCH may leave
    Default,      \* the row of the first migration
    MaxRows,      \* bound on the rows in force during one job
    Tickets       \* [notes, age, relevance, confidence]

Parts == {"accuracy", "recency", "coverage"}
Whole == 100

Row == [min_resolution_chars : Int, dedup_threshold : Int \cup {NIL},
        thinness_threshold_chars : Int, score_weights : [Parts -> Int \cup {NIL, NaN}]]
Ticket == [notes : Nat, age : Nat \cup {NIL},
           relevance : (0 .. Whole) \cup {NIL}, confidence : 0 .. Whole]

ASSUME ScoringAssumption ==
    /\ Settings \subseteq Row
    /\ Default \in Settings
    /\ Tickets \subseteq Ticket
    /\ MaxRows \in Nat
    /\ {NIL, NaN} \cap Int = {} /\ NIL # NaN

VARIABLES
    settings,  \* the row
    job,       \* the ticket a session is at, with the row it loaded
    inForce,   \* history: the rows committed since it loaded its own
    result     \* what became of the ticket

svars == <<settings, job, inForce, result>>

-----------------------------------------------------------------------------
(* score() *)

Clip(x) == IF x < 0 THEN 0 ELSE IF x > Whole THEN Whole ELSE x

\* `x or d`: a zero is taken for a missing value.
Or(x, d) == IF x = 0 THEN d ELSE x

MinChars(row) == Or(row.min_resolution_chars, 20)
ThinnessThreshold(row) == Or(row.thinness_threshold_chars, 120)

DefaultWeights == [accuracy |-> 5, recency |-> 2, coverage |-> 3]

Weight(row, part) ==
    IF row.score_weights[part] # NIL THEN row.score_weights[part]
                                         ELSE DefaultWeights[part]

Scorable(row) == \A part \in Parts : row.score_weights[part] # NaN

\* Mutant: the share of notes that is there is deducted, not the missing one.
Penalty_Inverted(threshold, notes) ==
    IF notes >= threshold \/ threshold <= 0 THEN 0
    ELSE (notes * 25) \div threshold

Penalty(threshold, notes) ==
    IF notes >= threshold \/ threshold <= 0 THEN 0
    ELSE ((threshold - notes) * 25) \div threshold

Score(row, t) ==
    [accuracy |-> Clip(t.confidence - Penalty(ThinnessThreshold(row), t.notes)),
     recency  |-> IF t.age = NIL THEN 50 ELSE Clip(Whole - t.age),
     coverage |-> IF t.relevance = NIL THEN Whole ELSE Clip(Whole - t.relevance)]

\* Mutant: the weighted sum is stored as it is.
Overall_Unclipped(row, s) ==
    ( Weight(row, "accuracy") * s.accuracy + Weight(row, "recency") * s.recency
    + Weight(row, "coverage") * s.coverage) \div 10

Overall(row, s) ==
    Clip(( Weight(row, "accuracy") * s.accuracy
         + Weight(row, "recency") * s.recency
         + Weight(row, "coverage") * s.coverage) \div 10)

-----------------------------------------------------------------------------
(* The handlers *)

Failed == [decision |-> "ERROR", overall |-> NIL]
Skipped == [decision |-> "SKIPPED", overall |-> NIL]
Covered == [decision |-> "COVERED", overall |-> NIL]
Drafted(row, t) == [decision |-> "DRAFTED", overall |-> Overall(row, Score(row, t))]

NoJob == [pc |-> "idle", gap |-> FALSE, ticket |-> NIL, seen |-> NIL]

ScoringInit ==
    /\ settings = Default
    /\ job = NoJob
    /\ inForce = {}
    /\ result = NIL

\* PATCH /settings: any of the columns, in one commit.
UpdateSettings ==
    \E row \in Settings \ {settings} :
        /\ job.pc = "idle" \/ Cardinality(inForce) < MaxRows
        /\ settings' = row
        /\ inForce' = IF job.pc = "idle" THEN inForce ELSE inForce \cup {row}
        /\ UNCHANGED <<job, result>>

\* A gap-draft has passed the gate long ago and needs a neighbour.
LoadSettings(t, gap) ==
    /\ job.pc = "idle"
    /\ gap => t.relevance # NIL /\ t.relevance >= 55
    /\ job' = [pc |-> IF gap THEN "generate" ELSE "embed",
               gap |-> gap, ticket |-> t, seen |-> settings]
    /\ inForce' = {settings}
    /\ result' = NIL
    /\ UNCHANGED settings

Finish(r) ==
    /\ result' = r
    /\ job' = [job EXCEPT !.pc = "idle"]
    /\ UNCHANGED <<settings, inForce>>

Thin(row, t) == t.notes < MinChars(row)

FlagGap ==
    /\ job.pc = "embed"
    /\ Thin(job.seen, job.ticket)
    /\ Finish(Skipped)

\* float(None): the ticket fails, as does every ticket until the next PATCH.
NoThreshold ==
    /\ job.pc = "embed"
    /\ ~Thin(job.seen, job.ticket)
    /\ job.seen.dedup_threshold = NIL
    /\ Finish(Failed)

PassGate ==
    /\ job.pc = "embed"
    /\ ~Thin(job.seen, job.ticket)
    /\ job.seen.dedup_threshold # NIL
    /\ job' = [job EXCEPT !.pc = "search"]
    /\ UNCHANGED <<settings, inForce, result>>

IsCovered(row, t) == t.relevance # NIL /\ t.relevance >= row.dedup_threshold

Cover ==
    /\ job.pc = "search"
    /\ IsCovered(job.seen, job.ticket)
    /\ Finish(Covered)

Generate ==
    /\ job.pc = "search"
    /\ ~IsCovered(job.seen, job.ticket)
    /\ job' = [job EXCEPT !.pc = "generate"]
    /\ UNCHANGED <<settings, inForce, result>>

\* Mutant: the score is computed from the row as it is now.
ScoreDraft_Reread ==
    /\ job.pc = "generate"
    /\ Scorable(job.seen)
    /\ Finish(IF Scorable(settings) THEN Drafted(settings, job.ticket) ELSE Failed)

ScoreDraft ==
    /\ job.pc = "generate"
    /\ Scorable(job.seen)
    /\ Finish(Drafted(job.seen, job.ticket))

\* None times a share: the generated draft is lost, before anything is stored.
NoScore ==
    /\ job.pc = "generate"
    /\ ~Scorable(job.seen)
    /\ Finish(Failed)

ScoringNext ==
    \/ UpdateSettings
    \/ \E t \in Tickets, gap \in BOOLEAN : LoadSettings(t, gap)
    \/ FlagGap
    \/ NoThreshold
    \/ PassGate
    \/ Cover
    \/ Generate
    \/ ScoreDraft
    \/ NoScore

ScoringSpec == ScoringInit /\ [][ScoringNext]_svars

-----------------------------------------------------------------------------
(* Properties *)

Result == [decision : {"ERROR", "SKIPPED", "COVERED"}, overall : {NIL}]
          \cup [decision : {"DRAFTED"}, overall : 0 .. Whole]

\* Everything keeps its type; in particular a score is a share whatever
\* weights and thresholds a PATCH leaves in the row.
ScoringTypeOK ==
    /\ settings \in Settings
    /\ job = NoJob \/ job \in [pc : {"idle", "embed", "search", "generate"},
                               gap : BOOLEAN, ticket : Tickets, seen : Settings]
    /\ inForce \subseteq Settings
    /\ result \in Result \cup {NIL}

\* What one row says of a ticket.
Judgement(row, t, gap) ==
    IF ~gap /\ Thin(row, t) THEN Skipped
    ELSE IF ~gap /\ row.dedup_threshold = NIL THEN Failed
    ELSE IF ~gap /\ IsCovered(row, t) THEN Covered
    ELSE IF ~Scorable(row) THEN Failed
    ELSE Drafted(row, t)

\* A ticket is judged by one row that was in force while it was processed:
\* never skipped or drafted by one row and scored by another, although PATCH
\* may commit at each of the handler's awaits.
JudgedByOneRow ==
    result # NIL =>
        \E row \in inForce : result = Judgement(row, job.ticket, job.gap)

AllWeights(row) == [part \in Parts |->
    IF row.score_weights[part] # NIL THEN row.score_weights[part]
                                         ELSE DefaultWeights[part]]

Drafting == job.pc = "idle" /\ result # NIL /\ result.decision = "DRAFTED"

\* Completing the notes of a ticket never costs its article: what was drafted
\* is still drafted, with a score that is not lower, for any thresholds and
\* weights that are not negative.
FullerNotesNeverHurt ==
    (Drafting /\ \A part \in Parts : AllWeights(job.seen)[part] >= 0) =>
        \A t \in Tickets :
            (t.notes >= job.ticket.notes
                /\ t = [job.ticket EXCEPT !.notes = t.notes])
            => /\ Judgement(job.seen, t, job.gap).decision = "DRAFTED"
               /\ Judgement(job.seen, t, job.gap).overall >= result.overall
=============================================================================
