--------------------------- MODULE ResearchPriorities ---------------------------
(***************************************************************************)
(* Evidence about one instrument and the research priority computed from   *)
(* it: apps/api/app/evidence and apps/api/app/opportunity.                 *)
(*                                                                         *)
(* persist_evidence evaluates a rule on features; assemble_as_of takes the *)
(* rows and the external events known at a time; analyze and               *)
(* evaluate_opportunity judge them, independently of each other; and       *)
(* evaluate_and_store keeps one record for each time.  No endpoint calls   *)
(* them: when they are called, and for which time, is free.                *)
(***************************************************************************)
EXTENDS Integers

CONSTANTS
    Features,       \* the values that a rule may be given, by evidence code
    NoFeature,      \* a required feature that is missing
    Reading,        \* what the caller calls a direction of the evidence
    CalledStale,    \* the rows of evidence, by time and code, that the caller calls stale
    Events,         \* external events: impact, time and staleness
    Standings,      \* the readiness that a caller passes on
    Never,          \* a priority that does not expire
    LastMinute      \* bound of the model

Codes == {"PRICE_ABOVE_EMA", "TREND_SLOPE", "RSI_STATE", "RELATIVE_VOLUME",
          "PROVIDER_FRESHNESS"}
Directions == {"bullish", "bearish", "neutral", "caution", "unavailable"}
Leanings == Directions \cup {"positive", "negative"}
Minutes == 0 .. LastMinute

EventType == [impact : Leanings, at : Minutes, stale : BOOLEAN]
StandingType == [technical_ready : BOOLEAN, external_ready : BOOLEAN, active : BOOLEAN,
                 missing : SUBSET {"MISSING_EVIDENCE"},
                 expires_at : Minutes \cup {Never}]

ASSUME ResearchAssumption ==
    /\ LastMinute \in Nat
    /\ \A c \in Codes : Features[c] \subseteq Int \cup {NoFeature}
    /\ NoFeature \notin Int
    /\ Reading \in [Directions -> Leanings]
    /\ CalledStale \subseteq Minutes \X Codes
    /\ Events \subseteq EventType
    /\ Standings \subseteq StandingType
    /\ Never \notin Int

VARIABLES
    evidence,       \* evidence_evaluations, by time and code; NoFeature: no row
    events,         \* the external events that the caller knows of
    records,        \* opportunity_records, by time; NoFeature: no row
    minute

researchVars == <<evidence, events, records, minute>>

-----------------------------------------------------------------------------
(* evidence/engine.py: the direction.  State and strength are left out. *)

Lean(x) == IF x > 0 THEN "bullish" ELSE IF x < 0 THEN "bearish" ELSE "neutral"

Direction(code, x) ==
    CASE x = NoFeature -> "unavailable"
      [] x # NoFeature /\ code \in {"PRICE_ABOVE_EMA", "TREND_SLOPE"} -> Lean(x)
      [] x # NoFeature /\ code = "RSI_STATE" ->
            IF x >= 70 \/ x <= 30 THEN "caution" ELSE "neutral"
      [] x # NoFeature /\ code = "RELATIVE_VOLUME" -> "neutral"
      [] x # NoFeature /\ code = "PROVIDER_FRESHNESS" ->
            IF x = 1 THEN "neutral" ELSE "unavailable"

-----------------------------------------------------------------------------
(* opportunity/analysis.py *)

Known(at) == {p \in (0 .. at) \X Codes : evidence[p[1]][p[2]] # NoFeature}

AssembleAsOf(at) ==
    [technical |-> {Reading[evidence[p[1]][p[2]].direction] : p \in Known(at)},
     external  |-> {v.impact : v \in {w \in events : w.at <= at}},
     stale     |-> \/ Known(at) \cap CalledStale # {}
                   \/ \E v \in events : v.at <= at /\ v.stale]

Conflict(i) ==
    \/ "positive" \in i.technical /\ "negative" \in i.external
    \/ "negative" \in i.technical /\ "positive" \in i.external

AnalysisBlocked(i, s) == ~s.technical_ready \/ ~s.active \/ ~s.external_ready \/ i.stale

AnalysisReadiness(i, s) ==
    IF AnalysisBlocked(i, s) THEN "not_ready"
    ELSE IF Conflict(i) \/ i.external = {} THEN "degraded" ELSE "ready"

-----------------------------------------------------------------------------
(* opportunity/engine.py *)

Blockers(s) ==
    s.missing
    \cup (IF s.active THEN {} ELSE {"INACTIVE_INSTRUMENT"})
    \cup (IF s.technical_ready THEN {} ELSE {"TECHNICAL_DATA_NOT_READY"})
    \cup (IF s.external_ready THEN {} ELSE {"EXTERNAL_DATA_NOT_READY"})

Points(d, directions, n) == IF d \in directions THEN n ELSE 0

Aligned(i) == {"positive", "negative"} \cap i.technical \cap i.external # {}

\* The sum is never outside of 0 .. 100.
Score(i) ==
    Points("positive", i.technical, 10) + Points("negative", i.technical, 10)
    + Points("positive", i.external, 15) + Points("negative", i.external, 15)
    + (IF Aligned(i) THEN 8 ELSE 0)

Mixed(i) == \E d, f \in i.technical \cup i.external : d # f

\* A faulty variant that ranks mixed directions too.
PriorityByScore(i, s) ==
    CASE Blockers(s) # {} -> "insufficient_data"
      [] Blockers(s) = {} /\ Score(i) >= 50 -> "high_priority_research"
      [] Blockers(s) = {} /\ Score(i) \in 30 .. 49 -> "medium_priority_research"
      [] Blockers(s) = {} /\ Score(i) \in 1 .. 29 -> "low_priority_research"
      [] OTHER -> "monitor"

Priority(i, s) ==
    LET watched == i.technical # {} /\ i.external # {} /\ Mixed(i)
        ranked == Blockers(s) = {} /\ ~watched IN
    CASE Blockers(s) # {} -> "insufficient_data"
      [] ranked /\ Score(i) >= 50 -> "high_priority_research"
      [] ranked /\ Score(i) \in 30 .. 49 -> "medium_priority_research"
      [] ranked /\ Score(i) \in 1 .. 29 -> "low_priority_research"
      [] OTHER -> "monitor"

Orientation(i) ==
    LET all == i.technical \cup i.external IN
    CASE Mixed(i) -> "mixed"
      [] ~Mixed(i) /\ "positive" \in all -> "positive_alignment"
      [] ~Mixed(i) /\ "negative" \in all -> "negative_alignment"
      [] OTHER -> "neutral"

Opportunity(i, s, at) ==
    IF s.expires_at # Never /\ at >= s.expires_at
    THEN [state |-> "expired", orientation |-> "unavailable", score |-> 0,
          blockers |-> Blockers(s)]
    ELSE [state |-> Priority(i, s), orientation |-> Orientation(i), score |-> Score(i),
          blockers |-> Blockers(s)]

\* GET /api/v2/opportunities/readiness
ReadinessPage(r) == IF r.blockers # {} THEN "not_ready" ELSE "ready"

-----------------------------------------------------------------------------
(* Behaviour *)

ResearchInit ==
    /\ evidence = [m \in Minutes |-> [c \in Codes |-> NoFeature]]
    /\ events = {}
    /\ records = [m \in Minutes |-> NoFeature]
    /\ minute = 0

\* The readiness is that of the first evaluation for the time.
PersistEvidence(at, code, x) ==
    LET row == evidence[at][code]
        found == Direction(code, x) IN
    /\ evidence' = [evidence EXCEPT ![at][code] =
          [direction |-> found,
           readiness |-> IF row # NoFeature THEN row.readiness
                         ELSE IF found # "unavailable" THEN "ready" ELSE "not_ready"]]
    /\ UNCHANGED <<events, records, minute>>

LearnEvent(v) ==
    /\ v.at <= minute
    /\ events' = events \cup {v}
    /\ UNCHANGED <<evidence, records, minute>>

EvaluateAndStore(at, s) ==
    /\ records' = [records EXCEPT ![at] = Opportunity(AssembleAsOf(at), s, at)]
    /\ UNCHANGED <<evidence, events, minute>>

NextMinute ==
    /\ minute < LastMinute
    /\ minute' = minute + 1
    /\ UNCHANGED <<evidence, events, records>>

ResearchNext ==
    \/ \E at \in 0 .. minute :
          \/ \E code \in Codes : \E x \in Features[code] : PersistEvidence(at, code, x)
          \/ \E s \in Standings : EvaluateAndStore(at, s)
    \/ \E v \in Events : LearnEvent(v)
    \/ NextMinute

ResearchSpec == ResearchInit /\ [][ResearchNext]_researchVars

-----------------------------------------------------------------------------
(* Properties *)

Ranks == {"low_priority_research", "medium_priority_research", "high_priority_research"}
Stored == {records[m] : m \in {n \in Minutes : records[n] # NoFeature}}

\* The two independent judgements agree: what analyze reports as a conflict is never
\* ranked, and what blocks the priority makes the analysis not ready.
JudgementsAgree ==
    \A at \in 0 .. minute : \A s \in Standings :
        LET i == AssembleAsOf(at) IN
        /\ Conflict(i) => Priority(i, s) \notin Ranks
        /\ Blockers(s) \ s.missing # {} => AnalysisReadiness(i, s) = "not_ready"

\* What the records say of a rank: it is never a high one, as one direction scores at
\* most 33 of the 50 points and several directions are watched or score 30; and the
\* readiness page never calls what is ranked not ready.
RanksAreEarned ==
    \A r \in Stored : r.state \in Ranks =>
        /\ r.state # "high_priority_research" /\ r.score \in 1 .. 33
        /\ ReadinessPage(r) = "ready"

\* Evidence and events of a later time do not change what was known as of a time, so
\* that an evaluation can be repeated.
AsOfIsStable ==
    [][\A at \in 0 .. minute :
          /\ \A m \in 0 .. at : evidence'[m] = evidence[m]
          /\ \A v \in events' \ events : v.at > at
          => AssembleAsOf(at)' = AssembleAsOf(at)]_researchVars

\* Not true: a row that is evaluated again keeps the readiness of the first time.
ReadinessFollows ==
    \A m \in Minutes : \A c \in Codes : evidence[m][c] # NoFeature =>
        (evidence[m][c].readiness = "ready" <=> evidence[m][c].direction # "unavailable")
=============================================================================
