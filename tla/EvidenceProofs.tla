----------------------------- MODULE EvidenceProofs -----------------------------
(***************************************************************************)
(* Proofs about what a prediction rests on: StatisticalEvidence and        *)
(* ResearchPriorities, for every evidence, policy, reading and standing,   *)
(* and PredictionGovernance, for any predictions, administrators, inputs   *)
(* and bodies of requests.                                                 *)
(***************************************************************************)
EXTENDS StatisticalEvidence, ResearchPriorities, PredictionGovernance, TLAPS

-----------------------------------------------------------------------------
(* Statistical evidence *)

\* What a caller has gathered, at a time.
Gathered ==
    /\ DOMAIN supplied = Groups
    /\ \A g \in Groups : supplied[g] \in Evidence[g] \cup {Missing}
    /\ today \in Nat

\* What the caller has gathered is evidence of the kind of its group.
LEMMA GatheredHolds == EvidenceSpec => []Gathered
<1>1. EvidenceInit => Gathered
  BY EvidenceAssumption DEF EvidenceInit, Gathered
<1>2. Gathered /\ [EvidenceNext]_evidenceVars => Gathered'
  <2> SUFFICES ASSUME Gathered, [EvidenceNext]_evidenceVars PROVE Gathered'
    OBVIOUS
  <2>1. ASSUME NEW g \in Groups, NEW e \in Evidence[g], Supply(g, e) PROVE Gathered'
    BY <2>1 DEF Gathered, Supply
  <2>2. CASE NextDay
    BY <2>2 DEF Gathered, NextDay
  <2>3. CASE UNCHANGED evidenceVars
    BY <2>3 DEF Gathered, evidenceVars
  <2> QED BY <2>1, <2>2, <2>3 DEF EvidenceNext
<1> QED BY <1>1, <1>2, PTL DEF EvidenceSpec

\* A validated result: the judgement of every group that is present passed.
LEMMA ValidatedPasses ==
    ASSUME NEW S, AggregateSeverity(S).decision = "validated"
    PROVE  "failed" \notin S /\ "warning" \notin S
BY DEF AggregateSeverity

\* A result is validated or failed, and a failed or a warning judgement fails it.
LEMMA FailedOrWarned ==
    ASSUME NEW S
    PROVE  AggregateSeverity(S).decision = "validation_failed"
             <=> "failed" \in S \/ "warning" \in S
BY DEF AggregateSeverity

\* A calibration that the rules pass.
LEMMA CalibrationPasses ==
    ASSUME Gathered, NEW e \in EvidenceType["calibration"], Passes("calibration", e, today)
    PROVE  Calibrated(e)
<1>1. CalibrationMetrics(e) /\ CalibrationGovernance(e, today)
  BY DEF Passes
<1>2. /\ e.from \in Int \cup {Missing} /\ e.to \in Int \cup {Missing}
      /\ e.largest \in Value /\ Policy.error \in Int /\ today \in Int
  BY EvidenceAssumption DEF EvidenceType, Gathered
<1>3. e.approved /\ e.status # "draft" /\ e.error \in 0 .. Policy.error
  BY <1>1, <1>2 DEF CalibrationMetrics, CalibrationGovernance
<1>4. e.largest # Missing => e.largest \in Int /\ e.largest <= Policy.error
  BY <1>1, <1>2 DEF CalibrationMetrics, Finite, Value
<1>5. \A score \in {e.brier, e.loss} \ {Missing} : score \in Int /\ score >= 0
  BY <1>1 DEF CalibrationMetrics
<1>6. (e.from # Missing => today >= e.from) /\ (e.to # Missing => today < e.to)
  BY <1>1, <1>2 DEF CalibrationGovernance
<1> QED BY <1>3, <1>4, <1>5, <1>6 DEF Calibrated

\* A regression that the rules pass.
LEMMA RegressionPasses ==
    ASSUME NEW e \in EvidenceType["regression"], Passes("regression", e, today)
    PROVE  Regressed(e)
<1>1. Regression(e)
  BY DEF Passes
<1>2. e.residual \in Int \cup {Missing}
  BY <1>1 DEF Regression, EvidenceType, Value
<1> QED BY <1>1, <1>2 DEF Regression, Regressed, Finite

\* An interval that the rules pass.
LEMMA IntervalPasses ==
    ASSUME NEW e \in EvidenceType["interval"], Passes("interval", e, today)
    PROVE  Inside(e, 0)
<1>1. Within(e.value, e.lower, e.upper)
  BY DEF Passes
<1>2. e.lower \in Int /\ e.upper \in Int /\ e.value \in Int
  BY <1>1 DEF EvidenceType, Within, Finite
<1> QED BY <1>1, <1>2 DEF Within, Inside

\* A reference that the rules pass.
LEMMA ReferencePasses ==
    ASSUME NEW e, Passes("reference", e, today)
    PROVE  Inside(e, Policy.tolerance)
BY DEF Passes, ReferenceDistribution, Within, Finite, Inside

\* Counts that the rules pass, of classes and of what a request takes.
LEMMA CountsPass ==
    ASSUME NEW e
    PROVE  /\ Passes("support", e, today) =>
                  e # {} /\ \A n \in e : n \in Nat /\ n >= Policy.support
           /\ Passes("resources", e, today) =>
                  e.classes \in 0 .. Policy.classes /\ e.samples \in 0 .. Policy.samples
<1>1. Passes("support", e, today) => ClassSupport(e)
  BY DEF Passes
<1>2. Passes("resources", e, today) => ResourceLimits(e)
  BY DEF Passes
<1>3. Policy.classes \in Int /\ Policy.samples \in Int
  BY EvidenceAssumption
<1> QED BY <1>1, <1>2, <1>3 DEF ClassSupport, ResourceLimits

\* What validates has nothing against it, whatever the evidence and the policy.
THEOREM ValidatedIsEarnedHolds == EvidenceSpec => []ValidatedIsEarned
<1>1. Gathered => ValidatedIsEarned
  <2> SUFFICES ASSUME Gathered, Result.decision = "validated", NEW g \in Present
               PROVE  LET e == supplied[g] IN
                      /\ g = "classification" => e = "passed"
                      /\ g = "calibration" => Calibrated(e)
                      /\ g = "regression" => Regressed(e)
                      /\ g = "interval" => Inside(e, 0)
                      /\ g = "reference" => Inside(e, Policy.tolerance)
                      /\ g = "support" => e # {} /\ \A n \in e : n \in Nat /\ n >= Policy.support
                      /\ g = "resources" => /\ e.classes \in 0 .. Policy.classes
                                            /\ e.samples \in 0 .. Policy.samples
    BY DEF ValidatedIsEarned
  <2> DEFINE e == supplied[g]
  <2>1. Passes(g, e, today)
    <3>1. Judgement(g, e, today) \in {Judgement(h, supplied[h], today) : h \in Present}
      OBVIOUS
    <3>2. Judgement(g, e, today) \notin {"failed", "warning"}
      BY <3>1, ValidatedPasses DEF Result
    <3> QED BY <3>2 DEF Judgement
  <2>2. e \in EvidenceType[g]
    BY EvidenceAssumption DEF Gathered, Present
  <2>3. g = "classification" => e = "passed"
    BY <2>1 DEF Passes
  <2> HIDE DEF e
  <2>4. g = "calibration" => Calibrated(e)
    BY <2>1, <2>2, CalibrationPasses
  <2>5. g = "regression" => Regressed(e)
    BY <2>1, <2>2, RegressionPasses
  <2>6. g = "interval" => Inside(e, 0)
    BY <2>1, <2>2, IntervalPasses
  <2>7. g = "reference" => Inside(e, Policy.tolerance)
    BY <2>1, ReferencePasses
  <2>8. /\ g = "support" => e # {} /\ \A n \in e : n \in Nat /\ n >= Policy.support
        /\ g = "resources" => /\ e.classes \in 0 .. Policy.classes
                              /\ e.samples \in 0 .. Policy.samples
    BY <2>1, CountsPass
  <2> QED BY <2>3, <2>4, <2>5, <2>6, <2>7, <2>8 DEF e
<1> QED BY <1>1, GatheredHolds, PTL

\* A calibration that has expired fails.
LEMMA ExpiredFails ==
    Gathered /\ Expired => Result.decision = "validation_failed"
<1> SUFFICES ASSUME Gathered, Expired PROVE Result.decision = "validation_failed"
  OBVIOUS
<1> DEFINE e == supplied["calibration"]
<1>1. e \in EvidenceType["calibration"] /\ "calibration" \in Present
  BY EvidenceAssumption DEF Gathered, Groups, Expired, Present
<1>2. ~CalibrationGovernance(e, today)
  <2>1. e.to \in Int /\ today \in Int /\ ~(today < e.to)
    BY <1>1 DEF Expired, EvidenceType, Gathered
  <2> QED BY <2>1 DEF CalibrationGovernance, Expired
<1>3. Judgement("calibration", e, today) = "failed"
  BY <1>2 DEF Judgement, Passes
<1>4. "failed" \in {Judgement(h, supplied[h], today) : h \in Present}
  BY <1>1, <1>3
<1> QED BY <1>4, FailedOrWarned DEF Result

\* Neither more evidence nor, once the calibration has expired, time makes a failure
\* a success.
THEOREM FailureStandsHolds == EvidenceSpec => FailureStands
<1> DEFINE A == (Result.decision = "validation_failed" /\ today' = today) \/ Expired
                  => Result'.decision = "validation_failed"
<1>0. (Gathered /\ Expired => Result.decision = "validation_failed")'
  BY ExpiredFails, PTL
<1>1. Gathered /\ Gathered' /\ [EvidenceNext]_evidenceVars => [A]_evidenceVars
  <2> SUFFICES ASSUME Gathered, Gathered', EvidenceNext,
                      (Result.decision = "validation_failed" /\ today' = today) \/ Expired
               PROVE  Result'.decision = "validation_failed"
    BY DEF evidenceVars
  <2>1. \A h \in Present : supplied'[h] = supplied[h]
    BY DEF EvidenceNext, Supply, NextDay, Present, Gathered
  <2>2. Present \subseteq Present'
    BY <2>1 DEF Present
  <2>3. CASE Expired
    <3>1. today \in Nat /\ today' \in Nat /\ today <= today'
      BY DEF EvidenceNext, Supply, NextDay, Gathered
    <3>2. "calibration" \in Present
      BY <2>3 DEF Expired, Present, Groups
    <3>3. supplied["calibration"].to \in Int
      BY <2>3, EvidenceAssumption DEF Gathered, Expired, Groups, EvidenceType
    <3>4. Expired'
      BY <2>1, <2>3, <3>1, <3>2, <3>3 DEF Expired
    <3> QED BY <3>4, <1>0
  <2>4. CASE Result.decision = "validation_failed" /\ today' = today
    <3> DEFINE S == {Judgement(h, supplied[h], today) : h \in Present}
    <3>1. S \subseteq S'
      BY <2>1, <2>2, <2>4
    <3>2. "failed" \in S \/ "warning" \in S
      BY <2>4, FailedOrWarned DEF Result
    <3>3. Result'.decision = AggregateSeverity(S').decision
      BY DEF Result
    <3> QED BY <3>1, <3>2, <3>3, FailedOrWarned
  <2> QED BY <2>3, <2>4
<1> QED BY <1>1, GatheredHolds, PTL DEF EvidenceSpec, FailureStands


-----------------------------------------------------------------------------
(* Research priorities *)

\* A priority that is not watched for its mixed directions scores at most 33.
LEMMA ScoreBound ==
    ASSUME NEW i, NEW s, Priority(i, s) \in Ranks
    PROVE  /\ Score(i) \in 1 .. 33
           /\ Priority(i, s) # "high_priority_research"
           /\ Blockers(s) = {}
<1>1. Blockers(s) = {} /\ ~(i.technical # {} /\ i.external # {} /\ Mixed(i))
  BY DEF Priority, Ranks
<1>2. Score(i) <= 33
  <2>1. CASE i.technical = {}
    BY <2>1 DEF Score, Points, Aligned
  <2>2. CASE i.external = {}
    BY <2>2 DEF Score, Points, Aligned
  <2>3. CASE ~Mixed(i)
    BY <2>3 DEF Score, Points, Mixed
  <2> QED BY <1>1, <2>1, <2>2, <2>3
<1>3. Score(i) \in Int
  BY DEF Score, Points
<1>4. Score(i) >= 1
  BY <1>1, <1>3 DEF Priority, Ranks
<1> QED BY <1>1, <1>2, <1>3, <1>4 DEF Priority, Ranks

\* A conflict is never ranked, and what blocks the priority blocks the analysis.
THEOREM JudgementsAgreeHolds == ResearchSpec => []JudgementsAgree
<1>1. JudgementsAgree
  <2> SUFFICES ASSUME NEW at \in 0 .. minute, NEW s \in Standings
               PROVE  LET i == AssembleAsOf(at) IN
                      /\ Conflict(i) => Priority(i, s) \notin Ranks
                      /\ Blockers(s) \ s.missing # {} => AnalysisReadiness(i, s) = "not_ready"
    BY DEF JudgementsAgree
  <2> DEFINE i == AssembleAsOf(at)
  <2>1. ASSUME Conflict(i) PROVE Priority(i, s) \notin Ranks
    <3>1. i.technical # {} /\ i.external # {} /\ Mixed(i)
      BY <2>1 DEF Conflict, Mixed
    <3> HIDE DEF i
    <3> QED BY <3>1 DEF Priority, Ranks
  <2>2. ASSUME Blockers(s) \ s.missing # {} PROVE AnalysisReadiness(i, s) = "not_ready"
    <3>1. ~s.active \/ ~s.technical_ready \/ ~s.external_ready
      BY <2>2 DEF Blockers
    <3> HIDE DEF i
    <3> QED BY <3>1 DEF AnalysisReadiness, AnalysisBlocked
  <2> QED BY <2>1, <2>2
<1> QED BY <1>1, PTL

\* A record is what the evaluation of some input for some standing gave.
RecordsEvaluated ==
    /\ DOMAIN records = Minutes
    /\ \A m \in Minutes : records[m] # NoFeature =>
          \E i, s, at : records[m] = Opportunity(i, s, at)

LEMMA RecordsEvaluatedHolds == ResearchSpec => []RecordsEvaluated
<1>1. ResearchInit => RecordsEvaluated
  BY DEF ResearchInit, RecordsEvaluated
<1>2. RecordsEvaluated /\ [ResearchNext]_researchVars => RecordsEvaluated'
  <2> SUFFICES ASSUME RecordsEvaluated, [ResearchNext]_researchVars PROVE RecordsEvaluated'
    OBVIOUS
  <2>1. ASSUME NEW at \in 0 .. minute, NEW s \in Standings, EvaluateAndStore(at, s)
        PROVE  RecordsEvaluated'
    <3> DEFINE r == Opportunity(AssembleAsOf(at), s, at)
    <3>1. \E i, t, m : r = Opportunity(i, t, m)
      OBVIOUS
    <3>2. records' = [records EXCEPT ![at] = r]
      BY <2>1 DEF EvaluateAndStore
    <3> HIDE DEF r
    <3> QED BY <3>1, <3>2 DEF RecordsEvaluated
  <2>2. CASE UNCHANGED records
    BY <2>2 DEF RecordsEvaluated
  <2> QED BY <2>1, <2>2
       DEF ResearchNext, PersistEvidence, LearnEvent, NextMinute, researchVars
<1> QED BY <1>1, <1>2, PTL DEF ResearchSpec

\* No rule can make a priority a high one, and nothing ranked is blocked.
THEOREM RanksAreEarnedHolds == ResearchSpec => []RanksAreEarned
<1>1. RecordsEvaluated => RanksAreEarned
  <2> SUFFICES ASSUME RecordsEvaluated, NEW r \in Stored, r.state \in Ranks
               PROVE  /\ r.state # "high_priority_research" /\ r.score \in 1 .. 33
                      /\ ReadinessPage(r) = "ready"
    BY DEF RanksAreEarned
  <2>1. PICK i, s, at : r = Opportunity(i, s, at)
    BY DEF RecordsEvaluated, Stored
  <2>2. r.state = Priority(i, s) /\ r.score = Score(i) /\ r.blockers = Blockers(s)
    BY <2>1 DEF Opportunity, Ranks
  <2> QED BY <2>2, ScoreBound DEF ReadinessPage
<1> QED BY <1>1, RecordsEvaluatedHolds, PTL

\* What was known as of a time stays what it was when later things become known.
THEOREM AsOfIsStableHolds == ResearchSpec => AsOfIsStable
<1>1. ResearchNext =>
        \A at \in 0 .. minute :
          /\ \A m \in 0 .. at : evidence'[m] = evidence[m]
          /\ \A v \in events' \ events : v.at > at
          => AssembleAsOf(at)' = AssembleAsOf(at)
  <2> SUFFICES ASSUME ResearchNext, NEW at \in 0 .. minute,
                      \A m \in 0 .. at : evidence'[m] = evidence[m],
                      \A v \in events' \ events : v.at > at
               PROVE  AssembleAsOf(at)' = AssembleAsOf(at)
    OBVIOUS
  <2>1. events \subseteq events'
    BY DEF ResearchNext, PersistEvidence, LearnEvent, EvaluateAndStore, NextMinute
  <2>2. ASSUME NEW v \in events', v.at <= at PROVE v \in events
    <3>1. CASE v \in Events
      <4>1. v.at \in Int /\ at \in Int
        BY <3>1, ResearchAssumption DEF EventType, Minutes
      <4> QED BY <2>2, <4>1
    <3>2. CASE v \notin Events
      BY <3>2 DEF ResearchNext, PersistEvidence, LearnEvent, EvaluateAndStore, NextMinute
    <3> QED BY <3>1, <3>2
  <2>3. {w \in events' : w.at <= at} = {w \in events : w.at <= at}
    BY <2>1, <2>2
  <2>4. Known(at)' = Known(at)
    BY DEF Known
  <2>5. {Reading[evidence'[p[1]][p[2]].direction] : p \in Known(at)}
          = {Reading[evidence[p[1]][p[2]].direction] : p \in Known(at)}
    BY DEF Known
  <2>6. (\E v \in events' : v.at <= at /\ v.stale) <=> (\E v \in events : v.at <= at /\ v.stale)
    BY <2>1, <2>2
  <2>7. (Known(at) \cap CalledStale)' = Known(at) \cap CalledStale
    BY <2>4
  <2> QED BY <2>3, <2>4, <2>5, <2>6, <2>7 DEF AssembleAsOf
<1> QED BY <1>1, PTL DEF ResearchSpec, AsOfIsStable

-----------------------------------------------------------------------------
(* Prediction governance: types *)

\* The decisions of the last two stages are of their types, and so are the marks.
LEMMA DecisionTypes ==
    /\ \A results : AggregateSafety(results) \in SafetyDecision
    /\ \A o : AggregateOutcomes(o) \in GovernanceDecision
    /\ \A a, p, rules : Evaluated(a, p, rules) \in BOOLEAN
    /\ \A a, p, o : Copied(a, p, o) \in BOOLEAN
<1>1. \A results : AggregateSafety(results) \in SafetyDecision
  BY DEF AggregateSafety, SafetyDecision
<1>2. \A o : AggregateOutcomes(o) \in GovernanceDecision
  BY DEF AggregateOutcomes, Passed, GovernanceDecision, Passing
<1>3. \A a, p, rules : Evaluated(a, p, rules) \in BOOLEAN
  BY DEF Evaluated
<1>4. \A a, p, o : Copied(a, p, o) \in BOOLEAN
  BY DEF Copied
<1> QED BY <1>1, <1>2, <1>3, <1>4

\* Rows and pages are of their types, for any number of rows and any bodies.
THEOREM GovernanceTypeCorrect == GovernanceSpec => []GovernanceTypeOK
<1>1. GovernanceInit => GovernanceTypeOK
  <2>1. NoSight \in Sight
    BY GovernanceAssumption DEF NoSight, Sight, Looked
  <2> QED BY <2>1 DEF GovernanceInit, VerdictsInit, GovernanceTypeOK, Looked
<1>2. GovernanceTypeOK /\ [GovernanceNext]_governanceVars => GovernanceTypeOK'
  <2> SUFFICES ASSUME GovernanceTypeOK, [GovernanceNext]_governanceVars
               PROVE  GovernanceTypeOK'
    OBVIOUS
  <2> USE DEF GovernanceTypeOK
  <2>1. ASSUME NEW p \in Predictions, Judge(p) PROVE GovernanceTypeOK'
    BY <2>1 DEF Judge, JudgeStructure, JudgeStatistics, Looked
  <2>2. ASSUME NEW p \in Predictions, Withdraw(p) PROVE GovernanceTypeOK'
    BY <2>2 DEF Withdraw
  <2>3. ASSUME NEW a \in Admins, NEW p \in Predictions, NEW told \in SafetyDecision \cup {"none"},
               LookUp(a, p, told)
        PROVE  GovernanceTypeOK'
    BY <2>3 DEF LookUp, Sight
  <2>4. ASSUME NEW a \in Admins, NEW p \in Predictions, NEW rules \in RuleBodies,
               PersistSafetyResult(a, p, rules)
        PROVE  GovernanceTypeOK'
    <3> DEFINE x == [prediction |-> p, decision |-> AggregateSafety(RuleResults(rules)),
                     evaluated |-> Evaluated(a, p, rules)]
    <3>1. x \in [prediction : Predictions, decision : SafetyDecision, evaluated : BOOLEAN]
      BY DecisionTypes
    <3> HIDE DEF x
    <3> QED BY <2>4, <3>1 DEF PersistSafetyResult, x
  <2>5. ASSUME NEW a \in Admins, NEW p \in Predictions, NEW o \in OutcomeBodies,
               PersistGovernance(a, p, o)
        PROVE  GovernanceTypeOK'
    <3> DEFINE g == [prediction |-> p, decision |-> AggregateOutcomes(o),
                     copied |-> Copied(a, p, o)]
    <3>1. g \in [prediction : Predictions, decision : GovernanceDecision, copied : BOOLEAN]
      BY DecisionTypes
    <3> HIDE DEF g
    <3> QED BY <2>5, <3>1 DEF PersistGovernance, g
  <2>6. CASE UNCHANGED governanceVars
    BY <2>6 DEF governanceVars
  <2> QED BY <2>1, <2>2, <2>3, <2>4, <2>5, <2>6 DEF GovernanceNext
<1> QED BY <1>1, <1>2, PTL DEF GovernanceSpec

-----------------------------------------------------------------------------
(* Prediction governance: evidence *)

\* A page that showed a verdict or a safety result still shows the truth: verdicts are
\* written once and no result is ever removed.
SightsStandTrue ==
    \A a \in Admins :
        LET s == seen[a] IN
        /\ s.structural # "none" => structural[s.prediction] = s.structural
        /\ s.statistical # "none" => statistical[s.prediction] = s.statistical
        /\ s.safety # "none" =>
              \E x \in assessed : x.prediction = s.prediction /\ x.decision = s.safety

\* Governance passes a prediction only if it was told of all three results; of what the
\* pages can show, these are a validated statistical result and a safe safety result.
LEMMA PassesOnAll ==
    ASSUME NEW o, AggregateOutcomes(o) \in Passing
    PROVE  /\ o.structural = "validated"
           /\ o.statistical \in Looked => o.statistical = "validated"
           /\ o.safety \in SafetyDecision \cup {"none"} => o.safety = "safe"
<1>1. ~Rejected(o) /\ StatisticsPass(o) /\ SafetyPasses(o)
  BY DEF AggregateOutcomes, Passing
<1> QED BY <1>1 DEF Rejected, StatisticsPass, SafetyPasses, Looked, Verdict, SafetyDecision

\* A body that copies true pages, and passes, has the evidence.
LEMMA CopiedIsEvidenced ==
    ASSUME GovernanceTypeOK, SightsStandTrue, NEW a \in Admins, NEW p, NEW o,
           Copied(a, p, o), AggregateOutcomes(o) \in Passing
    PROVE  Evidenced(p)
<1>1. seen[a] \in Sight
  BY DEF GovernanceTypeOK
<1>2. /\ seen[a].structural = "validated"
      /\ seen[a].statistical = "validated"
      /\ seen[a].safety = "safe"
  BY <1>1, PassesOnAll DEF Copied, Sight
<1> QED BY <1>2 DEF SightsStandTrue, Copied, Evidenced

\* Evidence lasts.
LEMMA EvidenceLasts ==
    ASSUME NEW p, Evidenced(p), GovernanceTypeOK, GovernanceNext, p \in Predictions
    PROVE  Evidenced(p)'
<1>1. structural'[p] = structural[p] /\ statistical'[p] = statistical[p]
  BY DEF Evidenced, GovernanceNext, Judge, JudgeStructure, JudgeStatistics, Withdraw, LookUp,
         PersistSafetyResult, PersistGovernance, GovernanceTypeOK
<1>2. assessed \subseteq assessed'
  BY DEF GovernanceNext, Judge, Withdraw, LookUp, PersistSafetyResult, PersistGovernance
<1> QED BY <1>1, <1>2 DEF Evidenced

\* A decision whose body copied what its sender had found passes only on evidence that
\* exists, however old the pages were and whatever other bodies say.
THEOREM CopiedDecisionsFollowTheEvidenceHolds ==
    GovernanceSpec => []CopiedDecisionsFollowTheEvidence
<1> DEFINE IInv == SightsStandTrue /\ CopiedDecisionsFollowTheEvidence
<1>1. GovernanceInit => IInv
  <2>1. NoSight.structural = "none" /\ NoSight.statistical = "none" /\ NoSight.safety = "none"
    BY DEF NoSight
  <2> QED BY <2>1 DEF GovernanceInit, SightsStandTrue, CopiedDecisionsFollowTheEvidence
<1>2. GovernanceTypeOK /\ IInv /\ [GovernanceNext]_governanceVars => IInv'
  <2> SUFFICES ASSUME GovernanceTypeOK, IInv, GovernanceNext PROVE IInv'
    BY DEF governanceVars, SightsStandTrue, CopiedDecisionsFollowTheEvidence, Evidenced
  <2>1. SightsStandTrue'
    <3> USE DEF GovernanceTypeOK, Sight
    <3>1. ASSUME NEW p \in Predictions, Judge(p) PROVE SightsStandTrue'
      <4>1. \A q \in Predictions :
              /\ structural[q] # "none" => structural'[q] = structural[q]
              /\ statistical[q] # "none" => statistical'[q] = statistical[q]
        BY <3>1 DEF Judge, JudgeStructure, JudgeStatistics
      <4> QED BY <3>1, <4>1 DEF SightsStandTrue, Judge
    <3>2. ASSUME NEW p \in Predictions, Withdraw(p) PROVE SightsStandTrue'
      BY <3>2 DEF Withdraw, SightsStandTrue
    <3>3. ASSUME NEW a \in Admins, NEW p \in Predictions,
                 NEW told \in SafetyDecision \cup {"none"}, LookUp(a, p, told)
          PROVE  SightsStandTrue'
      BY <3>3 DEF LookUp, SafetyTold, SightsStandTrue
    <3>4. ASSUME NEW a \in Admins, NEW p \in Predictions, NEW rules \in RuleBodies,
                 PersistSafetyResult(a, p, rules)
          PROVE  SightsStandTrue'
      BY <3>4 DEF PersistSafetyResult, SightsStandTrue
    <3>5. ASSUME NEW a \in Admins, NEW p \in Predictions, NEW o \in OutcomeBodies,
                 PersistGovernance(a, p, o)
          PROVE  SightsStandTrue'
      BY <3>5 DEF PersistGovernance, SightsStandTrue
    <3> QED BY <3>1, <3>2, <3>3, <3>4, <3>5 DEF GovernanceNext
  <2>2. ASSUME NEW g \in governed', g.copied, g.decision \in Passing
        PROVE  Evidenced(g.prediction)'
    <3>1. CASE g \in governed
      <4>1. Evidenced(g.prediction) /\ g.prediction \in Predictions
        BY <2>2, <3>1 DEF CopiedDecisionsFollowTheEvidence, GovernanceTypeOK
      <4> QED BY <4>1, EvidenceLasts
    <3>2. CASE g \notin governed
      <4>1. PICK a \in Admins, p \in Predictions, o \in OutcomeBodies :
                PersistGovernance(a, p, o)
        BY <2>2, <3>2
           DEF GovernanceNext, Judge, Withdraw, LookUp, PersistSafetyResult
      <4>2. g = [prediction |-> p, decision |-> AggregateOutcomes(o), copied |-> Copied(a, p, o)]
        BY <2>2, <3>2, <4>1 DEF PersistGovernance
      <4>3. Copied(a, p, o) /\ AggregateOutcomes(o) \in Passing /\ g.prediction = p
        BY <2>2, <4>2
      <4>4. Evidenced(p)
        BY <4>3, CopiedIsEvidenced
      <4> QED BY <4>3, <4>4, EvidenceLasts
    <3> QED BY <3>1, <3>2
  <2> QED BY <2>1, <2>2 DEF CopiedDecisionsFollowTheEvidence
<1> QED BY <1>1, <1>2, GovernanceTypeCorrect, PTL DEF GovernanceSpec
=============================================================================
