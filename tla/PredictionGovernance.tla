------------------------- MODULE PredictionGovernance -------------------------
(***************************************************************************)
(* The last two stages of the review of a prediction                       *)
(* (apps/api/app/prediction_safety, apps/api/app/prediction_governance and *)
(* their endpoints in main.py) over the write-once verdicts of the first   *)
(* two, of which Verdicts says what PredictionReview promises.             *)
(*                                                                         *)
(* Neither stage reads the tables of the stages before it.  Both endpoints *)
(* store what the body of the request says, of whatever prediction it      *)
(* names.  An honest administrator looks the earlier results up, evaluates *)
(* the gates with the functions of prediction_safety/core.py and submits   *)
(* what was found, any time later; nothing makes a body honest.            *)
(***************************************************************************)
EXTENDS Verdicts, FiniteSets, Naturals

CONSTANTS
    Admins,
    InputOf,                    \* the inputs a prediction was made from
    RuleBodies,                 \* the `rules` that a safety request may hold
    OutcomeBodies,              \* the `outcomes` that a governance request may hold
    SafetyEnabled, GovernanceEnabled,    \* the two seeded policy rows
    MaxResults, MaxDecisions    \* bounds of the model: rows of safety, of governance

Gates == {"eligibility", "integrity", "ood", "regime"}
GateStatus == {"eligible", "ineligible", "passed", "failed", "incomplete"}
Rules == [Gates -> GateStatus \cup {"absent"}]

\* The decisions that a body reports of the three stages before governance, whether
\* it says that rows are immutable and manifests there (sound), and whether one of
\* the three has the severity "warning".
Outcomes == [structural : {"none", "validated", "validation_failed"},
             statistical : {"none", "validated", "validated_with_warnings",
                            "validation_failed"},
             safety : {"none", "safe", "validated", "unsafe"},
             sound : BOOLEAN, warning : BOOLEAN]

\* What the gates read of an input: whether schema, names, values and checksum
\* are right, its feature values against the bounds, and its market regime.
Input == [genuine : BOOLEAN, bounded : BOOLEAN, regime : {"none", "allowed", "other"}]

ASSUME GovernanceAssumption ==
    /\ Predictions # {}
    /\ InputOf \in [Predictions -> Input]
    /\ RuleBodies \subseteq Rules
    /\ OutcomeBodies \subseteq Outcomes
    /\ SafetyEnabled \in BOOLEAN
    /\ GovernanceEnabled \in BOOLEAN
    /\ MaxResults \in Nat
    /\ MaxDecisions \in Nat

VARIABLES
    withdrawn,      \* predictions with an invalidation or supersession record
    assessed,       \* ml_prediction_safety_results: prediction and decision, and
                    \* (history) whether its body evaluated what had been looked up
    governed,       \* ml_prediction_governance_decisions, likewise, and (history)
                    \* whether its body copied what had been looked up
    seen            \* what each administrator has looked up

governanceVars == <<structural, statistical, withdrawn, assessed, governed, seen>>

Looked == Verdict \cup {"none"}
SafetyDecision == {"safe", "unsafe"}
Sight == [prediction : Predictions, structural : Looked, statistical : Looked,
          withdrawn : BOOLEAN, safety : SafetyDecision \cup {"none"}]
Passing == {"validated", "validated_with_warning"}
GovernanceDecision == {"rejected", "abstain"} \cup Passing

-----------------------------------------------------------------------------
(* The gates *)

SafetyEligibility(sight) ==
    IF sight.statistical = "validated" /\ ~sight.withdrawn
    THEN "eligible" ELSE "ineligible"

ValidateInputIntegrity(input) == IF input.genuine THEN "passed" ELSE "failed"

ValidateOodBounds(input) == IF input.bounded THEN "passed" ELSE "failed"

ValidateRegimeCompatibility(input) ==
    CASE input.regime = "none" -> "incomplete"
      [] input.regime = "allowed" -> "passed"
      [] OTHER -> "failed"

Evaluate(sight) ==
    LET input == InputOf[sight.prediction] IN
    [eligibility |-> SafetyEligibility(sight),
     integrity   |-> ValidateInputIntegrity(input),
     ood         |-> ValidateOodBounds(input),
     regime      |-> ValidateRegimeCompatibility(input)]

\* A body may leave gates out, and a disabled policy fails the eligibility.
Unnamed == [eligibility |-> "failed", integrity |-> "incomplete",
            ood |-> "incomplete", regime |-> "incomplete"]

RuleResults(rules) ==
    [g \in Gates |->
        IF g = "eligibility" /\ ~SafetyEnabled THEN "failed"
        ELSE IF rules[g] = "absent" THEN Unnamed[g] ELSE rules[g]]

\* "ineligible" is neither "failed" nor "incomplete".
AggregateSafety(results) ==
    IF \E g \in Gates : results[g] \in {"failed", "incomplete"}
    THEN "unsafe" ELSE "safe"

-----------------------------------------------------------------------------
(* Governance *)

Rejected(o) == ~GovernanceEnabled \/ ~o.sound \/ o.structural # "validated"
Passed(o) == IF o.warning THEN "validated_with_warning" ELSE "validated"

StatisticsPass(o) == o.statistical \in {"validated", "validated_with_warnings"}
SafetyPasses(o) == o.safety \in {"safe", "validated"}

\* A faulty variant that looks for warnings before it looks at the safety.
WarningsFirst(o) ==
    IF Rejected(o) THEN "rejected"
    ELSE IF ~StatisticsPass(o) \/ (~o.warning /\ ~SafetyPasses(o)) THEN "abstain"
    ELSE Passed(o)

AggregateOutcomes(o) ==
    IF Rejected(o) THEN "rejected"
    ELSE IF ~StatisticsPass(o) \/ ~SafetyPasses(o) THEN "abstain"
    ELSE Passed(o)

-----------------------------------------------------------------------------
(* Behaviour *)

NoSight == [prediction |-> CHOOSE p \in Predictions : TRUE, structural |-> "none",
            statistical |-> "none", withdrawn |-> FALSE, safety |-> "none"]

GovernanceTypeOK ==
    /\ structural \in [Predictions -> Looked]
    /\ statistical \in [Predictions -> Looked]
    /\ withdrawn \subseteq Predictions
    /\ assessed \subseteq [prediction : Predictions, decision : SafetyDecision,
                            evaluated : BOOLEAN]
    /\ governed \subseteq [prediction : Predictions, decision : GovernanceDecision,
                            copied : BOOLEAN]
    /\ seen \in [Admins -> Sight]

GovernanceInit ==
    /\ VerdictsInit
    /\ withdrawn = {}
    /\ assessed = {}
    /\ governed = {}
    /\ seen = [a \in Admins |-> NoSight]

\* One of the first two stages gives a verdict.
Judge(p) ==
    /\ JudgeStructure(p) \/ JudgeStatistics(p)
    /\ UNCHANGED <<withdrawn, assessed, governed, seen>>

\* record_lifecycle for a request whose verdict is there; it changes no verdict.
Withdraw(p) ==
    /\ statistical[p] # "none"
    /\ withdrawn' = withdrawn \cup {p}
    /\ UNCHANGED <<structural, statistical, assessed, governed, seen>>

\* The result, manifest and lifecycle pages, and one of the safety results of the
\* prediction, if the administrator looks for one and there is one.
SafetyTold(p) == {"none"} \cup {x.decision : x \in {y \in assessed : y.prediction = p}}

LookUp(a, p, told) ==
    /\ told \in SafetyTold(p)
    /\ seen' = [seen EXCEPT ![a] =
                   [prediction |-> p, structural |-> structural[p],
                    statistical |-> statistical[p], withdrawn |-> p \in withdrawn,
                    safety |-> told]]
    /\ UNCHANGED <<structural, statistical, withdrawn, assessed, governed>>

\* The gates that the body names have the results that a has found.
Evaluated(a, p, rules) ==
    /\ p = seen[a].prediction
    /\ \A g \in Gates : rules[g] \in {Evaluate(seen[a])[g], "absent"}

\* persist_safety_result, with any body.  The identity of a row is a checksum of
\* prediction and gates: the row is found, added, or refused because a call that
\* overlaps has added it, and is there in every case.  Rows that differ in gates
\* alone are not told apart.
PersistSafetyResult(a, p, rules) ==
    /\ Cardinality(assessed) < MaxResults
    /\ assessed' = assessed \cup
           {[prediction |-> p, decision |-> AggregateSafety(RuleResults(rules)),
             evaluated |-> Evaluated(a, p, rules)]}
    /\ UNCHANGED <<structural, statistical, withdrawn, governed, seen>>

\* The body reports what a has found of the prediction that it names.
Copied(a, p, o) ==
    /\ p = seen[a].prediction
    /\ o.structural = seen[a].structural
    /\ o.statistical = seen[a].statistical
    /\ o.safety = seen[a].safety

\* persist_governance, with any body; again one row per prediction and outcomes.
PersistGovernance(a, p, o) ==
    /\ Cardinality(governed) < MaxDecisions
    /\ governed' = governed \cup
           {[prediction |-> p, decision |-> AggregateOutcomes(o), copied |-> Copied(a, p, o)]}
    /\ UNCHANGED <<structural, statistical, withdrawn, assessed, seen>>

GovernanceNext ==
    \/ \E p \in Predictions : Judge(p) \/ Withdraw(p)
    \/ \E a \in Admins, p \in Predictions :
          \/ \E told \in SafetyDecision \cup {"none"} : LookUp(a, p, told)
          \/ \E rules \in RuleBodies : PersistSafetyResult(a, p, rules)
          \/ \E o \in OutcomeBodies : PersistGovernance(a, p, o)

GovernanceSpec == GovernanceInit /\ [][GovernanceNext]_governanceVars

-----------------------------------------------------------------------------
(* Properties *)

Evidenced(p) ==
    /\ structural[p] = "validated"
    /\ statistical[p] = "validated"
    /\ \E x \in assessed : x.prediction = p /\ x.decision = "safe"

\* All that the endpoint can promise: a body that reports what its sender had found
\* passes a prediction only on evidence that exists and still says so, although the
\* pages may be old and other bodies report anything.
CopiedDecisionsFollowTheEvidence ==
    \A g \in governed : g.copied /\ g.decision \in Passing => Evidenced(g.prediction)

\* Not true, although prediction_governance/__init__.py speaks of validated predictions
\* and its test of existing outcomes only: a body need not report what exists.
GovernanceFollowsTheEvidence ==
    \A g \in governed : g.decision \in Passing => Evidenced(g.prediction)

\* Not true, although docs/layer-3.6.3c-acceptance-matrix.md asks for it: "ineligible"
\* fails no gate, so gates that are evaluated as they should be make a prediction safe
\* that has no validated statistical result.
SafeOnlyWhenEligible ==
    \A x \in assessed :
        x.evaluated /\ x.decision = "safe" => statistical[x.prediction] = "validated"
=============================================================================
