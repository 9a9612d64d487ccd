-------------------------- MODULE StatisticalEvidence --------------------------
(***************************************************************************)
(* The rules by which apps/api/app/statistical_validation/core.py judges   *)
(* the evidence about a prediction and its model.                          *)
(* run_end_to_end_validation is a function of the groups of evidence that  *)
(* its caller has and of the time of the evaluation; no endpoint calls it. *)
(* Here a caller gathers the groups one by one, while time passes, and     *)
(* what matters is what the function would return in every state.          *)
(*                                                                         *)
(* Numbers are integers, on a scale of the caller's choice.                *)
(***************************************************************************)
EXTENDS Integers

CONSTANTS
    Evidence,       \* the evidence that there is, by group
    Missing,        \* an argument, a key or a value that is absent
    NotFinite,      \* NaN, +infinity, or no number at all
    Policy,
    LastDay         \* bound of the model

Groups == {"classification", "calibration", "regression", "interval", "reference",
           "support", "resources"}

Value == Int \cup {NotFinite, Missing}

\* classification is a result of classification_statistics; support is the set of
\* the counts of all classes.
EvidenceType ==
    [classification |-> {"passed", "failed"},
     calibration |-> [error : Value, largest : Value, brier : Value, loss : Value,
                      status : {"valid", "valid_with_warnings", "draft"},
                      approved : BOOLEAN,
                      from : Int \cup {Missing}, to : Int \cup {Missing}],
     regression |-> [value : Int \cup {NotFinite}, residual : Value],
     interval |-> [value : Int, lower : Value, upper : Value],
     reference |-> [value : Int, lower : Value, upper : Value],
     support |-> SUBSET (Int \cup {NotFinite}),
     resources |-> [classes : Int, samples : Int]]

ASSUME EvidenceAssumption ==
    /\ \A g \in Groups : Evidence[g] \subseteq EvidenceType[g]
    /\ Missing \notin Int /\ NotFinite \notin Int /\ Missing # NotFinite
    /\ \A g \in Groups : Missing \notin Evidence[g]
    /\ Policy \in [error : Int, lower : Int \cup {Missing}, upper : Int \cup {Missing},
                   tolerance : Nat, support : Int, classes : Int, samples : Int]
    /\ LastDay \in Nat

VARIABLES
    supplied,       \* the evidence gathered, by group
    today           \* when it is evaluated

evidenceVars == <<supplied, today>>

-----------------------------------------------------------------------------
(* Rules *)

Finite(x) == x \in Int
Within(x, lower, upper) == Finite(lower) /\ Finite(upper) /\ lower <= x /\ x <= upper

CalibrationMetrics(e) ==
    /\ e.error \in Nat
    /\ e.error <= Policy.error
    /\ Finite(e.largest) => e.largest <= Policy.error
    /\ e.largest # NotFinite
    /\ {e.brier, e.loss} \subseteq Nat \cup {Missing}

\* A faulty variant that takes the last moment of a calibration to be included.
GovernedToTheEnd(e, at) ==
    /\ e.status \in {"valid", "valid_with_warnings"}
    /\ e.approved
    /\ e.from # Missing => e.from <= at
    /\ e.to # Missing => at <= e.to

CalibrationGovernance(e, at) ==
    /\ e.status \in {"valid", "valid_with_warnings"}
    /\ e.approved
    /\ e.from # Missing => e.from <= at
    /\ e.to # Missing => at < e.to

Regression(e) ==
    /\ Finite(e.value)
    /\ Policy.lower # Missing => e.value >= Policy.lower
    /\ Policy.upper # Missing => e.value <= Policy.upper
    /\ e.residual # NotFinite

ClassSupport(counts) ==
    /\ counts # {}
    /\ counts \subseteq Nat
    /\ \A n \in counts : n >= Policy.support

\* A faulty variant that has lost the limit of the classes.
SampleLimit(e) ==
    /\ e.classes \in Nat /\ e.samples \in Nat
    /\ e.samples <= Policy.samples

ResourceLimits(e) ==
    /\ e.classes \in Nat /\ e.samples \in Nat
    /\ e.classes <= Policy.classes
    /\ e.samples <= Policy.samples

ReferenceDistribution(e) ==
    /\ Finite(e.lower) /\ Finite(e.upper) /\ e.lower <= e.upper
    /\ Within(e.value, e.lower - Policy.tolerance, e.upper + Policy.tolerance)

Passes(g, e, at) ==
    \/ g = "classification" /\ e = "passed"
    \/ g = "calibration" /\ CalibrationMetrics(e) /\ CalibrationGovernance(e, at)
    \/ g = "regression" /\ Regression(e)
    \/ g = "interval" /\ Within(e.value, e.lower, e.upper)
    \/ g = "reference" /\ ReferenceDistribution(e)
    \/ g = "support" /\ ClassSupport(e)
    \/ g = "resources" /\ ResourceLimits(e)

\* An incompatible reference distribution is a warning.
Judgement(g, e, at) ==
    IF Passes(g, e, at) THEN "passed" ELSE IF g = "reference" THEN "warning" ELSE "failed"

AggregateSeverity(statuses) ==
    IF "failed" \in statuses
    THEN [decision |-> "validation_failed", severity |-> "blocking"]
    ELSE IF "warning" \in statuses
    THEN [decision |-> "validation_failed", severity |-> "warning"]
    ELSE [decision |-> "validated", severity |-> "none"]

Present == {g \in Groups : supplied[g] # Missing}

\* run_end_to_end_validation.  Without any evidence it validates.
Result == AggregateSeverity({Judgement(g, supplied[g], today) : g \in Present})

-----------------------------------------------------------------------------
(* Behaviour *)

EvidenceInit ==
    /\ supplied = [g \in Groups |-> Missing]
    /\ today = 0

Supply(g, e) ==
    /\ supplied[g] = Missing
    /\ supplied' = [supplied EXCEPT ![g] = e]
    /\ UNCHANGED today

NextDay ==
    /\ today < LastDay
    /\ today' = today + 1
    /\ UNCHANGED supplied

EvidenceNext == (\E g \in Groups : \E e \in Evidence[g] : Supply(g, e)) \/ NextDay

EvidenceSpec == EvidenceInit /\ [][EvidenceNext]_evidenceVars

-----------------------------------------------------------------------------
(* Properties *)

\* A calibration that is approved, in force today and within its error in every class,
\* with scores that are numbers.
Calibrated(e) ==
    /\ e.approved /\ e.status # "draft"
    /\ e.error \in 0 .. Policy.error
    /\ e.largest # Missing => e.largest \in Int /\ e.largest <= Policy.error
    /\ \A score \in {e.brier, e.loss} \ {Missing} : score \in Int /\ score >= 0
    /\ e.from # Missing => today >= e.from
    /\ e.to # Missing => today < e.to

\* A value between finite bounds, give or take.
Inside(e, slack) ==
    /\ e.lower \in Int /\ e.upper \in Int
    /\ e.lower - slack <= e.value /\ e.value <= e.upper + slack

\* A value and a residual that are numbers, the value within the bounds of the policy.
Regressed(e) ==
    /\ e.value \in Int /\ e.residual \in Int \cup {Missing}
    /\ \A bound \in {Policy.lower} \ {Missing} : e.value >= bound
    /\ \A bound \in {Policy.upper} \ {Missing} : e.value <= bound

\* docs/layer-3.6.3b-statistical-validation.md: a validated result has nothing against
\* it in any group that was given, whatever the other groups say.  The predicted class
\* passed; calibration, regression, interval and reference are as above; some class was
\* counted and each has its support; and the request is within its resource limits.
ValidatedIsEarned ==
    Result.decision = "validated" =>
        \A g \in Present :
            LET e == supplied[g] IN
            /\ g = "classification" => e = "passed"
            /\ g = "calibration" => Calibrated(e)
            /\ g = "regression" => Regressed(e)
            /\ g = "interval" => Inside(e, 0)
            /\ g = "reference" => Inside(e, Policy.tolerance)
            /\ g = "support" => e # {} /\ \A n \in e : n \in Nat /\ n >= Policy.support
            /\ g = "resources" => /\ e.classes \in 0 .. Policy.classes
                                  /\ e.samples \in 0 .. Policy.samples

Expired ==
    LET e == supplied["calibration"] IN e # Missing /\ e.to # Missing /\ e.to <= today

\* More evidence never turns a failure into a success, and neither that nor time
\* does once the calibration has expired.
FailureStands ==
    [][\/ Result.decision = "validation_failed" /\ today' = today
       \/ Expired
       => Result'.decision = "validation_failed"]_evidenceVars
=============================================================================
