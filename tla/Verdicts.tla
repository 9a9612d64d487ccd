------------------------------- MODULE Verdicts -------------------------------
(***************************************************************************)
(* What the review of predictions promises to whoever reads its results:   *)
(* each prediction gets one structural verdict and one statistical verdict *)
(* at most, neither is ever taken back or changed, and no statistics are   *)
(* judged before some structural validation has succeeded.  PredictionReview *)
(* implements it with requests, events and overlapping transactions.       *)
(*                                                                         *)
(* It does not promise that the structural validation is of the same       *)
(* prediction: a statistical request names any parent request.             *)
(***************************************************************************)
CONSTANT Predictions

VARIABLES
    structural,     \* the verdict of the rules on each prediction
    statistical     \* the verdict on its probabilities

verdictVars == <<structural, statistical>>

Verdict == {"validated", "validation_failed"}

VerdictsInit ==
    /\ structural = [p \in Predictions |-> "none"]
    /\ statistical = [p \in Predictions |-> "none"]

JudgeStructure(p) ==
    /\ structural[p] = "none"
    /\ \E v \in Verdict : structural' = [structural EXCEPT ![p] = v]
    /\ UNCHANGED statistical

JudgeStatistics(p) ==
    /\ statistical[p] = "none"
    /\ \E q \in Predictions : structural[q] = "validated"
    /\ \E v \in Verdict : statistical' = [statistical EXCEPT ![p] = v]
    /\ UNCHANGED structural

VerdictsNext == \E p \in Predictions : JudgeStructure(p) \/ JudgeStatistics(p)

VerdictsSpec == VerdictsInit /\ [][VerdictsNext]_verdictVars
=============================================================================
