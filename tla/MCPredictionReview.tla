-------------------------- MODULE MCPredictionReview --------------------------
(* Constants of the runs of PredictionReview. *)
EXTENDS PredictionReview, TLC

CONSTANTS c1, c2, p1, p2, v1

MCModelOf == p1 :> v1 @@ p2 :> v1

\* p1 was imported with class probabilities, p2 is as persist_prediction stores it.
MCPayloadOf == p1 :> [manifest |-> FALSE, clean |-> TRUE, scores |-> "confident"]
            @@ p2 :> OfflinePayload

\* p1 under its own structural request and under that of p2.
MCRequests == {[parent |-> p1, prediction |-> p1],
               [parent |-> p2, prediction |-> p1]}
MCCorrections == {[of |-> [parent |-> p1, prediction |-> p1], action |-> "invalidate"]}
=============================================================================
