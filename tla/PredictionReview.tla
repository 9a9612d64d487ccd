--------------------------- MODULE PredictionReview ---------------------------
(***************************************************************************)
(* The review of offline predictions (apps/api/app/prediction_validation   *)
(* and apps/api/app/statistical_validation, called by the endpoints under  *)
(* /api/v3/admin/ml/runtime in main.py).  A prediction is validated in two *)
(* stages, each asked for by a request and carried out by an execution, a  *)
(* transaction of its own at READ COMMITTED.                               *)
(*                                                                         *)
(* The identity of a request, an event or a piece of evidence is a         *)
(* checksum of what it is about, and unique in its table: a structural     *)
(* request is named here by its prediction, a statistical one by its       *)
(* parent request and its prediction, and evidence by its prediction.      *)
(***************************************************************************)
EXTENDS FiniteSets

CONSTANTS
    Clients,
    Predictions,
    Versions,
    ModelOf,                      \* the model version of a prediction
    PayloadOf,                    \* the stored payload of a prediction
    Requests,                     \* the statistical requests that are made
    Corrections,                  \* the lifecycle records that are filed
    PolicyEnabled, StatisticsEnabled,    \* the two seeded policy rows
    NoTarget

\* What the rules read of a payload: a manifest of its own, no flag that says it
\* is invalid, superseded, mutable or unapproved, and its class probabilities.
Payload == [manifest : BOOLEAN, clean : BOOLEAN,
            scores : {"none", "confident", "doubtful"}]

\* What persist_prediction stores: outputs without flags, manifest or classes.
OfflinePayload == [manifest |-> FALSE, clean |-> TRUE, scores |-> "none"]

Targets == Predictions \cup Requests

ASSUME ReviewAssumption ==
    /\ ModelOf \in [Predictions -> Versions]
    /\ PayloadOf \in [Predictions -> Payload]
    /\ Requests \subseteq [parent : Predictions, prediction : Predictions]
    /\ Corrections \subseteq [of : Requests, action : {"invalidate", "supersede"}]
    /\ PolicyEnabled \in BOOLEAN
    /\ StatisticsEnabled \in BOOLEAN
    /\ Predictions \cap Requests = {}
    /\ NoTarget \notin Predictions \cup Requests

VARIABLES
    predictions,    \* offline_prediction_records
    loaded,         \* model versions with a load manifest
    status,         \* of the request rows; "none" where there is no row
    verdict,        \* of the result rows and manifests
    evidence,       \* predictions with a row in ml_confidence_evidence
    log,            \* the types of the event rows of each request
    lifecycle,      \* invalidation and supersession records
    tx              \* the execution each client has under way

vars == <<predictions, loaded, status, verdict, evidence, log, lifecycle, tx>>

Verdict == {"validated", "validation_failed"}
EventTypes == {"requested", "started", "manifest_created", "completed", "failed",
               "replayed", "invalidate", "supersede"}
Execution ==
    [phase : {"idle", "inserting", "reading", "writing"},
     on : Targets \cup {NoTarget},
     outcome : Verdict \cup {"none", "eligibility_failed"}]
IdleTx == [phase |-> "idle", on |-> NoTarget, outcome |-> "none"]

TypeOK ==
    /\ predictions \subseteq Predictions
    /\ loaded \subseteq Versions
    /\ status \in [Targets -> {"none", "requested", "eligibility_failed", "completed"}]
    /\ verdict \in [Targets -> Verdict \cup {"none"}]
    /\ evidence \subseteq Predictions
    /\ log \in [Targets -> SUBSET EventTypes]
    /\ lifecycle \subseteq Corrections
    /\ tx \in [Clients -> Execution]

Init ==
    /\ predictions = {}
    /\ loaded = {}
    /\ status = [t \in Targets |-> "none"]
    /\ verdict = [t \in Targets |-> "none"]
    /\ evidence = {}
    /\ log = [t \in Targets |-> {}]
    /\ lifecycle = {}
    /\ tx = [c \in Clients |-> IdleTx]

-----------------------------------------------------------------------------
(* The rows the review reads *)

\* persist_prediction: the identity is a checksum of the request and the outputs,
\* so storing it again changes nothing.
PersistPrediction(p) ==
    /\ PayloadOf[p] = OfflinePayload
    /\ p \notin predictions
    /\ predictions' = predictions \cup {p}
    /\ UNCHANGED <<loaded, status, verdict, evidence, log, lifecycle, tx>>

\* The rules read keys that persist_prediction never writes, so rows that have
\* them come from a producer outside the repository.
ImportPrediction(p) ==
    /\ PayloadOf[p] # OfflinePayload
    /\ p \notin predictions
    /\ predictions' = predictions \cup {p}
    /\ UNCHANGED <<loaded, status, verdict, evidence, log, lifecycle, tx>>

\* persist_load: a version is loadable once it has a manifest row.
LoadModel(v) ==
    /\ v \notin loaded
    /\ loaded' = loaded \cup {v}
    /\ UNCHANGED <<predictions, status, verdict, evidence, log, lifecycle, tx>>

-----------------------------------------------------------------------------
(* Requests.  A repeated request finds the row and returns it.  Neither      *)
(* request looks at the prediction or at the parent it names.                *)

RequestValidation(p) ==
    /\ status[p] = "none"
    /\ status' = [status EXCEPT ![p] = "requested"]
    /\ log' = [log EXCEPT ![p] = {"requested"}]
    /\ UNCHANGED <<predictions, loaded, verdict, evidence, lifecycle, tx>>

CreateRequest(r) ==
    /\ status[r] = "none"
    /\ status' = [status EXCEPT ![r] = "requested"]
    /\ UNCHANGED <<predictions, loaded, verdict, evidence, log, lifecycle, tx>>

-----------------------------------------------------------------------------
(* Executions *)

Finish(c) == tx' = [tx EXCEPT ![c] = IdleTx]
Rollback(c) ==
    /\ Finish(c)
    /\ UNCHANGED <<predictions, loaded, status, verdict, evidence, log, lifecycle>>

\* An execution of an unknown request is refused; a statistical one that finds
\* a result returns it.  Neither changes anything.
Execute(c, t) ==
    /\ tx[c].phase = "idle"
    /\ status[t] # "none"
    /\ t \in Requests => verdict[t] = "none"
    /\ tx' = [tx EXCEPT ![c] = [IdleTx EXCEPT !.phase = "inserting", !.on = t]]
    /\ UNCHANGED <<predictions, loaded, status, verdict, evidence, log, lifecycle>>

\* The event "started" is sent to the database by the next query.  Its identity
\* depends on the request alone, so a second execution waits for the first one
\* and fails when that commits.  A faulty variant salts the identity.
BegunSalted(t) == FALSE
Begun(t) == "started" \in log[t]
Holds(c, t) == tx[c].on = t /\ tx[c].phase \in {"reading", "writing"}

\* A faulty variant that is never told of the conflict.
InsertStartedDeaf(c) ==
    /\ tx[c].phase = "inserting"
    /\ \A d \in Clients : ~Holds(d, tx[c].on)
    /\ ~Begun(tx[c].on)
    /\ tx' = [tx EXCEPT ![c].phase = "reading"]
    /\ UNCHANGED <<predictions, loaded, status, verdict, evidence, log, lifecycle>>

InsertStarted(c) ==
    LET t == tx[c].on IN
    /\ tx[c].phase = "inserting"
    /\ \A d \in Clients : ~Holds(d, t)
    /\ IF Begun(t) THEN Finish(c)
                   ELSE tx' = [tx EXCEPT ![c].phase = "reading"]
    /\ UNCHANGED <<predictions, loaded, status, verdict, evidence, log, lifecycle>>

\* execute_rules.  The manifest is the payload's own or the newest load manifest
\* of the version, which is always "loaded".
RulesPass(p) ==
    /\ p \in predictions
    /\ PayloadOf[p].clean
    /\ PayloadOf[p].manifest \/ ModelOf[p] \in loaded
    /\ PolicyEnabled

\* classification_statistics and statistical_decision over the policy's limits.
Statistics(p) ==
    IF PayloadOf[p].scores = "confident" THEN "validated" ELSE "validation_failed"

\* A faulty variant takes any verdict of the parent for a good one.
EligibleUnchecked(r) ==
    /\ r.prediction \in predictions
    /\ StatisticsEnabled
    /\ PayloadOf[r.prediction].scores # "none"

Eligible(r) ==
    /\ verdict[r.parent] = "validated"
    /\ r.prediction \in predictions
    /\ StatisticsEnabled
    /\ PayloadOf[r.prediction].scores # "none"

Outcome(t) ==
    IF t \in Predictions
    THEN IF RulesPass(t) THEN "validated" ELSE "validation_failed"
    ELSE IF Eligible(t) THEN Statistics(t.prediction) ELSE "eligibility_failed"

\* The reads of prediction, policy, manifest and parent.  Rows are only ever
\* added to these tables, so the last of the reads decides.
Read(c) ==
    /\ tx[c].phase = "reading"
    /\ tx' = [tx EXCEPT ![c].phase = "writing", ![c].outcome = Outcome(tx[c].on)]
    /\ UNCHANGED <<predictions, loaded, status, verdict, evidence, log, lifecycle>>

\* The commit of execute_validation.
WriteValidation(c) ==
    LET p == tx[c].on
        final == IF tx[c].outcome = "validated" THEN "completed" ELSE "failed"
    IN  /\ tx[c].phase = "writing"
        /\ p \in Predictions
        /\ verdict' = [verdict EXCEPT ![p] = tx[c].outcome]
        /\ status' = [status EXCEPT ![p] = "completed"]
        /\ log' = [log EXCEPT ![p] = @ \cup {"started", "manifest_created", final}]
        /\ Finish(c)
        /\ UNCHANGED <<predictions, loaded, evidence, lifecycle>>

\* A faulty variant that leaves a result behind.
WriteIneligibleResult(c) ==
    LET r == tx[c].on IN
    /\ tx[c].phase = "writing"
    /\ tx[c].outcome = "eligibility_failed"
    /\ verdict' = [verdict EXCEPT ![r] = "eligibility_failed"]
    /\ status' = [status EXCEPT ![r] = "eligibility_failed"]
    /\ log' = [log EXCEPT ![r] = @ \cup {"started"}]
    /\ Finish(c)
    /\ UNCHANGED <<predictions, loaded, evidence, lifecycle>>

\* The early returns of execute_request commit the status and the event.
WriteIneligible(c) ==
    LET r == tx[c].on IN
    /\ tx[c].phase = "writing"
    /\ tx[c].outcome = "eligibility_failed"
    /\ status' = [status EXCEPT ![r] = "eligibility_failed"]
    /\ log' = [log EXCEPT ![r] = @ \cup {"started"}]
    /\ Finish(c)
    /\ UNCHANGED <<predictions, loaded, verdict, evidence, lifecycle>>

\* Evidence is a checksum of the prediction and its statistics.  Where another
\* request has stored it, the insertion fails and everything rolls back.
EvidenceSalted(r) == FALSE
EvidenceTaken(r) == r.prediction \in evidence

WriteStatistics(c) ==
    LET r == tx[c].on IN
    /\ tx[c].phase = "writing"
    /\ r \in Requests
    /\ tx[c].outcome \in Verdict
    /\ ~EvidenceTaken(r)
    /\ evidence' = evidence \cup {r.prediction}
    /\ verdict' = [verdict EXCEPT ![r] = tx[c].outcome]
    /\ status' = [status EXCEPT ![r] = "completed"]
    /\ log' = [log EXCEPT ![r] = @ \cup {"started", "manifest_created", "completed"}]
    /\ Finish(c)
    /\ UNCHANGED <<predictions, loaded, lifecycle>>

EvidenceConflict(c) ==
    /\ tx[c].phase = "writing"
    /\ tx[c].on \in Requests
    /\ tx[c].outcome \in Verdict
    /\ EvidenceTaken(tx[c].on)
    /\ Rollback(c)

\* The connection breaks.
Abort(c) == tx[c].phase # "idle" /\ Rollback(c)

-----------------------------------------------------------------------------
(* Records that are added to a request afterwards.  A repeated record finds  *)
(* its identity and changes nothing.                                         *)

\* record_lifecycle asks for no request and touches none.
RecordLifecycle(k) ==
    /\ k \notin lifecycle
    /\ lifecycle' = lifecycle \cup {k}
    /\ log' = [log EXCEPT ![k.of] = @ \cup {k.action}]
    /\ UNCHANGED <<predictions, loaded, status, verdict, evidence, tx>>

\* replay_request compares a payload with the manifest, which must exist.
Replay(r) ==
    /\ verdict[r] # "none"
    /\ "replayed" \notin log[r]
    /\ log' = [log EXCEPT ![r] = @ \cup {"replayed"}]
    /\ UNCHANGED <<predictions, loaded, status, verdict, evidence, lifecycle, tx>>

-----------------------------------------------------------------------------

Advance(c) ==
    \/ InsertStarted(c)
    \/ Read(c)
    \/ WriteValidation(c)
    \/ WriteIneligible(c)
    \/ WriteStatistics(c)
    \/ EvidenceConflict(c)

Next ==
    \/ \E p \in Predictions : PersistPrediction(p) \/ ImportPrediction(p)
    \/ \E v \in Versions : LoadModel(v)
    \/ \E p \in Predictions : RequestValidation(p)
    \/ \E r \in Requests : CreateRequest(r) \/ Replay(r)
    \/ \E k \in Corrections : RecordLifecycle(k)
    \/ \E c \in Clients, t \in Targets : Execute(c, t)
    \/ \E c \in Clients : Advance(c) \/ Abort(c)

Spec == Init /\ [][Next]_vars

\* An open execution runs its statements on, and the waiters for a unique key
\* are woken when its holder ends.
FairSpec == Spec /\ \A c \in Clients : SF_vars(Advance(c))

-----------------------------------------------------------------------------
(* Properties *)

\* Status, result, manifest and events of a request are written by different
\* statements of executions that overlap; they always tell one story, and an
\* execution that found its request ineligible never leaves a result behind.
StatusTellsTheOutcome ==
    \A t \in Targets :
        /\ (status[t] = "completed") <=> (verdict[t] # "none")
        /\ Begun(t) <=> status[t] \in {"completed", "eligibility_failed"}
        /\ "manifest_created" \in log[t] <=> verdict[t] # "none"
        /\ t \in Predictions =>
              /\ "completed" \in log[t] <=> verdict[t] = "validated"
              /\ "failed" \in log[t] <=> verdict[t] = "validation_failed"

\* A prediction gets one statistical verdict: of several requests for it, under
\* different parents, one completes and every other one fails on the evidence.
OneVerdictPerPrediction ==
    /\ \A r, s \in Requests :
          /\ r.prediction = s.prediction
          /\ verdict[r] # "none"
          /\ verdict[s] # "none"
          => r = s
    /\ evidence = {r.prediction : r \in {s \in Requests : verdict[s] # "none"}}

\* The verdicts that the requests for a prediction come to.
StatisticalVerdict(p) ==
    IF \E r \in Requests : r.prediction = p /\ verdict[r] # "none"
    THEN verdict[CHOOSE r \in Requests : r.prediction = p /\ verdict[r] # "none"]
    ELSE "none"

V == INSTANCE Verdicts WITH
        structural <- [p \in Predictions |-> verdict[p]],
        statistical <- [p \in Predictions |-> StatisticalVerdict(p)]

\* To a reader of its results, the review is the write-once Verdicts: however the
\* executions overlap, no verdict changes and none is given twice.
ImplementsVerdicts == V!VerdictsSpec

\* Every execution ends: waiting for the event of another one forms no cycle.
ExecutionsReturn == \A c \in Clients : tx[c].phase # "idle" ~> tx[c].phase = "idle"
=============================================================================
