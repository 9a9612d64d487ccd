------------------------------ MODULE ReviewProofs ------------------------------
(***************************************************************************)
(* Proofs about PredictionReview, for any clients, predictions, payloads,  *)
(* requests and corrections.                                               *)
(*                                                                         *)
(* The unique identity of the event "started" makes an execution           *)
(* exclusive: of a target that an execution holds, no other one has begun, *)
(* and none has left a result.                                             *)
(***************************************************************************)
EXTENDS PredictionReview, TLAPS

-----------------------------------------------------------------------------
(* Invariant *)

Running(c) == tx[c].phase \in {"reading", "writing"}

\* What an execution knows of its target.
ExecutionInv ==
    \A c \in Clients :
        /\ tx[c].phase # "idle" => tx[c].on \in Targets /\ status[tx[c].on] # "none"
        /\ Running(c) => ~Begun(tx[c].on)
        /\ tx[c].phase = "writing" =>
              /\ tx[c].on \in Predictions => tx[c].outcome \in Verdict
              /\ tx[c].on \in Requests => tx[c].outcome \in Verdict \cup {"eligibility_failed"}
              /\ tx[c].on \in Requests /\ tx[c].outcome \in Verdict =>
                    verdict[tx[c].on.parent] = "validated"

\* No two executions run on one target.
ExclusiveInv ==
    \A c, d \in Clients : Running(c) /\ Running(d) /\ tx[c].on = tx[d].on => c = d

RowsInv == StatusTellsTheOutcome /\ OneVerdictPerPrediction
ReviewInv == TypeOK /\ RowsInv /\ ExecutionInv /\ ExclusiveInv

\* Requests name predictions, and are none.
LEMMA RequestFacts ==
    /\ \A r \in Requests : r.parent \in Predictions /\ r.prediction \in Predictions
    /\ \A r \in Requests : r \notin Predictions
    /\ \A k \in Corrections : k.of \in Requests /\ k.action \in {"invalidate", "supersede"}
    /\ \A t \in Targets : t \in Predictions \/ t \in Requests
BY ReviewAssumption DEF Targets

\* A step that changes one execution and no row keeps the invariant, if the
\* execution still tells the truth and runs on no target of another one.
LEMMA ExecutionKeeps ==
    ASSUME ReviewInv, NEW c \in Clients,
           UNCHANGED <<predictions, loaded, status, verdict, evidence, log, lifecycle>>,
           tx' \in [Clients -> Execution],
           \A d \in Clients : d # c => tx'[d] = tx[d],
           tx'[c].phase # "idle" => tx'[c].on \in Targets /\ status[tx'[c].on] # "none",
           Running(c)' => ~Begun(tx'[c].on),
           tx'[c].phase = "writing" =>
              /\ tx'[c].on \in Predictions => tx'[c].outcome \in Verdict
              /\ tx'[c].on \in Requests => tx'[c].outcome \in Verdict \cup {"eligibility_failed"}
              /\ tx'[c].on \in Requests /\ tx'[c].outcome \in Verdict =>
                    verdict[tx'[c].on.parent] = "validated",
           Running(c)' => \A d \in Clients : d # c /\ Running(d) => tx[d].on # tx'[c].on
    PROVE  ReviewInv'
<1>1. TypeOK'
  BY DEF ReviewInv, TypeOK
<1>2. RowsInv'
  BY DEF ReviewInv, RowsInv, StatusTellsTheOutcome, OneVerdictPerPrediction, Begun
<1>3. ExecutionInv'
  BY DEF ReviewInv, ExecutionInv, Running, Begun
<1>4. ExclusiveInv'
  BY DEF ReviewInv, ExclusiveInv, Running
<1> QED BY <1>1, <1>2, <1>3, <1>4 DEF ReviewInv

LEMMA ReviewFacts ==
    ASSUME ReviewInv
    PROVE  /\ tx \in [Clients -> Execution]
           /\ status \in [Targets -> {"none", "requested", "eligibility_failed", "completed"}]
           /\ verdict \in [Targets -> Verdict \cup {"none"}]
           /\ log \in [Targets -> SUBSET EventTypes]
BY DEF ReviewInv, TypeOK

\* A transaction that ends without a row.
LEMMA RollbackReview ==
    ASSUME ReviewInv, NEW c \in Clients, Rollback(c)
    PROVE  ReviewInv'
<1>1. IdleTx \in Execution /\ IdleTx.phase = "idle"
  BY DEF IdleTx, Execution
<1>2. /\ tx' = [tx EXCEPT ![c] = IdleTx]
      /\ UNCHANGED <<predictions, loaded, status, verdict, evidence, log, lifecycle>>
  BY DEF Rollback, Finish
<1>3. /\ tx' \in [Clients -> Execution] /\ tx'[c] = IdleTx
      /\ \A d \in Clients : d # c => tx'[d] = tx[d]
  BY <1>1, <1>2, ReviewFacts
<1> QED BY <1>1, <1>2, <1>3, ExecutionKeeps DEF Running

\* The statements of an execution before it writes.
LEMMA StatementsKeep ==
    ASSUME ReviewInv, NEW c \in Clients
    PROVE  /\ \A t \in Targets : Execute(c, t) => ReviewInv'
           /\ InsertStarted(c) => ReviewInv'
           /\ Read(c) => ReviewInv'
<1>f. tx \in [Clients -> Execution] /\ tx[c] \in Execution
  BY ReviewFacts
<1>1. ASSUME NEW t \in Targets, Execute(c, t) PROVE ReviewInv'
  <2> DEFINE e == [IdleTx EXCEPT !.phase = "inserting", !.on = t]
  <2>1. e \in Execution /\ e.phase = "inserting" /\ e.on = t
    BY DEF IdleTx, Execution
  <2>2. /\ tx' = [tx EXCEPT ![c] = e] /\ status[t] # "none"
        /\ UNCHANGED <<predictions, loaded, status, verdict, evidence, log, lifecycle>>
    BY <1>1 DEF Execute
  <2> HIDE DEF e
  <2>3. /\ tx' \in [Clients -> Execution] /\ tx'[c] = e
        /\ \A d \in Clients : d # c => tx'[d] = tx[d]
    BY <1>f, <2>1, <2>2
  <2> QED BY <2>1, <2>2, <2>3, ExecutionKeeps DEF Running
<1>2. ASSUME InsertStarted(c), ~Begun(tx[c].on) PROVE ReviewInv'
  <2>1. /\ tx' = [tx EXCEPT ![c].phase = "reading"] /\ tx[c].phase = "inserting"
        /\ \A d \in Clients : ~Holds(d, tx[c].on)
        /\ UNCHANGED <<predictions, loaded, status, verdict, evidence, log, lifecycle>>
    BY <1>2 DEF InsertStarted
  <2>2. /\ tx' \in [Clients -> Execution] /\ tx'[c].phase = "reading" /\ tx'[c].on = tx[c].on
        /\ \A d \in Clients : d # c => tx'[d] = tx[d]
    BY <1>f, <2>1 DEF Execution
  <2>3. tx[c].on \in Targets /\ status[tx[c].on] # "none"
    BY <2>1 DEF ReviewInv, ExecutionInv
  <2> QED BY <1>2, <2>1, <2>2, <2>3, ExecutionKeeps DEF Running, Holds
<1>3. ASSUME InsertStarted(c), Begun(tx[c].on) PROVE ReviewInv'
  BY <1>3, RollbackReview DEF InsertStarted, Rollback
<1>4. ASSUME Read(c) PROVE ReviewInv'
  <2>1. /\ tx' = [tx EXCEPT ![c].phase = "writing", ![c].outcome = Outcome(tx[c].on)]
        /\ tx[c].phase = "reading"
        /\ UNCHANGED <<predictions, loaded, status, verdict, evidence, log, lifecycle>>
    BY <1>4 DEF Read
  <2>2. tx[c].on \in Targets /\ status[tx[c].on] # "none" /\ ~Begun(tx[c].on) /\ Running(c)
    BY <2>1 DEF ReviewInv, ExecutionInv, Running
  <2>3. /\ tx[c].on \in Predictions => Outcome(tx[c].on) \in Verdict
        /\ tx[c].on \in Requests => Outcome(tx[c].on) \in Verdict \cup {"eligibility_failed"}
        /\ tx[c].on \in Requests /\ Outcome(tx[c].on) \in Verdict =>
              verdict[tx[c].on.parent] = "validated"
    BY RequestFacts DEF Outcome, Statistics, Eligible, Verdict
  <2>4. Outcome(tx[c].on) \in Verdict \cup {"none", "eligibility_failed"}
    BY <2>2, <2>3, RequestFacts
  <2>5. /\ tx' \in [Clients -> Execution] /\ tx'[c].phase = "writing" /\ tx'[c].on = tx[c].on
        /\ tx'[c].outcome = Outcome(tx[c].on)
        /\ \A d \in Clients : d # c => tx'[d] = tx[d]
    <3> DEFINE o == Outcome(tx[c].on)
    <3> HIDE DEF o
    <3> QED BY <1>f, <2>1, <2>4 DEF Execution, o
  <2>6. \A d \in Clients : d # c /\ Running(d) => tx[d].on # tx'[c].on
    BY <2>2, <2>5 DEF ReviewInv, ExclusiveInv
  <2> QED BY <2>1, <2>2, <2>3, <2>5, <2>6, ExecutionKeeps DEF Running
<1> QED BY <1>1, <1>2, <1>3, <1>4

\* The target of a running execution has no result, no event and no status of one.
LEMMA RunningTarget ==
    ASSUME ReviewInv, NEW c \in Clients, Running(c)
    PROVE  /\ tx[c].on \in Targets /\ ~Begun(tx[c].on) /\ verdict[tx[c].on] = "none"
           /\ status[tx[c].on] = "requested"
           /\ "manifest_created" \notin log[tx[c].on]
           /\ tx[c].on \in Predictions =>
                 "completed" \notin log[tx[c].on] /\ "failed" \notin log[tx[c].on]
<1>1. tx[c].on \in Targets /\ status[tx[c].on] # "none" /\ ~Begun(tx[c].on)
  BY DEF ReviewInv, ExecutionInv, Running
<1>2. verdict[tx[c].on] = "none" /\ status[tx[c].on] = "requested"
  BY <1>1, ReviewFacts DEF ReviewInv, RowsInv, StatusTellsTheOutcome
<1> QED BY <1>1, <1>2 DEF ReviewInv, RowsInv, StatusTellsTheOutcome

\* The end of an execution disturbs no other one.
LEMMA WriteFreesTarget ==
    ASSUME ReviewInv, NEW c \in Clients, Running(c), NEW s,
           s \in {"requested", "eligibility_failed", "completed"},
           Finish(c), status' = [status EXCEPT ![tx[c].on] = s],
           \A u \in Targets : u # tx[c].on => log'[u] = log[u] /\ verdict'[u] = verdict[u]
    PROVE  ExecutionInv' /\ ExclusiveInv' /\ tx' \in [Clients -> Execution]
<1>1. IdleTx \in Execution /\ IdleTx.phase = "idle"
  BY DEF IdleTx, Execution
<1>2. /\ tx' \in [Clients -> Execution] /\ tx'[c].phase = "idle"
      /\ \A d \in Clients : d # c => tx'[d] = tx[d]
  BY <1>1, ReviewFacts DEF Finish
<1>3. ExclusiveInv'
  BY <1>2 DEF ReviewInv, ExclusiveInv, Running
<1>4. ASSUME NEW d \in Clients, d # c, tx[d].phase # "idle"
      PROVE  tx[d].on \in Targets /\ status'[tx[d].on] # "none"
  BY <1>4, ReviewFacts, RunningTarget DEF ReviewInv, ExecutionInv
<1>5. ASSUME NEW d \in Clients, d # c, Running(d)
      PROVE  tx[d].on # tx[c].on /\ (~Begun(tx[d].on))'
  <2>1. tx[d].on # tx[c].on /\ tx[d].on \in Targets /\ ~Begun(tx[d].on)
    BY <1>5 DEF ReviewInv, ExclusiveInv, ExecutionInv, Running
  <2> QED BY <1>2, <1>5, <2>1 DEF Begun
<1>6. ASSUME NEW d \in Clients, d # c, tx[d].phase = "writing", tx[d].on \in Requests,
             tx[d].outcome \in Verdict
      PROVE  verdict'[tx[d].on.parent] = "validated"
  <2>1. tx[d].on.parent \in Targets /\ verdict[tx[d].on.parent] = "validated"
    BY <1>6, RequestFacts DEF ReviewInv, ExecutionInv, Targets
  <2> QED BY <2>1, RunningTarget
<1>7. ExecutionInv'
  <2> SUFFICES ASSUME NEW d \in Clients, d # c
               PROVE  /\ tx[d].phase # "idle" => tx[d].on \in Targets /\ status'[tx[d].on] # "none"
                      /\ Running(d) => (~Begun(tx[d].on))'
                      /\ tx[d].phase = "writing" =>
                            /\ tx[d].on \in Predictions => tx[d].outcome \in Verdict
                            /\ tx[d].on \in Requests =>
                                  tx[d].outcome \in Verdict \cup {"eligibility_failed"}
                            /\ tx[d].on \in Requests /\ tx[d].outcome \in Verdict =>
                                  verdict'[tx[d].on.parent] = "validated"
    BY <1>2 DEF ExecutionInv, Running, Begun
  <2> QED BY <1>4, <1>5, <1>6 DEF ReviewInv, ExecutionInv
<1> QED BY <1>2, <1>3, <1>7

\* execute_validation writes its verdict.
LEMMA WriteValidationKeeps ==
    ASSUME ReviewInv, NEW c \in Clients, WriteValidation(c)
    PROVE  ReviewInv'
<1> DEFINE p == tx[c].on
           final == IF tx[c].outcome = "validated" THEN "completed" ELSE "failed"
<1>1. /\ p \in Predictions /\ Running(c) /\ p \in Targets /\ p \notin Requests
      /\ tx[c].outcome \in Verdict
  BY RequestFacts, ReviewAssumption DEF WriteValidation, Running, ReviewInv, ExecutionInv, Targets
<1>2. /\ verdict' = [verdict EXCEPT ![p] = tx[c].outcome]
      /\ status' = [status EXCEPT ![p] = "completed"]
      /\ log' = [log EXCEPT ![p] = @ \cup {"started", "manifest_created", final}]
      /\ Finish(c)
      /\ UNCHANGED <<predictions, loaded, evidence, lifecycle>>
  BY DEF WriteValidation
<1>3. final \in {"completed", "failed"} /\ (final = "completed" <=> tx[c].outcome = "validated")
  OBVIOUS
<1>4. /\ verdict[p] = "none" /\ "completed" \notin log[p] /\ "failed" \notin log[p]
  BY <1>1, RunningTarget
<1> HIDE DEF final
<1>5. \A u \in Targets : u # p => log'[u] = log[u] /\ verdict'[u] = verdict[u] /\ status'[u] = status[u]
  BY <1>1, <1>2, ReviewFacts
<1>6. /\ verdict'[p] = tx[c].outcome /\ status'[p] = "completed"
      /\ log'[p] = log[p] \cup {"started", "manifest_created", final}
  BY <1>1, <1>2, ReviewFacts
<1> HIDE DEF p
<1>7. ExecutionInv' /\ ExclusiveInv' /\ tx' \in [Clients -> Execution]
  BY <1>1, <1>2, <1>5, WriteFreesTarget DEF p
<1>8. TypeOK'
  <2>1. log[p] \cup {"started", "manifest_created", final} \in SUBSET EventTypes
    BY <1>1, <1>3, ReviewFacts DEF EventTypes
  <2> QED BY <1>1, <1>2, <1>7, <2>1, ReviewFacts DEF ReviewInv, TypeOK
<1>9. StatusTellsTheOutcome'
  <2> SUFFICES ASSUME NEW t \in Targets
               PROVE  /\ (status'[t] = "completed") <=> (verdict'[t] # "none")
                      /\ "started" \in log'[t] <=> status'[t] \in {"completed", "eligibility_failed"}
                      /\ "manifest_created" \in log'[t] <=> verdict'[t] # "none"
                      /\ t \in Predictions =>
                            /\ "completed" \in log'[t] <=> verdict'[t] = "validated"
                            /\ "failed" \in log'[t] <=> verdict'[t] = "validation_failed"
    BY DEF StatusTellsTheOutcome, Begun
  <2>1. CASE t = p
    BY <2>1, <1>1, <1>3, <1>4, <1>6 DEF Verdict
  <2>2. CASE t # p
    BY <2>2, <1>5 DEF ReviewInv, RowsInv, StatusTellsTheOutcome, Begun
  <2> QED BY <2>1, <2>2
<1>10. OneVerdictPerPrediction'
  <2>1. \A r \in Requests : verdict'[r] = verdict[r]
    BY <1>1, <1>5 DEF Targets
  <2> QED BY <1>2, <2>1 DEF ReviewInv, RowsInv, OneVerdictPerPrediction
<1> QED BY <1>7, <1>8, <1>9, <1>10 DEF ReviewInv, RowsInv

\* execute_request ends early, without a result.
LEMMA WriteIneligibleKeeps ==
    ASSUME ReviewInv, NEW c \in Clients, WriteIneligible(c)
    PROVE  ReviewInv'
<1> DEFINE r == tx[c].on
<1>1. /\ Running(c) /\ r \in Requests /\ r \in Targets /\ r \notin Predictions
  BY RequestFacts DEF WriteIneligible, Running, ReviewInv, ExecutionInv, Targets, Verdict
<1>2. /\ status' = [status EXCEPT ![r] = "eligibility_failed"]
      /\ log' = [log EXCEPT ![r] = @ \cup {"started"}]
      /\ Finish(c)
      /\ UNCHANGED <<predictions, loaded, verdict, evidence, lifecycle>>
  BY DEF WriteIneligible
<1>3. verdict[r] = "none" /\ "manifest_created" \notin log[r]
  BY <1>1, RunningTarget
<1>4. \A u \in Targets : u # r => log'[u] = log[u] /\ verdict'[u] = verdict[u] /\ status'[u] = status[u]
  BY <1>1, <1>2, ReviewFacts
<1>5. status'[r] = "eligibility_failed" /\ log'[r] = log[r] \cup {"started"}
  BY <1>1, <1>2, ReviewFacts
<1> HIDE DEF r
<1>6. ExecutionInv' /\ ExclusiveInv' /\ tx' \in [Clients -> Execution]
  BY <1>1, <1>2, <1>4, WriteFreesTarget DEF r
<1>7. TypeOK'
  <2>1. log[r] \cup {"started"} \in SUBSET EventTypes
    BY <1>1, ReviewFacts DEF EventTypes
  <2> QED BY <1>1, <1>2, <1>6, <2>1, ReviewFacts DEF ReviewInv, TypeOK
<1>8. StatusTellsTheOutcome'
  <2> SUFFICES ASSUME NEW t \in Targets
               PROVE  /\ (status'[t] = "completed") <=> (verdict'[t] # "none")
                      /\ "started" \in log'[t] <=> status'[t] \in {"completed", "eligibility_failed"}
                      /\ "manifest_created" \in log'[t] <=> verdict'[t] # "none"
                      /\ t \in Predictions =>
                            /\ "completed" \in log'[t] <=> verdict'[t] = "validated"
                            /\ "failed" \in log'[t] <=> verdict'[t] = "validation_failed"
    BY DEF StatusTellsTheOutcome, Begun
  <2>1. CASE t = r
    BY <2>1, <1>1, <1>2, <1>3, <1>5
  <2>2. CASE t # r
    BY <2>2, <1>4 DEF ReviewInv, RowsInv, StatusTellsTheOutcome, Begun
  <2> QED BY <2>1, <2>2
<1>9. OneVerdictPerPrediction'
  BY <1>2 DEF ReviewInv, RowsInv, OneVerdictPerPrediction
<1> QED BY <1>6, <1>7, <1>8, <1>9 DEF ReviewInv, RowsInv

\* execute_request writes its verdict and the evidence, which nobody has written.
LEMMA WriteStatisticsKeeps ==
    ASSUME ReviewInv, NEW c \in Clients, WriteStatistics(c)
    PROVE  ReviewInv'
<1> DEFINE r == tx[c].on
<1>1. /\ Running(c) /\ r \in Requests /\ r \in Targets /\ r \notin Predictions
      /\ tx[c].outcome \in Verdict /\ r.prediction \in Predictions
      /\ r.prediction \notin evidence
  BY RequestFacts DEF WriteStatistics, EvidenceTaken, Running, Targets
<1>2. /\ evidence' = evidence \cup {r.prediction}
      /\ verdict' = [verdict EXCEPT ![r] = tx[c].outcome]
      /\ status' = [status EXCEPT ![r] = "completed"]
      /\ log' = [log EXCEPT ![r] = @ \cup {"started", "manifest_created", "completed"}]
      /\ Finish(c)
      /\ UNCHANGED <<predictions, loaded, lifecycle>>
  BY DEF WriteStatistics
<1>3. verdict[r] = "none"
  BY <1>1, RunningTarget
<1>4. \A u \in Targets : u # r => log'[u] = log[u] /\ verdict'[u] = verdict[u] /\ status'[u] = status[u]
  BY <1>1, <1>2, ReviewFacts
<1>5. /\ status'[r] = "completed" /\ verdict'[r] = tx[c].outcome
      /\ log'[r] = log[r] \cup {"started", "manifest_created", "completed"}
  BY <1>1, <1>2, ReviewFacts
<1> HIDE DEF r
<1>6. ExecutionInv' /\ ExclusiveInv' /\ tx' \in [Clients -> Execution]
  BY <1>1, <1>2, <1>4, WriteFreesTarget DEF r
<1>7. TypeOK'
  <2>1. log[r] \cup {"started", "manifest_created", "completed"} \in SUBSET EventTypes
    BY <1>1, ReviewFacts DEF EventTypes
  <2> QED BY <1>1, <1>2, <1>6, <2>1, ReviewFacts DEF ReviewInv, TypeOK
<1>8. StatusTellsTheOutcome'
  <2> SUFFICES ASSUME NEW t \in Targets
               PROVE  /\ (status'[t] = "completed") <=> (verdict'[t] # "none")
                      /\ "started" \in log'[t] <=> status'[t] \in {"completed", "eligibility_failed"}
                      /\ "manifest_created" \in log'[t] <=> verdict'[t] # "none"
                      /\ t \in Predictions =>
                            /\ "completed" \in log'[t] <=> verdict'[t] = "validated"
                            /\ "failed" \in log'[t] <=> verdict'[t] = "validation_failed"
    BY DEF StatusTellsTheOutcome, Begun
  <2>1. CASE t = r
    BY <2>1, <1>1, <1>5 DEF Verdict
  <2>2. CASE t # r
    BY <2>2, <1>4 DEF ReviewInv, RowsInv, StatusTellsTheOutcome, Begun
  <2> QED BY <2>1, <2>2
<1>9. OneVerdictPerPrediction'
  <2>1. /\ \A s \in Requests : s # r => verdict'[s] = verdict[s]
        /\ verdict'[r] # "none"
    BY <1>1, <1>4, <1>5 DEF Targets, Verdict
  <2>2. evidence = {s.prediction : s \in {q \in Requests : verdict[q] # "none"}}
    BY DEF ReviewInv, RowsInv, OneVerdictPerPrediction
  <2>3. \A s \in Requests : verdict[s] # "none" => s.prediction # r.prediction
    BY <1>1, <2>2
  <2>4. evidence' = {s.prediction : s \in {q \in Requests : verdict'[q] # "none"}}
    BY <1>1, <1>2, <1>3, <2>1, <2>2
  <2>5. \A q, s \in Requests :
           q.prediction = s.prediction /\ verdict'[q] # "none" /\ verdict'[s] # "none" => q = s
    BY <2>1, <2>3 DEF ReviewInv, RowsInv, OneVerdictPerPrediction
  <2> QED BY <2>4, <2>5 DEF OneVerdictPerPrediction
<1> QED BY <1>6, <1>7, <1>8, <1>9 DEF ReviewInv, RowsInv

\* Requests and records, which concern no running execution.
LEMMA RequestsKeep ==
    ASSUME ReviewInv
    PROVE  /\ \A p \in Predictions : RequestValidation(p) => ReviewInv'
           /\ \A r \in Requests : CreateRequest(r) => ReviewInv'
<1>1. ASSUME NEW t \in Targets, status[t] = "none", status' = [status EXCEPT ![t] = "requested"],
             log' = log \/ (t \in Predictions /\ log' = [log EXCEPT ![t] = {"requested"}]),
             UNCHANGED <<predictions, loaded, verdict, evidence, lifecycle, tx>>
      PROVE  ReviewInv'
  <2>1. /\ log' \in [Targets -> SUBSET EventTypes]
        /\ \A u \in Targets : u # t => log'[u] = log[u] /\ status'[u] = status[u]
        /\ status'[t] = "requested"
        /\ log'[t] = log[t] \/ (t \in Predictions /\ log'[t] = {"requested"})
    BY <1>1, ReviewFacts DEF EventTypes
  <2>2. /\ verdict[t] = "none" /\ "started" \notin log[t] /\ "manifest_created" \notin log[t]
        /\ t \in Predictions => "completed" \notin log[t] /\ "failed" \notin log[t]
    BY <1>1 DEF ReviewInv, RowsInv, StatusTellsTheOutcome, Begun
  <2>3. TypeOK'
    BY <1>1, <2>1, ReviewFacts DEF ReviewInv, TypeOK
  <2>4. StatusTellsTheOutcome'
    <3> SUFFICES ASSUME NEW u \in Targets
                 PROVE  /\ (status'[u] = "completed") <=> (verdict[u] # "none")
                        /\ "started" \in log'[u] <=> status'[u] \in {"completed", "eligibility_failed"}
                        /\ "manifest_created" \in log'[u] <=> verdict[u] # "none"
                        /\ u \in Predictions =>
                              /\ "completed" \in log'[u] <=> verdict[u] = "validated"
                              /\ "failed" \in log'[u] <=> verdict[u] = "validation_failed"
      BY <1>1 DEF StatusTellsTheOutcome, Begun
    <3>1. CASE u = t
      BY <3>1, <2>1, <2>2
    <3>2. CASE u # t
      BY <3>2, <2>1 DEF ReviewInv, RowsInv, StatusTellsTheOutcome, Begun
    <3> QED BY <3>1, <3>2
  <2>5. OneVerdictPerPrediction' /\ ExclusiveInv'
    BY <1>1 DEF ReviewInv, RowsInv, OneVerdictPerPrediction, ExclusiveInv, Running
  <2>6. ExecutionInv'
    BY <1>1, <2>1 DEF ReviewInv, ExecutionInv, Running, Begun
  <2> QED BY <2>3, <2>4, <2>5, <2>6 DEF ReviewInv, RowsInv
<1>2. ASSUME NEW p \in Predictions, RequestValidation(p) PROVE ReviewInv'
  BY <1>1, <1>2 DEF RequestValidation, Targets
<1>3. ASSUME NEW r \in Requests, CreateRequest(r) PROVE ReviewInv'
  BY <1>1, <1>3 DEF CreateRequest, Targets
<1> QED BY <1>2, <1>3

\* An event that is not of an execution leaves the events of executions alone.
LEMMA RecordsKeep ==
    ASSUME ReviewInv
    PROVE  /\ \A k \in Corrections : RecordLifecycle(k) => ReviewInv'
           /\ \A r \in Requests : Replay(r) => ReviewInv'
<1>1. ASSUME NEW r \in Requests, NEW a \in {"invalidate", "supersede", "replayed"},
             log' = [log EXCEPT ![r] = @ \cup {a}], lifecycle' \subseteq Corrections,
             UNCHANGED <<predictions, loaded, status, verdict, evidence, tx>>
      PROVE  ReviewInv'
  <2>1. /\ log' \in [Targets -> SUBSET EventTypes]
        /\ \A u \in Targets : u # r => log'[u] = log[u]
        /\ log'[r] = log[r] \cup {a} /\ r \notin Predictions
    BY <1>1, ReviewFacts, RequestFacts DEF EventTypes, Targets
  <2>2. \A u \in Targets :
           /\ "started" \in log'[u] <=> "started" \in log[u]
           /\ "manifest_created" \in log'[u] <=> "manifest_created" \in log[u]
           /\ u \in Predictions => log'[u] = log[u]
    BY <1>1, <2>1
  <2>3. TypeOK'
    BY <1>1, <2>1, ReviewFacts DEF ReviewInv, TypeOK
  <2>4. StatusTellsTheOutcome'
    BY <1>1, <2>2 DEF ReviewInv, RowsInv, StatusTellsTheOutcome, Begun
  <2>5. OneVerdictPerPrediction' /\ ExclusiveInv'
    BY <1>1 DEF ReviewInv, RowsInv, OneVerdictPerPrediction, ExclusiveInv, Running
  <2>6. ExecutionInv'
    BY <1>1, <2>2 DEF ReviewInv, ExecutionInv, Running, Begun
  <2> QED BY <2>3, <2>4, <2>5, <2>6 DEF ReviewInv, RowsInv
<1>2. ASSUME NEW k \in Corrections, RecordLifecycle(k) PROVE ReviewInv'
  BY <1>1, <1>2, RequestFacts DEF RecordLifecycle, ReviewInv, TypeOK
<1>3. ASSUME NEW r \in Requests, Replay(r) PROVE ReviewInv'
  BY <1>1, <1>3 DEF Replay, ReviewInv, TypeOK
<1> QED BY <1>2, <1>3

LEMMA InitReview == Init => ReviewInv
<1> SUFFICES ASSUME Init PROVE ReviewInv
  OBVIOUS
<1>1. IdleTx \in Execution /\ IdleTx.phase = "idle"
  BY DEF IdleTx, Execution
<1>2. TypeOK
  BY <1>1 DEF Init, TypeOK
<1>3. StatusTellsTheOutcome
  BY DEF Init, StatusTellsTheOutcome, Begun
<1>4. OneVerdictPerPrediction
  BY DEF Init, OneVerdictPerPrediction, Targets
<1>5. ExecutionInv /\ ExclusiveInv
  BY <1>1 DEF Init, ExecutionInv, ExclusiveInv, Running
<1> QED BY <1>2, <1>3, <1>4, <1>5 DEF ReviewInv, RowsInv

LEMMA ReviewInvKeeps == ReviewInv /\ [Next]_vars => ReviewInv'
<1> SUFFICES ASSUME ReviewInv, [Next]_vars PROVE ReviewInv'
  OBVIOUS
<1>1. ASSUME predictions' \subseteq Predictions, loaded' \subseteq Versions,
             UNCHANGED <<status, verdict, evidence, log, lifecycle, tx>>
      PROVE  ReviewInv'
  BY <1>1 DEF ReviewInv, RowsInv, TypeOK, StatusTellsTheOutcome, OneVerdictPerPrediction,
              Begun, ExecutionInv, ExclusiveInv, Running
<1>2. ASSUME NEW p \in Predictions, PersistPrediction(p) \/ ImportPrediction(p)
      PROVE  ReviewInv'
  BY <1>1, <1>2 DEF PersistPrediction, ImportPrediction, ReviewInv, TypeOK
<1>3. ASSUME NEW v \in Versions, LoadModel(v) PROVE ReviewInv'
  BY <1>1, <1>3 DEF LoadModel, ReviewInv, TypeOK
<1>4. ASSUME NEW c \in Clients, Advance(c) \/ Abort(c) PROVE ReviewInv'
  BY <1>4, StatementsKeep, WriteValidationKeeps, WriteIneligibleKeeps, WriteStatisticsKeeps,
     RollbackReview DEF Advance, EvidenceConflict, Abort
<1>5. CASE UNCHANGED vars
  BY <1>1, <1>5 DEF vars, ReviewInv, TypeOK
<1> QED BY <1>2, <1>3, <1>4, <1>5, StatementsKeep, RequestsKeep, RecordsKeep DEF Next

LEMMA ReviewInvHolds == Spec => []ReviewInv
BY InitReview, ReviewInvKeeps, PTL DEF Spec

-----------------------------------------------------------------------------
(* Theorems *)

\* Rows and executions are of their types.
THEOREM TypeCorrect == Spec => []TypeOK
BY ReviewInvHolds, PTL DEF ReviewInv

\* Status, result, manifest and events of a request tell one story.
THEOREM StatusTellsTheOutcomeHolds == Spec => []StatusTellsTheOutcome
BY ReviewInvHolds, PTL DEF ReviewInv, RowsInv

\* A prediction gets one statistical verdict at most.
THEOREM OneVerdictPerPredictionHolds == Spec => []OneVerdictPerPrediction
BY ReviewInvHolds, PTL DEF ReviewInv, RowsInv

\* The verdict of the one request for a prediction that has one is the verdict.
LEMMA VerdictOfRequest ==
    ASSUME OneVerdictPerPrediction, NEW r \in Requests, verdict[r] # "none"
    PROVE  StatisticalVerdict(r.prediction) = verdict[r]
<1> DEFINE Judged(q) == q.prediction = r.prediction /\ verdict[q] # "none"
           chosen == CHOOSE q \in Requests : Judged(q)
<1>1. chosen \in Requests /\ Judged(chosen)
  OBVIOUS
<1>2. chosen = r
  BY <1>1 DEF OneVerdictPerPrediction
<1>3. \E q \in Requests : Judged(q)
  OBVIOUS
<1>4. StatisticalVerdict(r.prediction) = verdict[chosen]
  BY <1>3 DEF StatisticalVerdict
<1> QED BY <1>2, <1>4

LEMMA VerdictOfRequestLater ==
    ASSUME OneVerdictPerPrediction', NEW r \in Requests, verdict'[r] # "none"
    PROVE  StatisticalVerdict(r.prediction)' = verdict'[r]
<1> DEFINE Judged(q) == q.prediction = r.prediction /\ verdict'[q] # "none"
           chosen == CHOOSE q \in Requests : Judged(q)
<1>1. chosen \in Requests /\ Judged(chosen)
  OBVIOUS
<1>2. chosen = r
  BY <1>1 DEF OneVerdictPerPrediction
<1>3. \E q \in Requests : Judged(q)
  OBVIOUS
<1>4. StatisticalVerdict(r.prediction)' = verdict'[chosen]
  BY <1>3 DEF StatisticalVerdict
<1> QED BY <1>2, <1>4

LEMMA NoVerdictOfRequest ==
    ASSUME NEW p, \A r \in Requests : r.prediction = p => verdict[r] = "none"
    PROVE  StatisticalVerdict(p) = "none"
BY DEF StatisticalVerdict

\* The verdict on a prediction follows the verdicts of its requests.
LEMMA VerdictFollows ==
    ASSUME OneVerdictPerPrediction, OneVerdictPerPrediction', NEW p,
           \A r \in Requests : r.prediction = p => verdict'[r] = verdict[r]
    PROVE  StatisticalVerdict(p)' = StatisticalVerdict(p)
<1>1. CASE \A r \in Requests : r.prediction = p => verdict[r] = "none"
  <2>1. (\A r \in Requests : r.prediction = p => verdict[r] = "none")'
    BY <1>1
  <2>2. StatisticalVerdict(p)' = "none"
    BY <2>1 DEF StatisticalVerdict
  <2> QED BY <1>1, <2>2, NoVerdictOfRequest
<1>2. CASE \E r \in Requests : r.prediction = p /\ verdict[r] # "none"
  <2>1. PICK r \in Requests : r.prediction = p /\ verdict[r] # "none"
    BY <1>2
  <2>2. StatisticalVerdict(p) = verdict[r]
    BY <2>1, VerdictOfRequest
  <2>3. verdict'[r] # "none"
    BY <2>1
  <2>4. StatisticalVerdict(r.prediction)' = verdict'[r]
    BY <2>3, VerdictOfRequestLater
  <2> QED BY <2>1, <2>2, <2>4
<1> QED BY <1>1, <1>2

\* To a reader of its results the review is the write-once Verdicts.
THEOREM VerdictsImplementation == Spec => ImplementsVerdicts
<1> DEFINE str == [p \in Predictions |-> verdict[p]]
           sta == [p \in Predictions |-> StatisticalVerdict(p)]
<1>1. Init => V!VerdictsInit
  <2> SUFFICES ASSUME Init
               PROVE  /\ str = [p \in Predictions |-> "none"]
                      /\ sta = [p \in Predictions |-> "none"]
    BY DEF V!VerdictsInit
  <2>1. \A t \in Targets : verdict[t] = "none"
    BY DEF Init
  <2>2. \A p \in Predictions : StatisticalVerdict(p) = "none"
    BY <2>1, NoVerdictOfRequest DEF Targets
  <2> QED BY <2>1, <2>2 DEF Targets
<1>2. ReviewInv /\ ReviewInv' /\ [Next]_vars => [V!VerdictsNext]_<<str, sta>>
  <2> SUFFICES ASSUME ReviewInv, ReviewInv', [Next]_vars
               PROVE  V!VerdictsNext \/ (str' = str /\ sta' = sta)
    OBVIOUS
  <2>0. OneVerdictPerPrediction /\ OneVerdictPerPrediction'
    BY DEF ReviewInv, RowsInv
  <2>1. ASSUME NEW c \in Clients, WriteValidation(c) PROVE V!VerdictsNext
    <3> DEFINE p == tx[c].on
               v == tx[c].outcome
    <3>1. p \in Predictions /\ v \in Verdict /\ verdict[p] = "none" /\ p \in Targets
      BY <2>1, RunningTarget DEF WriteValidation, ReviewInv, ExecutionInv, Running, Targets
    <3>2. verdict' = [verdict EXCEPT ![p] = v]
      BY <2>1 DEF WriteValidation
    <3> HIDE DEF p, v
    <3>3. str' = [str EXCEPT ![p] = v]
      BY <3>1, <3>2, ReviewFacts DEF Targets
    <3>4. \A r \in Requests : verdict'[r] = verdict[r]
      BY <3>1, <3>2, ReviewFacts, RequestFacts DEF Targets
    <3>5. \A q \in Predictions : StatisticalVerdict(q)' = StatisticalVerdict(q)
      BY <2>0, <3>4, VerdictFollows
    <3>6. sta' = sta
      BY <3>5
    <3>7. str[p] = "none"
      BY <3>1
    <3> HIDE DEF str, sta
    <3> QED BY <3>1, <3>3, <3>6, <3>7 DEF V!VerdictsNext, V!JudgeStructure, V!Verdict, Verdict, str, sta
  <2>2. ASSUME NEW c \in Clients, WriteStatistics(c) PROVE V!VerdictsNext
    <3>0. PICK r \in Requests, v \in Verdict : r = tx[c].on /\ v = tx[c].outcome
      BY <2>2 DEF WriteStatistics
    <3>1. /\ r.prediction \notin evidence
          /\ r.prediction \in Predictions /\ r.parent \in Predictions
          /\ verdict[r.parent] = "validated"
      BY <2>2, <3>0, RequestFacts DEF WriteStatistics, EvidenceTaken, ReviewInv, ExecutionInv
    <3>2. verdict' = [verdict EXCEPT ![r] = v]
      BY <2>2, <3>0 DEF WriteStatistics
    <3>3. verdict'[r] = v /\ \A t \in Targets : t # r => verdict'[t] = verdict[t]
      BY <3>1, <3>2, ReviewFacts DEF Targets
    <3>4. str' = str
      BY <3>1, <3>3, RequestFacts DEF Targets
    <3>5. \A q \in Requests : q.prediction = r.prediction => verdict[q] = "none"
      BY <3>1 DEF ReviewInv, RowsInv, OneVerdictPerPrediction
    <3>6. StatisticalVerdict(r.prediction) = "none"
      BY <3>5, NoVerdictOfRequest
    <3>7. StatisticalVerdict(r.prediction)' = v
      <4>1. verdict'[r] # "none"
        BY <3>1, <3>3 DEF Verdict
      <4> QED BY <2>0, <3>3, <4>1, VerdictOfRequestLater
    <3>8. ASSUME NEW q \in Predictions, q # r.prediction
          PROVE  StatisticalVerdict(q)' = StatisticalVerdict(q)
      <4>1. \A s \in Requests : s.prediction = q => verdict'[s] = verdict[s]
        BY <3>3, <3>8 DEF Targets
      <4> QED BY <2>0, <4>1, VerdictFollows
    <3>9. sta' = [sta EXCEPT ![r.prediction] = v]
      BY <3>1, <3>7, <3>8
    <3>10. sta[r.prediction] = "none" /\ str[r.parent] = "validated"
      BY <3>1, <3>6
    <3> HIDE DEF str, sta
    <3> QED BY <3>1, <3>4, <3>9, <3>10
            DEF V!VerdictsNext, V!JudgeStatistics, V!Verdict, Verdict, str, sta
  <2>3. ASSUME verdict' = verdict PROVE str' = str /\ sta' = sta
    <3>1. \A q \in Predictions : StatisticalVerdict(q)' = StatisticalVerdict(q)
      BY <2>0, <2>3, VerdictFollows
    <3> QED BY <2>3, <3>1
  <2>4. verdict' = verdict \/ \E c \in Clients : WriteValidation(c) \/ WriteStatistics(c)
    BY DEF Next, vars, PersistPrediction, ImportPrediction, LoadModel, RequestValidation,
           CreateRequest, Replay, RecordLifecycle, Execute, Advance, Abort, InsertStarted, Read,
           WriteIneligible, EvidenceConflict, Rollback
  <2> QED BY <2>1, <2>2, <2>3, <2>4
<1> QED
  BY <1>1, <1>2, ReviewInvHolds, PTL DEF Spec, ImplementsVerdicts, V!VerdictsSpec, V!verdictVars
=============================================================================
