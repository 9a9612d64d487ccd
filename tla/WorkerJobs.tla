----------------------------- MODULE WorkerJobs -----------------------------
(***************************************************************************)
(* The scheduled_jobs table, the worker processes that poll it             *)
(* (apps/worker/worker.py) and run_job of apps/api/app/scheduler/service.py*)
(* as the workers and the manual-run endpoint call it, with the data       *)
(* alerts of STALE_DATA_CHECK, whose rows decide whether that job can      *)
(* commit.                                                                 *)
(*                                                                         *)
(* A run is one transaction under the FOR UPDATE lock of its job's row, so *)
(* the runs of one job are serial and a run is one step here; a list of    *)
(* due jobs is read without a lock and can be old when its jobs are run.   *)
(* next_run_at is kept as what can be told from it: the ticks until a job  *)
(* is due, and the order of the jobs that are due.                         *)
(***************************************************************************)
EXTENDS Integers, SequencesExt

CONSTANTS
    Workers,
    Jobs,
    StaleCheck,     \* the job STALE_DATA_CHECK
    Early,          \* jobs that can return before the end of run_job:
                    \* EOD_POSITION_EXIT if its payload has "force"
    Feeds,          \* instruments whose market data is watched
    Limit,          \* jobs a worker takes per pass (5 in the code)
    Interval,       \* interval_seconds, in ticks
    Backoff,        \* delay after the n-th failure, in ticks; the last for more
    MaxFaults       \* bound on lost connections and dead workers

ASSUME WorkerAssumption ==
    /\ IsFiniteSet(Jobs)
    /\ StaleCheck \in Jobs
    /\ Early \subseteq Jobs
    /\ Limit \in Nat \ {0}
    /\ Interval \in Nat \ {0}
    /\ Backoff \in Seq(Nat \ {0}) /\ Backoff # <<>>
    /\ MaxFaults \in Nat

VARIABLES
    status,     \* ScheduledJob.status
    wait,       \* ticks until next_run_at, 0 when it is past
    due,        \* the jobs whose next_run_at is past, in its order
    retries,    \* ScheduledJob.retry_count, as far as the delay depends on it
    alert,      \* Alert rows MARKET_DATA_STALE of each feed: their statuses
    stale,      \* the data of the feed is older than five minutes
    list,       \* the jobs each worker has still to run in its pass
    faults

jobRow == <<status, wait, due, retries>>
jobsVars == <<jobRow, alert, stale, list, faults>>

AlertStatuses == {"open", "resolved"}

WorkerTypeOK ==
    /\ status \in [Jobs -> {"idle", "running", "failed"}]
    /\ wait \in [Jobs -> Nat]
    /\ due \in Seq(Jobs) /\ IsInjective(due)
    /\ \A j \in Jobs : wait[j] = 0 <=> j \in ToSet(due)
    /\ retries \in [Jobs -> 0 .. Len(Backoff)]
    /\ alert \in [Feeds -> SUBSET AlertStatuses]
    /\ stale \in [Feeds -> BOOLEAN]
    /\ list \in [Workers -> Seq(Jobs)]
    /\ faults \in 0 .. MaxFaults

\* ensure_jobs makes every job due at once.
WorkerInit ==
    /\ status = [j \in Jobs |-> "idle"]
    /\ wait = [j \in Jobs |-> 0]
    /\ due \in SetToSeqs(Jobs)
    /\ retries = [j \in Jobs |-> 0]
    /\ alert = [f \in Feeds |-> {}]
    /\ stale = [f \in Feeds |-> FALSE]
    /\ list = [w \in Workers |-> <<>>]
    /\ faults = 0

-----------------------------------------------------------------------------
(* The clock and the market *)

Tick ==
    LET soon == {j \in Jobs : wait[j] = 1} IN
    /\ \E j \in Jobs : wait[j] > 0
    /\ wait' = [j \in Jobs |-> IF wait[j] > 0 THEN wait[j] - 1 ELSE 0]
    /\ \E s \in SetToSeqs(soon) : due' = due \o s
    /\ UNCHANGED <<status, retries, alert, stale, list, faults>>

FeedChanges(f) ==
    /\ stale' = [stale EXCEPT ![f] = ~@]
    /\ UNCHANGED <<jobRow, alert, list, faults>>

-----------------------------------------------------------------------------
(* One run of a job *)

\* The faulty variant leaves the job in its old place.
StayDue(j) == due
LeaveDue(j) ==
    IF wait[j] = 0 THEN RemoveAt(due, CHOOSE n \in DOMAIN due : due[n] = j) ELSE due

\* next_run_at is set to d ticks from now.
Reschedule(j, d) ==
    /\ wait' = [wait EXCEPT ![j] = d]
    /\ due' = LeaveDue(j)

\* STALE_DATA_CHECK opens an alert for stale data, and resolves the open one
\* when the data is fresh again.  (Data is missing only before its first row, so
\* an alert MARKET_DATA_MISSING is resolved once and is left out.)
AlertAfter(f) ==
    IF stale[f] THEN alert[f] \cup {"open"}
    ELSE IF "open" \in alert[f] THEN (alert[f] \ {"open"}) \cup {"resolved"}
                                ELSE alert[f]

\* (issue_key, status) is unique, so an issue can be resolved once.
AlertClash == \E f \in Feeds : ~stale[f] /\ alert[f] = AlertStatuses

Succeed(j) ==
    /\ j = StaleCheck => ~AlertClash
    /\ alert' = IF j = StaleCheck THEN [f \in Feeds |-> AlertAfter(f)] ELSE alert
    /\ status' = [status EXCEPT ![j] = "idle"]
    /\ Reschedule(j, Interval)
    /\ UNCHANGED <<retries, faults>>

\* An exception that leaves the transaction usable is caught and recorded.
\* retry_count is never reset.
Fail(j) ==
    LET n == IF retries[j] < Len(Backoff) THEN retries[j] + 1 ELSE retries[j] IN
    /\ j # StaleCheck
    /\ status' = [status EXCEPT ![j] = "failed"]
    /\ retries' = [retries EXCEPT ![j] = n]
    /\ Reschedule(j, Backoff[n])
    /\ UNCHANGED <<alert, faults>>

\* The return before the cutoff, past the code that sets the job idle.
ReturnEarly(j) ==
    /\ j \in Early
    /\ status' = [status EXCEPT ![j] = "running"]
    /\ UNCHANGED <<wait, due, retries, alert, faults>>

\* A database error: no commit is possible any more, not of the failure either.
RollBack(j) ==
    /\ \/ j = StaleCheck /\ AlertClash /\ UNCHANGED faults
       \/ faults < MaxFaults /\ faults' = faults + 1
    /\ UNCHANGED <<jobRow, alert>>

RunJob(j) == Succeed(j) \/ Fail(j) \/ ReturnEarly(j) \/ RollBack(j)

\* The endpoint jobs/{job_type}/run: due or not, whatever the status.
RunManually(j) == RunJob(j) /\ UNCHANGED <<stale, list>>

-----------------------------------------------------------------------------
(* The worker *)

\* The faulty variant forgets the jobs that failed.
ReadyIdle(j) == status[j] = "idle"
Ready(j) == status[j] \in {"idle", "failed"}

\* The SELECT of tick: the jobs that have been due longest, in their order.
Listed ==
    LET ready == {n \in DOMAIN due : Ready(due[n])} IN
    {n \in ready : Cardinality({m \in ready : m < n}) < Limit}

ListDue(w) ==
    /\ list[w] = <<>>
    /\ Listed # {}
    /\ \E s \in SetToSeqs(Listed) :
          /\ \A m, n \in DOMAIN s : m < n => s[m] < s[n]
          /\ list' = [list EXCEPT ![w] = [n \in DOMAIN s |-> due[s[n]]]]
    /\ UNCHANGED <<jobRow, alert, stale, faults>>

\* The loop of tick: one transaction per job, an error goes on to the next.
RunNext(w) ==
    /\ list[w] # <<>>
    /\ RunJob(Head(list[w]))
    /\ list' = [list EXCEPT ![w] = Tail(@)]
    /\ UNCHANGED stale

\* The process dies and is started again.
Restart(w) ==
    /\ list[w] # <<>>
    /\ faults < MaxFaults
    /\ faults' = faults + 1
    /\ list' = [list EXCEPT ![w] = <<>>]
    /\ UNCHANGED <<jobRow, alert, stale>>

WorkerNext ==
    \/ Tick
    \/ \E f \in Feeds : FeedChanges(f)
    \/ \E j \in Jobs : RunManually(j)
    \/ \E w \in Workers : ListDue(w) \/ RunNext(w) \/ Restart(w)

WorkerSpec == WorkerInit /\ [][WorkerNext]_jobsVars

\* A worker polls for ever, and the clock goes on.
FairWorkerSpec ==
    /\ WorkerSpec
    /\ WF_jobsVars(Tick)
    /\ \A w \in Workers : WF_jobsVars(ListDue(w) \/ RunNext(w))

-----------------------------------------------------------------------------
(* Properties *)

\* A due job is run and scheduled again, although workers die, other jobs fail
\* at every pass, and STALE_DATA_CHECK may never commit again and so keeps its
\* place at the head of the queue.
DueJobsRun ==
    \A j \in Jobs \ {StaleCheck} : j \in ToSet(due) ~> j \notin ToSet(due)

\* An alert is resolved once the data is fresh again (STALE_DATA_CHECK).
OpenAlertsResolve ==
    \A f \in Feeds :
        "open" \in alert[f] /\ ~stale[f] ~> "open" \notin alert[f] \/ stale[f]
=============================================================================
