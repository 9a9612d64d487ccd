----------------------------- MODULE TradingJobs -----------------------------
(***************************************************************************)
(* The desk of PaperTrading together with the scheduler's jobs that write  *)
(* the same rows (run_job of apps/api/app/scheduler/service.py):           *)
(* APPROVAL_EXPIRY, STOP_TARGET_EVALUATION and EOD_POSITION_EXIT.  A job   *)
(* runs in one transaction; its ScheduledJob row is locked from the start, *)
(* so a job type never overlaps with itself.                               *)
(***************************************************************************)
EXTENDS PaperTrading

CONSTANT EodForced      \* the EOD job's payload has "force", the cutoff passed

ASSUME JobsAssumption == EodForced \in BOOLEAN

VARIABLES
    expiry,     \* approvals that APPROVAL_EXPIRY has read as due, not written
    sweep,      \* the transactions of the two jobs that exit positions
    raced       \* history: instruments whose row the EOD job overwrote stale

jobVars == <<expiry, sweep, raced>>
allVars == <<vars, jobVars>>

Sweeps == {"stop", "eod"}
Sweep ==
    [open : BOOLEAN,
     todo : SUBSET Instruments,                \* positions still to visit
     held : SUBSET Instruments,                \* row locks
     exits : SUBSET Instruments,               \* exits made, not committed
     proceeds : Nat,                           \* their rows in the cash ledger
     loaded : [Instruments -> PositionRow]]    \* rows in the ORM session

IdleSweep == [open |-> FALSE, todo |-> {}, held |-> {}, exits |-> {},
              proceeds |-> 0, loaded |-> [i \in Instruments |-> NoPosition]]

JobsTypeOK ==
    /\ TypeOK
    /\ expiry \subseteq Approvals
    /\ sweep \in [Sweeps -> Sweep]
    /\ raced \subseteq Instruments

JobsInit ==
    /\ Init
    /\ expiry = {}
    /\ sweep = [j \in Sweeps |-> IdleSweep]
    /\ raced = {}

-----------------------------------------------------------------------------
(* APPROVAL_EXPIRY: an unlocked SELECT, then UPDATEs by primary key that    *)
(* wait for the row locks but look at the status no more                   *)

ExpiryRead ==
    /\ expiry = {}
    /\ expiry' = {a \in Approvals : status[a] = "pending" /\ deal[a].expires < now}
    /\ UNCHANGED <<vars, sweep, raced>>

ExpiryWrite ==
    /\ expiry # {}
    /\ \A a \in expiry : ApprovalFree(a)
    /\ status' = [a \in Approvals |-> IF a \in expiry THEN "expired" ELSE status[a]]
    /\ expiry' = {}
    /\ UNCHANGED <<deal, orders, position, sells, bought, sold, cash, settings,
                   now, answers, tx, sweep, raced>>

-----------------------------------------------------------------------------
(* STOP_TARGET_EVALUATION and EOD_POSITION_EXIT                            *)

SweptBy(j, i) == i \in sweep[j].held
Swept(i) == \E j \in Sweeps : SweptBy(j, i)

\* Both jobs start from the positions that are open; only the stop job's
\* SELECT is FOR UPDATE, so the EOD job keeps these rows as it loaded them.
SweepRead(j) ==
    /\ ~sweep[j].open
    /\ j = "eod" => EodForced
    /\ LET opened == {i \in Instruments : position[i].qty > 0} IN
       /\ opened # {}
       /\ sweep' = [sweep EXCEPT ![j] = [IdleSweep EXCEPT !.open = TRUE,
                                            !.todo = opened, !.loaded = position]]
    /\ UNCHANGED <<vars, expiry, raced>>

\* Locking a row that the session has loaded before does not load it again; the
\* faulty variant RowAsLoaded has the stop job load its rows before it locks them.
RowAsLoaded(j, i) == sweep[j].loaded[i]
RowOnLock(j, i) == IF j = "stop" THEN position[i] ELSE sweep[j].loaded[i]

\* The stop job locks every open row and exits those whose stop or target was
\* touched (hit) at a trigger price p.  The EOD job exits at the last price p.
SweepTake(j, i, hit, p) ==
    LET s == sweep[j]
        row == RowOnLock(j, i)
        exit == hit /\ row.qty > 0
        made == IF exit THEN {i} ELSE {}
        gain == IF exit THEN Credit(row.qty, p) ELSE 0
        kept == IF exit THEN [row EXCEPT !.price = p] ELSE row
    IN  /\ i \in s.todo
        /\ j = "eod" => hit
        /\ PositionFree(i)
        /\ ~Swept(i)
        /\ [instr |-> i, version |-> row.version, qty |-> row.qty] \notin sells
        /\ sweep' = [sweep EXCEPT ![j] =
                        [s EXCEPT !.todo = @ \ {i}, !.held = @ \cup {i},
                                  !.exits = @ \cup made, !.proceeds = @ + gain,
                                  !.loaded[i] = kept]]
        /\ UNCHANGED <<vars, expiry, raced>>

\* The EOD job passes over a position without a market snapshot.
SweepSkip(i) ==
    /\ i \in sweep["eod"].todo
    /\ sweep' = [sweep EXCEPT !["eod"].todo = @ \ {i}]
    /\ UNCHANGED <<vars, expiry, raced>>

\* A faulty variant: the job tries the position again and again.
SweepRetry(i, p) ==
    /\ i \in sweep["eod"].todo
    /\ PositionFree(i)
    /\ ~Swept(i)
    /\ UNCHANGED allVars

\* The sale was made meanwhile under the same key: the savepoint rolls back,
\* run_job records a failure and commits the exits made so far; only the
\* current_price of i is written.
SweepFail(i, p) ==
    LET row == sweep["eod"].loaded[i] IN
    /\ i \in sweep["eod"].todo
    /\ PositionFree(i)
    /\ ~Swept(i)
    /\ [instr |-> i, version |-> row.version, qty |-> row.qty] \in sells
    /\ sweep' = [sweep EXCEPT !["eod"].todo = {}, !["eod"].held = @ \cup {i},
                              !["eod"].loaded[i].price = p]
    /\ UNCHANGED <<vars, expiry, raced>>

\* The commit of the rows the job changed: exit_position sells all of them.
SweepCommit(j) ==
    LET s == sweep[j] IN
    /\ s.open
    /\ s.todo = {}
    /\ position' = [i \in Instruments |->
           IF i \in s.exits
           THEN [s.loaded[i] EXCEPT !.qty = 0, !.version = @ + 1]
           ELSE IF i \in s.held THEN [position[i] EXCEPT !.price = s.loaded[i].price]
                                ELSE position[i]]
    /\ sells' = sells \cup {[instr |-> i, version |-> s.loaded[i].version,
                             qty |-> s.loaded[i].qty] : i \in s.exits}
    /\ sold' = [i \in Instruments |->
                  IF i \in s.exits THEN sold[i] + s.loaded[i].qty ELSE sold[i]]
    /\ cash' = cash + s.proceeds
    /\ raced' = raced \cup {i \in s.exits :
                             j = "eod" /\ s.loaded[i].version # position[i].version}
    /\ sweep' = [sweep EXCEPT ![j] = IdleSweep]
    /\ UNCHANGED <<status, deal, orders, bought, settings, now, answers, tx, expiry>>

\* The faulty variant forgets to release the row locks.
SweepRollbackHeld(j) ==
    /\ sweep' = [sweep EXCEPT ![j].open = FALSE, ![j].todo = {}, ![j].exits = {}]
    /\ UNCHANGED <<vars, expiry, raced>>
SweepRollback(j) ==
    /\ sweep' = [sweep EXCEPT ![j] = IdleSweep]
    /\ UNCHANGED <<vars, expiry, raced>>

\* Each job waits for rows of the other: PostgreSQL ends one of them.
Stuck(j) == sweep[j].todo # {} /\ \A i \in sweep[j].todo : Swept(i) /\ ~SweptBy(j, i)
SweepDeadlock(j) == (\A s \in Sweeps : Stuck(s)) /\ SweepRollback(j)

\* The worker dies or loses its connection.
SweepCrash(j) == sweep[j].open /\ SweepRollback(j)

-----------------------------------------------------------------------------

\* A call waits for a position that a job has locked.
WaitsForSweep(c) ==
    /\ tx[c].pc = "ordered"
    /\ position[tx[c].instr].version # 0
    /\ Swept(tx[c].instr)

AdvanceCall(c) == ~WaitsForSweep(c) /\ Advance(c) /\ UNCHANGED jobVars
OpenCall(c) ==
    /\ Call(c)
    /\ tx'[c].pc = "exiting" => ~Swept(tx'[c].instr)
    /\ UNCHANGED jobVars

SweepStep(j) ==
    \/ \E i \in Instruments, hit \in BOOLEAN, p \in Prices : SweepTake(j, i, hit, p)
    \/ j = "eod" /\ \E i \in Instruments, p \in Prices : SweepFail(i, p)
    \/ SweepCommit(j)
    \/ SweepDeadlock(j)

JobsNext ==
    \/ Desk /\ UNCHANGED jobVars
    \/ \E c \in Clients : AdvanceCall(c) \/ OpenCall(c)
    \/ \E c \in Clients : Abort(c) /\ UNCHANGED jobVars
    \/ ExpiryRead
    \/ ExpiryWrite
    \/ \E j \in Sweeps : SweepRead(j) \/ SweepStep(j) \/ SweepCrash(j)
    \/ \E i \in Instruments : SweepSkip(i)

JobsSpec == JobsInit /\ [][JobsNext]_allVars

\* An open transaction runs on, and row lock waiters are served in turn.  A job
\* has to end without help from positions that lack a market snapshot.
FairJobsSpec ==
    /\ JobsSpec
    /\ \A c \in Clients : SF_allVars(AdvanceCall(c))
    /\ \A j \in Sweeps : SF_allVars(SweepStep(j))
    /\ SF_allVars(ExpiryWrite)

-----------------------------------------------------------------------------
(* Properties *)

\* Only an EOD exit of a row that had changed since the job loaded it breaks
\* the holdings; the stop job, which locks first and loads then, never does.
HoldingsKeptByLockedJobs ==
    \A i \in Instruments \ raced : position[i].qty = bought[i] - sold[i]

\* APPROVAL_EXPIRY may write over a decision, but no filled approval is ever
\* shown as rejected or as still pending.
FilledNeverReopened ==
    \A a \in Approvals :
        /\ OrdersOfApproval(a) # {} => status[a] \in {"approved", "expired"}
        /\ \A o, p \in OrdersOfApproval(a) : o = p

\* Every job that began ends, whatever rows the other job and the calls hold.
SweepsReturn == \A j \in Sweeps : sweep[j].open ~> ~sweep[j].open
=============================================================================
