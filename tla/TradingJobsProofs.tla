-------------------------- MODULE TradingJobsProofs --------------------------
(***************************************************************************)
(* Proofs about TradingJobs, for any number of clients, approvals, keys    *)
(* and instruments: what the jobs that write the desk's rows keep of its   *)
(* invariant, and what holds of their row locks and of the rows that their *)
(* sessions have loaded.                                                   *)
(***************************************************************************)
EXTENDS TradingJobs, PaperTradingProofs

-----------------------------------------------------------------------------
(* The invariant *)

JobsTypes ==
    /\ expiry \subseteq Approvals
    /\ sweep \in [Sweeps -> Sweep]
    /\ raced \subseteq Instruments

\* What APPROVAL_EXPIRY is about to write exists.
ExpirySound == \A a \in expiry : status[a] # "none"

\* A job exits only rows that it holds, which no call holds; every row that it
\* visits exists and has a price that covers the costs of a sale.  One that has
\* ended holds nothing.
SweepSound(j) ==
    /\ ~sweep[j].open => sweep[j].todo = {} /\ sweep[j].held = {}
    /\ sweep[j].exits \subseteq sweep[j].held
    /\ \A i \in sweep[j].todo \cup sweep[j].held :
          position[i].version # 0 /\ sweep[j].loaded[i].price >= Spread
    /\ \A i \in sweep[j].held : PositionFree(i)

\* No row is held by both jobs.
HeldApart == \A i \in Instruments : ~(SweptBy("stop", i) /\ SweptBy("eod", i))

\* The stop job has loaded the rows that it holds as they are.  A row that the
\* EOD job has loaded may have changed since, but then its version shows it.
LoadedSound ==
    /\ \A i \in sweep["stop"].held :
          /\ sweep["stop"].loaded[i].version = position[i].version
          /\ sweep["stop"].loaded[i].qty = position[i].qty
    /\ \A i \in sweep["eod"].todo \cup sweep["eod"].held :
          /\ sweep["eod"].loaded[i].version <= position[i].version
          /\ sweep["eod"].loaded[i].version = position[i].version =>
                sweep["eod"].loaded[i].qty = position[i].qty

\* Without "force" in its payload the EOD job exits nothing here.
EodIdle == EodForced \/ (~sweep["eod"].open /\ raced = {})

JobsInv ==
    /\ DeskInv
    /\ JobsTypes
    /\ ExpirySound
    /\ \A j \in Sweeps : SweepSound(j)
    /\ HeldApart
    /\ LoadedSound
    /\ EodIdle
    /\ HoldingsKeptByLockedJobs

\* The empty session is well typed.
LEMMA IdleSweepType ==
    /\ IdleSweep \in Sweep
    /\ ~IdleSweep.open /\ IdleSweep.todo = {} /\ IdleSweep.held = {}
    /\ IdleSweep.exits = {}
  BY DEF IdleSweep, Sweep, NoPosition, PositionRow

\* The invariant holds at the start.
LEMMA InitJobsInv == JobsInit => JobsInv
  <1> SUFFICES ASSUME JobsInit PROVE JobsInv
    OBVIOUS
  <1>1. DeskInv
    BY InitDeskInv DEF JobsInit
  <1>2. \A j \in Sweeps : sweep[j] = IdleSweep
    BY DEF JobsInit
  <1>3. JobsTypes /\ ExpirySound
    BY IdleSweepType DEF JobsInit, JobsTypes, ExpirySound
  <1>4. \A j \in Sweeps : SweepSound(j)
    BY <1>2, IdleSweepType DEF SweepSound
  <1>5. HeldApart /\ LoadedSound /\ EodIdle
    BY <1>2, IdleSweepType
       DEF JobsInit, HeldApart, SweptBy, LoadedSound, EodIdle, Sweeps
  <1>6. HoldingsKeptByLockedJobs
    BY DEF JobsInit, Init, HoldingsKeptByLockedJobs, NoPosition
  <1> QED
    BY <1>1, <1>3, <1>4, <1>5, <1>6 DEF JobsInv

\* The types of what the jobs and the rows hold, for the arithmetic below.
LEMMA JobsRowTypes ==
  ASSUME JobsInv, NEW i \in Instruments
  PROVE  /\ position[i].qty \in Nat /\ position[i].version \in Nat
         /\ position[i].price \in Nat
         /\ bought[i] \in Nat /\ sold[i] \in Nat
         /\ \A j \in Sweeps : /\ sweep[j].loaded[i] \in PositionRow
                              /\ sweep[j].loaded[i].qty \in Nat
                              /\ sweep[j].loaded[i].version \in Nat
                              /\ sweep[j].loaded[i].price \in Nat
  <1>1. position[i] \in PositionRow /\ bought[i] \in Nat /\ sold[i] \in Nat
    BY DEF JobsInv, DeskInv, TypeInv, TypeOK
  <1>2. ASSUME NEW j \in Sweeps PROVE sweep[j].loaded[i] \in PositionRow
    <2>1. sweep[j] \in Sweep
      BY DEF JobsInv, JobsTypes
    <2> QED
      BY <2>1 DEF Sweep
  <1> QED
    BY <1>1, <1>2 DEF PositionRow

-----------------------------------------------------------------------------
(* The steps of the desk *)

\* An approval that has a row keeps it.
LEMMA StatusStays ==
  ASSUME DeskInv, [Next]_vars, NEW a \in Approvals, status[a] # "none"
  PROVE  status'[a] # "none"
  <1>1. status \in [Approvals -> Statuses]
    BY DEF DeskInv, TypeInv, TypeOK
  <1>2. ASSUME NEW c \in Clients, tx[c].pc = "placed", ~PositionClash(c), Fill(c)
        PROVE  status'[a] # "none"
    BY <1>1, <1>2, FillEffect
  <1> QED
    BY <1>1, <1>2, RowSteps DEF rows, Generate, Reject, ExitCommit

\* A row that exists and is held by no call is changed by no call.
LEMMA FreeRowStays ==
  ASSUME DeskInv, [Next]_vars, NEW i \in Instruments,
         position[i].version # 0, PositionFree(i)
  PROVE  position'[i] = position[i]
  BY PositionSteps DEF PositionFree

\* A step of the desk that locks no row of a job keeps the invariant.
LEMMA DeskStepSound ==
  ASSUME JobsInv, [Next]_vars, UNCHANGED jobVars,
         \A i \in Instruments : Swept(i) => PositionFree(i)'
  PROVE  JobsInv'
  <1>1. DeskInv /\ DeskInv'
    BY NextDeskInv DEF JobsInv
  <1>2. UNCHANGED <<expiry, sweep, raced>>
    BY DEF jobVars
  <1>3. JobsTypes' /\ HeldApart' /\ EodIdle'
    BY <1>2 DEF JobsInv, JobsTypes, HeldApart, SweptBy, EodIdle
  <1>4. ExpirySound'
    BY <1>1, <1>2, StatusStays DEF JobsInv, JobsTypes, ExpirySound
  <1>5. ASSUME NEW i \in Instruments
        PROVE  /\ position'[i].version \in Nat /\ position[i].version \in Nat
               /\ position'[i].version >= position[i].version
               /\ position'[i].version = position[i].version => position'[i] = position[i]
    <2>1. position'[i].version \in Nat /\ position[i].version \in Nat
      BY <1>1 DEF DeskInv, TypeInv, TypeOK, PositionRow
    <2> QED
      BY <1>1, <2>1, PositionSteps
  <1>6. ASSUME NEW j \in Sweeps PROVE SweepSound(j)'
    <2>1. sweep[j] \in Sweep /\ SweepSound(j)
      BY DEF JobsInv, JobsTypes
    <2>2. sweep[j].todo \subseteq Instruments /\ sweep[j].held \subseteq Instruments
      BY <2>1 DEF Sweep
    <2>3. \A i \in sweep[j].todo \cup sweep[j].held : position'[i].version # 0
      BY <1>5, <2>1, <2>2 DEF SweepSound
    <2>4. \A i \in sweep[j].held : PositionFree(i)'
      BY <2>2 DEF Swept, SweptBy
    <2> QED
      BY <1>2, <2>1, <2>3, <2>4 DEF SweepSound
  <1>7. LoadedSound'
    <2>1. ASSUME NEW i \in sweep["stop"].held
          PROVE  i \in Instruments /\ position'[i] = position[i]
      <3>1. SweepSound("stop") /\ sweep["stop"] \in Sweep
        BY DEF JobsInv, JobsTypes, Sweeps
      <3>2. i \in Instruments /\ position[i].version # 0 /\ PositionFree(i)
        BY <2>1, <3>1 DEF SweepSound, Sweep
      <3> QED
        BY <1>1, <3>2, FreeRowStays
    <2>2. ASSUME NEW i \in sweep["eod"].todo \cup sweep["eod"].held
          PROVE  /\ sweep["eod"].loaded[i].version <= position'[i].version
                 /\ sweep["eod"].loaded[i].version = position'[i].version =>
                       sweep["eod"].loaded[i].qty = position'[i].qty
      <3>1. sweep["eod"] \in Sweep
        BY DEF JobsInv, JobsTypes, Sweeps
      <3>2. i \in Instruments
        BY <2>2, <3>1 DEF Sweep
      <3>3. sweep["eod"].loaded[i].version \in Nat
        BY <3>2, JobsRowTypes DEF Sweeps
      <3>4. /\ sweep["eod"].loaded[i].version <= position[i].version
            /\ sweep["eod"].loaded[i].version = position[i].version =>
                  sweep["eod"].loaded[i].qty = position[i].qty
        BY DEF JobsInv, LoadedSound
      <3> QED
        BY <1>5, <3>2, <3>3, <3>4
    <2> QED
      BY <1>2, <2>1, <2>2 DEF JobsInv, LoadedSound
  <1>8. HoldingsKeptByLockedJobs'
    <2> SUFFICES ASSUME NEW i \in Instruments \ raced
                 PROVE  position'[i].qty = bought'[i] - sold'[i]
      BY <1>2 DEF HoldingsKeptByLockedJobs
    <2>1. /\ position[i].qty \in Nat /\ position'[i].qty \in Nat
          /\ bought[i] \in Nat /\ bought'[i] \in Nat /\ sold[i] \in Nat /\ sold'[i] \in Nat
      BY <1>1 DEF DeskInv, TypeInv, TypeOK, PositionRow
    <2>2. /\ position'[i].qty - position[i].qty
               = (bought'[i] - bought[i]) - (sold'[i] - sold[i])
          /\ position[i].qty = bought[i] - sold[i]
      BY <1>1, PositionSteps DEF JobsInv, HoldingsKeptByLockedJobs
    <2> QED
      BY <2>1, <2>2
  <1> QED
    BY <1>1, <1>3, <1>4, <1>6, <1>7, <1>8 DEF JobsInv

\* What is swept is free, before and after a step of a call.
LEMMA CallKeepsFree ==
  ASSUME JobsInv, NEW c \in Clients, AdvanceCall(c) \/ OpenCall(c) \/ Abort(c),
         NEW i \in Instruments, Swept(i)
  PROVE  PositionFree(i)'
  <1>1. TypeInv /\ tx \in [Clients -> Transaction]
    BY DEF JobsInv, DeskInv, TypeInv, TypeOK
  <1>2. PositionFree(i) /\ position[i].version # 0
    BY DEF Swept, SweptBy, JobsInv, SweepSound
  <1>3. ASSUME Finish(c) PROVE PositionFree(i)'
    <2>1. tx'[c].pc = "idle" /\ \A d \in Clients : d # c => tx'[d] = tx[d]
      BY <1>1, <1>3, FinishOne
    <2> QED
      BY <1>2, <2>1 DEF PositionFree, HoldsPosition
  <1>4. ASSUME NEW ph \in {"funded", "ordered"}, Proceed(c, ph)
        PROVE  PositionFree(i)'
    <2>1. tx'[c].pc = ph /\ \A d \in Clients : d # c => tx'[d] = tx[d]
      BY <1>1, <1>4 DEF Proceed, Transaction
    <2> QED
      BY <1>2, <2>1 DEF PositionFree, HoldsPosition
  <1>5. ASSUME AdvanceCall(c), ApproveTakePosition(c)
        PROVE  PositionFree(i)'
    <2>1. CASE Rollback(c)
      BY <1>3, <2>1 DEF Rollback
    <2>2. CASE tx' = [tx EXCEPT ![c].pc = "placed", ![c].seen = position[tx[c].instr]]
      <3>1. /\ tx'[c].instr = tx[c].instr /\ tx[c].pc = "ordered"
            /\ \A d \in Clients : d # c => tx'[d] = tx[d]
        BY <1>1, <1>5, <2>2 DEF ApproveTakePosition, Transaction
      <3>2. tx[c].instr # i
        BY <1>2, <1>5, <3>1 DEF AdvanceCall, WaitsForSweep
      <3> QED
        BY <1>2, <3>1, <3>2 DEF PositionFree, HoldsPosition
    <2> QED
      BY <1>5, <2>1, <2>2 DEF ApproveTakePosition
  <1>6. CASE AdvanceCall(c)
    BY <1>3, <1>4, <1>5, <1>6
       DEF AdvanceCall, Advance, DecideHold, Rollback, Generate, ApproveFund,
           ApproveInsertOrder, ApproveCommit, ExitCommit
  <1>7. CASE OpenCall(c)
    <2>1. \A d \in Clients : d # c => tx'[d] = tx[d]
      BY <1>1, <1>7 DEF OpenCall, Call, Decide, ApproveLock, ExitLock
    <2>2. tx'[c].pc # "placed"
      BY <1>1, <1>7 DEF OpenCall, Call, Decide, ApproveLock, ExitLock, IdleTx
    <2>3. tx'[c].pc = "exiting" => ~Swept(tx'[c].instr)
      BY <1>7 DEF OpenCall
    <2> QED
      BY <1>2, <2>1, <2>2, <2>3 DEF PositionFree, HoldsPosition
  <1>8. CASE Abort(c)
    BY <1>3, <1>8 DEF Abort, Rollback
  <1> QED
    BY <1>6, <1>7, <1>8

-----------------------------------------------------------------------------
(* The steps of the jobs up to their commit *)

\* APPROVAL_EXPIRY has read approvals that exist.
LEMMA ExpiryReadSound ==
  ASSUME JobsInv, ExpiryRead
  PROVE  JobsInv'
  <1>1. [Next]_vars /\ UNCHANGED <<vars, sweep, raced>>
    BY DEF ExpiryRead
  <1>2. UNCHANGED <<rows, settings, now, answers, tx>>
    BY <1>1 DEF vars
  <1>3. UNCHANGED <<status, position, bought, sold, tx, sweep, raced>>
    BY <1>1, <1>2 DEF rows
  <1>4. DeskInv'
    BY <1>1, NextDeskInv DEF JobsInv
  <1>5. JobsTypes' /\ ExpirySound'
    BY <1>3 DEF ExpiryRead, JobsInv, JobsTypes, ExpirySound
  <1>6. HeldApart' /\ LoadedSound' /\ EodIdle' /\ HoldingsKeptByLockedJobs'
    BY <1>3 DEF JobsInv, HeldApart, SweptBy, LoadedSound, EodIdle,
                HoldingsKeptByLockedJobs
  <1>7. \A j \in Sweeps : SweepSound(j)'
    BY <1>3 DEF JobsInv, SweepSound, PositionFree, HoldsPosition
  <1> QED
    BY <1>4, <1>5, <1>6, <1>7 DEF JobsInv

\* What it writes over is locked by no call, so no call has it for pending.
LEMMA ExpiryWriteSound ==
  ASSUME JobsInv, ExpiryWrite
  PROVE  JobsInv'
  <1>1. /\ UNCHANGED <<deal, orders, position, sells, bought, sold, cash, settings,
                       now, answers, tx, sweep, raced>>
        /\ \A a \in expiry : ApprovalFree(a)
        /\ status' = [a \in Approvals |-> IF a \in expiry THEN "expired" ELSE status[a]]
        /\ expiry' = {}
    BY DEF ExpiryWrite
  <1>2. TypeInv'
    <2>1. status' \in [Approvals -> Statuses]
      BY <1>1 DEF JobsInv, DeskInv, TypeInv, TypeOK, Statuses
    <2> QED
      BY <1>1, <2>1 DEF JobsInv, DeskInv, TypeInv, TypeOK, TxShape, settings
  <1>3. LocksHold'
    BY <1>1 DEF JobsInv, DeskInv, LocksHold, HoldsPosition
  <1>4. ASSUME NEW c \in Clients PROVE CallSound(c)'
    <2>1. tx[c].pc \in ApprovePhases =>
             tx[c].approval \in Approvals /\ tx[c].approval \notin expiry
      BY <1>1 DEF ApprovalFree, HoldsApproval, JobsInv, DeskInv, TypeInv, TxShape
    <2> QED
      BY <1>1, <2>1 DEF JobsInv, DeskInv, CallSound
  <1>5. RowsSound' /\ AnswersNameTheFill'
    BY <1>1 DEF JobsInv, DeskInv, RowsSound, AnswersNameTheFill
  <1>6. DealsSound' /\ OrdersSound'
    BY <1>1 DEF JobsInv, DeskInv, ExpirySound, DealsSound, OrdersSound, OrdersOfApproval
  <1>7. JobsTypes' /\ ExpirySound'
    BY <1>1 DEF JobsInv, JobsTypes, ExpirySound
  <1>8. HeldApart' /\ LoadedSound' /\ EodIdle' /\ HoldingsKeptByLockedJobs'
    BY <1>1 DEF JobsInv, HeldApart, SweptBy, LoadedSound, EodIdle,
                HoldingsKeptByLockedJobs
  <1>9. \A j \in Sweeps : SweepSound(j)'
    BY <1>1 DEF JobsInv, SweepSound, PositionFree, HoldsPosition
  <1> QED
    BY <1>2, <1>3, <1>4, <1>5, <1>6, <1>7, <1>8, <1>9 DEF JobsInv, DeskInv

\* A step of one job that commits nothing and takes only rows that are free.
LEMMA SessionStep ==
  ASSUME JobsInv, NEW j \in Sweeps, NEW s \in Sweep,
         sweep' = [sweep EXCEPT ![j] = s],
         UNCHANGED <<vars, expiry, raced>>,
         j = "eod" /\ s.open => EodForced,
         ~s.open => s.todo = {} /\ s.held = {},
         s.exits \subseteq s.held,
         \A i \in s.todo \cup s.held :
            position[i].version # 0 /\ s.loaded[i].price >= Spread,
         \A i \in s.held \ sweep[j].held : PositionFree(i) /\ ~Swept(i),
         j = "stop" => \A i \in s.held :
                          /\ s.loaded[i].version = position[i].version
                          /\ s.loaded[i].qty = position[i].qty,
         j = "eod" => \A i \in s.todo \cup s.held :
                          /\ s.loaded[i].version <= position[i].version
                          /\ s.loaded[i].version = position[i].version =>
                                s.loaded[i].qty = position[i].qty
  PROVE  JobsInv'
  <1>1. sweep \in [Sweeps -> Sweep] /\ sweep'[j] = s
    BY DEF JobsInv, JobsTypes
  <1>2. \A k \in Sweeps : k # j => sweep'[k] = sweep[k]
    BY <1>1
  <1>3. UNCHANGED <<rows, settings, now, answers, tx>>
    BY DEF vars
  <1>4. UNCHANGED <<status, position, bought, sold, tx, expiry, raced>>
    BY <1>3 DEF rows
  <1>5. DeskInv'
    BY NextDeskInv DEF JobsInv
  <1>6. JobsTypes' /\ ExpirySound' /\ HoldingsKeptByLockedJobs'
    BY <1>1, <1>4
       DEF JobsInv, JobsTypes, ExpirySound, HoldingsKeptByLockedJobs
  <1>7. ASSUME NEW k \in Sweeps PROVE SweepSound(k)'
    <2>1. \A i \in sweep'[k].held : PositionFree(i)
      BY <1>1, <1>2 DEF JobsInv, SweepSound
    <2>2. \A i \in sweep'[k].held : PositionFree(i)'
      BY <1>4, <2>1 DEF PositionFree, HoldsPosition
    <2> QED
      BY <1>1, <1>2, <1>4, <2>2 DEF JobsInv, SweepSound
  <1>8. HeldApart'
    BY <1>1, <1>2 DEF JobsInv, HeldApart, Swept, SweptBy, Sweeps
  <1>9. LoadedSound'
    BY <1>1, <1>2, <1>4 DEF JobsInv, LoadedSound, Sweeps
  <1>10. EodIdle'
    BY <1>1, <1>2, <1>4 DEF JobsInv, EodIdle, Sweeps
  <1> QED
    BY <1>5, <1>6, <1>7, <1>8, <1>9, <1>10 DEF JobsInv

\* A session that ends without a commit leaves nothing behind.
LEMMA SweepRollbackSound ==
  ASSUME JobsInv, NEW j \in Sweeps, SweepRollback(j)
  PROVE  JobsInv'
  BY IdleSweepType, SessionStep DEF SweepRollback

\* A job begins with the positions that are open, as they are.
LEMMA SweepReadSound ==
  ASSUME JobsInv, NEW j \in Sweeps, SweepRead(j)
  PROVE  JobsInv'
  <1> DEFINE opened == {i \in Instruments : position[i].qty > 0}
             s == [IdleSweep EXCEPT !.open = TRUE, !.todo = opened, !.loaded = position]
  <1>1. /\ s.open /\ s.todo = opened /\ s.held = {} /\ s.exits = {}
        /\ s.loaded = position
    BY DEF IdleSweep
  <1>2. s \in Sweep
    BY DEF IdleSweep, Sweep, JobsInv, DeskInv, TypeInv, TypeOK
  <1>3. \A i \in opened : position[i].version # 0 /\ position[i].price >= Spread
    BY JobsRowTypes DEF JobsInv, DeskInv, RowsSound
  <1>4. \A i \in opened : position[i].version <= position[i].version
    BY JobsRowTypes
  <1>5. sweep' = [sweep EXCEPT ![j] = s] /\ UNCHANGED <<vars, expiry, raced>>
    BY DEF SweepRead
  <1>6. j = "eod" => EodForced
    BY DEF SweepRead
  <1> HIDE DEF s
  <1> QED
    BY <1>1, <1>2, <1>3, <1>4, <1>5, <1>6, SessionStep

\* A session with well-typed fields is well typed.
LEMMA SweepUpdate ==
  ASSUME NEW t \in Sweep, NEW i \in Instruments,
         NEW todo \in SUBSET Instruments, NEW held \in SUBSET Instruments,
         NEW exits \in SUBSET Instruments, NEW proceeds \in Nat,
         NEW row \in PositionRow
  PROVE  [t EXCEPT !.todo = todo, !.held = held, !.exits = exits,
                   !.proceeds = proceeds, !.loaded[i] = row] \in Sweep
  <1>1. [t.loaded EXCEPT ![i] = row] \in [Instruments -> PositionRow]
    BY DEF Sweep
  <1>2. [t EXCEPT !.todo = todo] \in Sweep
    BY DEF Sweep
  <1>3. [t EXCEPT !.todo = todo, !.held = held] \in Sweep
    BY <1>2 DEF Sweep
  <1>4. [t EXCEPT !.todo = todo, !.held = held, !.exits = exits] \in Sweep
    BY <1>3 DEF Sweep
  <1>5. [t EXCEPT !.todo = todo, !.held = held, !.exits = exits,
                  !.proceeds = proceeds] \in Sweep
    BY <1>4 DEF Sweep
  <1> QED
    BY <1>5 DEF Sweep

\* A row that a job visits, and the exit that it makes of it.
LEMMA SweepTakeSound ==
  ASSUME JobsInv, NEW j \in Sweeps, NEW i \in Instruments, NEW hit \in BOOLEAN,
         NEW p \in Prices, SweepTake(j, i, hit, p)
  PROVE  JobsInv'
  <1> DEFINE row == RowOnLock(j, i)
             exit == hit /\ row.qty > 0
             made == IF exit THEN {i} ELSE {}
             gain == IF exit THEN Credit(row.qty, p) ELSE 0
             r == IF exit THEN [row EXCEPT !.price = p] ELSE row
             t == sweep[j]
             s == [t EXCEPT !.todo = @ \ {i}, !.held = @ \cup {i},
                            !.exits = @ \cup made, !.proceeds = @ + gain,
                            !.loaded[i] = r]
  <1>1. /\ i \in t.todo /\ PositionFree(i) /\ ~Swept(i)
        /\ sweep' = [sweep EXCEPT ![j] = s]
        /\ UNCHANGED <<vars, expiry, raced>>
    BY DEF SweepTake
  <1>2. t \in Sweep /\ SweepSound(j) /\ sweep \in [Sweeps -> Sweep]
    BY DEF JobsInv, JobsTypes
  <1>3. /\ row \in PositionRow /\ row.qty \in Nat /\ row.version \in Nat /\ row.price \in Nat
        /\ row.price >= Spread /\ p \in Nat /\ p >= Spread
    <2>1. t.loaded[i].price >= Spread
      BY <1>1, <1>2 DEF SweepSound
    <2>2. position[i].price >= Spread
      BY <1>1, <1>2 DEF SweepSound, JobsInv, DeskInv, RowsSound
    <2>3. position[i] \in PositionRow /\ t.loaded[i] \in PositionRow
      BY JobsRowTypes DEF JobsInv, DeskInv, TypeInv, TypeOK
    <2> QED
      BY <2>1, <2>2, <2>3, DeskAssumption DEF RowOnLock, PositionRow
  <1>4. gain \in Nat
    <2>1. \A m, n \in Nat : m * n \in Nat
      OBVIOUS
    <2>2. p - Spread \in Nat
      BY <1>3, DeskAssumption
    <2>3. Credit(row.qty, p) \in Nat
      BY <1>3, <2>1, <2>2 DEF Credit
    <2> QED
      BY <2>3
  <1>5. made \subseteq {i}
    OBVIOUS
  <1>6. /\ r \in PositionRow /\ r.qty = row.qty /\ r.version = row.version
        /\ r.price >= Spread
    BY <1>3 DEF PositionRow
  <1> HIDE DEF made, gain, r, exit, row
  <1>7. /\ s.open = t.open /\ s.todo = t.todo \ {i} /\ s.held = t.held \cup {i}
        /\ s.exits = t.exits \cup made /\ s.proceeds = t.proceeds + gain
        /\ s.loaded = [t.loaded EXCEPT ![i] = r]
    <2>1. DOMAIN t = {"open", "todo", "held", "exits", "proceeds", "loaded"}
      BY <1>2 DEF Sweep
    <2> HIDE DEF t
    <2>2. s.loaded = [t.loaded EXCEPT ![i] = r]
      BY <2>1
    <2>3. s.open = t.open /\ s.todo = t.todo \ {i} /\ s.held = t.held \cup {i}
      BY <2>1
    <2>4. s.exits = t.exits \cup made /\ s.proceeds = t.proceeds + gain
      BY <2>1
    <2> QED
      BY <2>2, <2>3, <2>4
  <1>8. s \in Sweep
    <2>1. /\ t.todo \ {i} \in SUBSET Instruments
          /\ t.held \cup {i} \in SUBSET Instruments
          /\ t.exits \cup made \in SUBSET Instruments
          /\ t.proceeds + gain \in Nat
      BY <1>2, <1>4, <1>5 DEF Sweep
    <2> QED
      BY <1>2, <1>6, <2>1, SweepUpdate, Zenon
  <1>9. s.loaded[i] = r /\ \A k \in Instruments : k # i => s.loaded[k] = t.loaded[k]
    BY <1>2, <1>7 DEF Sweep
  <1>10. t.open /\ (j = "eod" => EodForced)
    BY <1>1, <1>2 DEF SweepSound, JobsInv, EodIdle
  <1>11. \A k \in s.todo \cup s.held :
            position[k].version # 0 /\ s.loaded[k].price >= Spread
    <2>1. ASSUME NEW k \in s.todo \cup s.held
          PROVE  k \in Instruments /\ k \in t.todo \cup t.held
      BY <1>1, <1>2, <1>7 DEF Sweep
    <2> QED
      BY <1>2, <1>6, <1>9, <2>1 DEF SweepSound
  <1>12. s.exits \subseteq s.held
    BY <1>2, <1>5, <1>7 DEF SweepSound
  <1>13. ASSUME j = "stop", NEW k \in s.held
         PROVE  /\ s.loaded[k].version = position[k].version
                /\ s.loaded[k].qty = position[k].qty
    <2>1. CASE k = i
      BY <1>6, <1>9, <1>13, <2>1 DEF RowOnLock, row
    <2>2. CASE k # i
      BY <1>2, <1>7, <1>9, <1>13, <2>2 DEF JobsInv, LoadedSound, Sweep
    <2> QED
      BY <2>1, <2>2
  <1>14. ASSUME j = "eod", NEW k \in s.todo \cup s.held
         PROVE  /\ s.loaded[k].version <= position[k].version
                /\ s.loaded[k].version = position[k].version =>
                      s.loaded[k].qty = position[k].qty
    <2>1. k \in t.todo \cup t.held
      BY <1>1, <1>7
    <2>2. /\ t.loaded[k].version <= position[k].version
          /\ t.loaded[k].version = position[k].version =>
                t.loaded[k].qty = position[k].qty
      BY <1>14, <2>1 DEF JobsInv, LoadedSound
    <2>3. CASE k = i
      BY <1>6, <1>9, <1>14, <2>2, <2>3 DEF RowOnLock, row
    <2>4. CASE k # i
      BY <1>2, <1>9, <2>1, <2>2, <2>4 DEF Sweep
    <2> QED
      BY <2>3, <2>4
  <1>15. \A k \in s.held \ t.held : PositionFree(k) /\ ~Swept(k)
    BY <1>1, <1>7
  <1> HIDE DEF s
  <1> QED
    BY <1>1, <1>7, <1>8, <1>10, <1>11, <1>12, <1>13, <1>14, <1>15, SessionStep

\* The EOD job passes over a position.
LEMMA SweepSkipSound ==
  ASSUME JobsInv, NEW i \in Instruments, SweepSkip(i)
  PROVE  JobsInv'
  <1> DEFINE t == sweep["eod"]
             s == [t EXCEPT !.todo = @ \ {i}]
  <1>1. /\ i \in t.todo
        /\ sweep' = [sweep EXCEPT !["eod"] = s]
        /\ UNCHANGED <<vars, expiry, raced>>
    BY DEF SweepSkip, JobsInv, JobsTypes
  <1>2. t \in Sweep /\ SweepSound("eod") /\ "eod" \in Sweeps
    BY DEF JobsInv, JobsTypes, Sweeps
  <1>3. /\ s \in Sweep /\ s.open = t.open /\ s.todo = t.todo \ {i} /\ s.held = t.held
        /\ s.exits = t.exits /\ s.loaded = t.loaded
    BY <1>2 DEF Sweep
  <1>4. t.open /\ EodForced
    BY <1>1, <1>2 DEF SweepSound, JobsInv, EodIdle
  <1>5. \A k \in s.todo \cup s.held :
            /\ position[k].version # 0 /\ s.loaded[k].price >= Spread
            /\ s.loaded[k].version <= position[k].version
            /\ s.loaded[k].version = position[k].version =>
                  s.loaded[k].qty = position[k].qty
    BY <1>2, <1>3 DEF SweepSound, JobsInv, LoadedSound
  <1>6. s.exits \subseteq s.held /\ s.held \ t.held = {}
    BY <1>2, <1>3 DEF SweepSound
  <1> HIDE DEF s
  <1> QED
    BY <1>1, <1>2, <1>3, <1>4, <1>5, <1>6, SessionStep

\* It stops at a position that was sold meanwhile, and has set its price.
LEMMA SweepFailSound ==
  ASSUME JobsInv, NEW i \in Instruments, NEW p \in Prices, SweepFail(i, p)
  PROVE  JobsInv'
  <1> DEFINE t == sweep["eod"]
             s == [t EXCEPT !.todo = {}, !.held = @ \cup {i}, !.loaded[i].price = p]
  <1>1. /\ i \in t.todo /\ PositionFree(i) /\ ~Swept(i)
        /\ sweep' = [sweep EXCEPT !["eod"] = s]
        /\ UNCHANGED <<vars, expiry, raced>>
    BY DEF SweepFail, JobsInv, JobsTypes
  <1>2. t \in Sweep /\ SweepSound("eod") /\ "eod" \in Sweeps
    BY DEF JobsInv, JobsTypes, Sweeps
  <1>3. p \in Nat /\ p >= Spread /\ t.loaded[i] \in PositionRow
    BY <1>2, DeskAssumption, JobsRowTypes
  <1>4. /\ s.open = t.open /\ s.todo = {} /\ s.held = t.held \cup {i}
        /\ s.exits = t.exits
        /\ s.loaded = [t.loaded EXCEPT ![i] = [t.loaded[i] EXCEPT !.price = p]]
    BY <1>2 DEF Sweep
  <1>5. /\ s.loaded[i] \in PositionRow
        /\ s.loaded[i].price = p /\ s.loaded[i].qty = t.loaded[i].qty
        /\ s.loaded[i].version = t.loaded[i].version
        /\ \A k \in Instruments : k # i => s.loaded[k] = t.loaded[k]
    BY <1>2, <1>3, <1>4 DEF Sweep, PositionRow
  <1>6. s \in Sweep
    BY <1>2, <1>3, <1>4, <1>5 DEF Sweep
  <1>7. t.open /\ EodForced
    BY <1>1, <1>2 DEF SweepSound, JobsInv, EodIdle
  <1>8. ASSUME NEW k \in s.todo \cup s.held
        PROVE  /\ position[k].version # 0 /\ s.loaded[k].price >= Spread
               /\ s.loaded[k].version <= position[k].version
               /\ s.loaded[k].version = position[k].version =>
                     s.loaded[k].qty = position[k].qty
    <2>1. k \in t.todo \cup t.held /\ k \in Instruments
      BY <1>1, <1>2, <1>4 DEF Sweep
    <2>2. /\ position[k].version # 0 /\ t.loaded[k].price >= Spread
          /\ t.loaded[k].version <= position[k].version
          /\ t.loaded[k].version = position[k].version =>
                t.loaded[k].qty = position[k].qty
      BY <1>2, <2>1 DEF SweepSound, JobsInv, LoadedSound
    <2> QED
      BY <1>3, <1>5, <2>1, <2>2
  <1>9. s.exits \subseteq s.held /\ \A k \in s.held \ t.held : PositionFree(k) /\ ~Swept(k)
    BY <1>1, <1>2, <1>4 DEF SweepSound
  <1> HIDE DEF s
  <1> QED
    BY <1>1, <1>2, <1>4, <1>6, <1>7, <1>8, <1>9, SessionStep

-----------------------------------------------------------------------------
(* The commit of a job that exits positions *)

\* What it does to the rows.
LEMMA SweepEffect ==
  ASSUME JobsInv, NEW j \in Sweeps, SweepCommit(j), NEW i \in Instruments
  PROVE  LET s == sweep[j] IN
         /\ i \in s.exits =>
               /\ position'[i].qty = 0
               /\ position'[i].version = s.loaded[i].version + 1
               /\ position'[i].price = s.loaded[i].price
               /\ sold'[i] = sold[i] + s.loaded[i].qty
         /\ i \in s.held \ s.exits =>
               /\ position'[i].qty = position[i].qty
               /\ position'[i].version = position[i].version
               /\ position'[i].price = s.loaded[i].price
         /\ i \notin s.held => position'[i] = position[i]
         /\ i \notin s.exits => sold'[i] = sold[i]
         /\ position'[i] \in PositionRow
         /\ sold'[i] \in Nat
  <1> DEFINE s == sweep[j]
  <1>1. s.exits \subseteq s.held
    BY DEF JobsInv, SweepSound
  <1>2. /\ position[i] \in PositionRow /\ s.loaded[i] \in PositionRow
        /\ s.loaded[i].version + 1 \in Nat /\ sold[i] \in Nat
        /\ sold[i] + s.loaded[i].qty \in Nat
    BY JobsRowTypes DEF JobsInv, DeskInv, TypeInv, TypeOK
  <1>3. /\ position'[i] =
              IF i \in s.exits
              THEN [s.loaded[i] EXCEPT !.qty = 0, !.version = s.loaded[i].version + 1]
              ELSE IF i \in s.held THEN [position[i] EXCEPT !.price = s.loaded[i].price]
                                   ELSE position[i]
        /\ sold'[i] = IF i \in s.exits THEN sold[i] + s.loaded[i].qty ELSE sold[i]
    BY DEF SweepCommit
  <1>4. CASE i \in s.exits
    <2> DEFINE r == [s.loaded[i] EXCEPT !.qty = 0, !.version = s.loaded[i].version + 1]
    <2>1. /\ r \in PositionRow /\ r.qty = 0 /\ r.version = s.loaded[i].version + 1
          /\ r.price = s.loaded[i].price
      BY <1>2 DEF PositionRow
    <2>2. position'[i] = r
      BY <1>3, <1>4
    <2> QED
      BY <1>1, <1>2, <1>3, <1>4, <2>1, <2>2
  <1>5. CASE i \in s.held \ s.exits
    <2> DEFINE r == [position[i] EXCEPT !.price = s.loaded[i].price]
    <2>1. /\ r \in PositionRow /\ r.qty = position[i].qty
          /\ r.version = position[i].version /\ r.price = s.loaded[i].price
      BY <1>2 DEF PositionRow
    <2>2. position'[i] = r
      BY <1>3, <1>5
    <2> QED
      BY <1>2, <1>3, <1>5, <2>1, <2>2
  <1>6. CASE i \notin s.held
    BY <1>1, <1>2, <1>3, <1>6
  <1> QED
    BY <1>4, <1>5, <1>6

\* It leaves alone what the calls hold, so the desk's invariant stays.
LEMMA SweepCommitDesk ==
  ASSUME JobsInv, NEW j \in Sweeps, SweepCommit(j)
  PROVE  DeskInv'
  <1> DEFINE s == sweep[j]
  <1>1. /\ UNCHANGED <<status, deal, orders, bought, settings, now, answers, tx>>
        /\ sells' = sells \cup {[instr |-> i, version |-> s.loaded[i].version,
                                 qty |-> s.loaded[i].qty] : i \in s.exits}
        /\ cash' = cash + s.proceeds
        /\ DOMAIN position' = Instruments /\ DOMAIN sold' = Instruments
        /\ position' = [i \in Instruments |-> position'[i]]
        /\ sold' = [i \in Instruments |-> sold'[i]]
    BY DEF SweepCommit
  <1>2. s \in Sweep /\ SweepSound(j)
    BY DEF JobsInv, JobsTypes
  <1>3. TypeOK'
    <2>1. position' \in [Instruments -> PositionRow] /\ sold' \in [Instruments -> Nat]
      BY <1>1, SweepEffect
    <2>2. sells' \subseteq SellKey
      <3>1. \A i \in s.exits : i \in Instruments
        BY <1>2 DEF Sweep
      <3>2. \A i \in s.exits : [instr |-> i, version |-> s.loaded[i].version,
                                qty |-> s.loaded[i].qty] \in SellKey
        BY <3>1, JobsRowTypes DEF SellKey
      <3> QED
        BY <1>1, <3>2 DEF JobsInv, DeskInv, TypeInv, TypeOK
    <2>3. cash' \in Int
      BY <1>1, <1>2 DEF Sweep, JobsInv, DeskInv, TypeInv, TypeOK
    <2> QED
      BY <1>1, <2>1, <2>2, <2>3 DEF JobsInv, DeskInv, TypeInv, TypeOK, settings
  <1>4. TxShape' /\ LocksHold'
    BY <1>1 DEF JobsInv, DeskInv, TypeInv, TxShape, LocksHold, HoldsPosition
  <1>5. ASSUME NEW c \in Clients PROVE CallSound(c)'
    <2>1. CallSound(c)
      BY DEF JobsInv, DeskInv
    <2>2. tx[c].pc \in {"placed", "exiting"} => tx[c].instr \in Instruments
      BY DeskAssumption DEF JobsInv, DeskInv, TypeInv, TxShape, ApprovePhases
    <2>3. ASSUME (tx[c].pc = "placed" /\ tx[c].seen.version # 0) \/ tx[c].pc = "exiting"
          PROVE  position'[tx[c].instr] = position[tx[c].instr]
      <3>1. tx[c].instr \notin s.held
        BY <1>2, <2>2, <2>3 DEF SweepSound, PositionFree, HoldsPosition
      <3> QED
        BY <2>2, <2>3, <3>1, SweepEffect
    <2> QED
      BY <1>1, <2>1, <2>3 DEF CallSound
  <1>6. RowsSound'
    <2>1. \A i \in Instruments : position[i].version \in Nat /\ s.loaded[i].version \in Nat
      BY JobsRowTypes
    <2>2. \A i \in s.held : position[i].version # 0 /\ s.loaded[i].price >= Spread
      BY <1>2 DEF SweepSound
    <2> QED
      BY <1>2, <2>1, <2>2, SweepEffect DEF JobsInv, DeskInv, RowsSound, SweepSound
  <1>7. DealsSound' /\ OrdersSound' /\ AnswersNameTheFill'
    BY <1>1 DEF JobsInv, DeskInv, DealsSound, OrdersSound, AnswersNameTheFill,
                OrdersOfApproval
  <1> QED
    BY <1>3, <1>4, <1>5, <1>6, <1>7 DEF DeskInv, TypeInv

\* The quantity that it sells is the one the position has, unless the row has
\* changed since it was loaded.
LEMMA SweepCommitHoldings ==
  ASSUME JobsInv, NEW j \in Sweeps, SweepCommit(j)
  PROVE  HoldingsKeptByLockedJobs'
  <1> DEFINE s == sweep[j]
  <1> SUFFICES ASSUME NEW i \in Instruments \ raced'
               PROVE  position'[i].qty = bought'[i] - sold'[i]
    BY DEF HoldingsKeptByLockedJobs
  <1>1. /\ i \notin raced /\ bought' = bought
        /\ i \in s.exits /\ j = "eod" => s.loaded[i].version = position[i].version
    BY DEF SweepCommit
  <1>2. s.exits \subseteq s.held
    BY DEF JobsInv, SweepSound
  <1>3. /\ position[i].qty = bought[i] - sold[i]
        /\ position[i].qty \in Nat /\ bought[i] \in Nat /\ sold[i] \in Nat
    BY <1>1, JobsRowTypes DEF JobsInv, HoldingsKeptByLockedJobs
  <1>4. i \in s.exits => s.loaded[i].qty = position[i].qty
    BY <1>1, <1>2 DEF JobsInv, LoadedSound, Sweeps
  <1>5. CASE i \in s.exits
    <2>1. position'[i].qty = 0 /\ sold'[i] = sold[i] + position[i].qty
      BY <1>4, <1>5, SweepEffect
    <2> QED
      BY <1>1, <1>3, <2>1
  <1>6. CASE i \notin s.exits
    BY <1>1, <1>3, <1>6, SweepEffect
  <1> QED
    BY <1>5, <1>6

\* The commit keeps the invariant.
LEMMA SweepCommitSound ==
  ASSUME JobsInv, NEW j \in Sweeps, SweepCommit(j)
  PROVE  JobsInv'
  <1> DEFINE s == sweep[j]
  <1>1. /\ UNCHANGED <<status, tx, expiry>>
        /\ sweep' = [sweep EXCEPT ![j] = IdleSweep]
        /\ raced' = raced \cup {i \in s.exits :
                                  j = "eod" /\ s.loaded[i].version # position[i].version}
        /\ s.open
    BY DEF SweepCommit
  <1>2. sweep \in [Sweeps -> Sweep] /\ s \in Sweep /\ SweepSound(j)
    BY DEF JobsInv, JobsTypes
  <1>3. /\ sweep'[j] = IdleSweep
        /\ \A k \in Sweeps : k # j => sweep'[k] = sweep[k]
    BY <1>1, <1>2
  <1>4. JobsTypes' /\ ExpirySound'
    BY <1>1, <1>2, IdleSweepType DEF JobsInv, JobsTypes, ExpirySound, Sweep
  <1>5. ASSUME NEW k \in Sweeps PROVE SweepSound(k)'
    <2>1. CASE k = j
      BY <1>3, <2>1, IdleSweepType DEF SweepSound
    <2>2. CASE k # j
      <3>1. SweepSound(k) /\ sweep'[k] = sweep[k] /\ sweep[k] \in Sweep
        BY <1>2, <1>3, <2>2 DEF JobsInv
      <3>2. ASSUME NEW i \in sweep[k].todo \cup sweep[k].held
            PROVE  position'[i].version # 0
        <4>1. i \in Instruments /\ position[i].version # 0
          BY <3>1 DEF Sweep, SweepSound
        <4>2. s.loaded[i].version \in Nat
          BY <4>1, JobsRowTypes
        <4> QED
          BY <4>1, <4>2, SweepEffect
      <3> QED
        BY <1>1, <3>1, <3>2 DEF SweepSound, PositionFree, HoldsPosition
    <2> QED
      BY <2>1, <2>2
  <1>6. HeldApart'
    BY <1>3, IdleSweepType DEF JobsInv, HeldApart, SweptBy, Sweeps
  <1>7. LoadedSound'
    <2>1. CASE j = "eod"
      <3>1. sweep'["stop"] = sweep["stop"] /\ sweep["stop"] \in Sweep
        BY <1>2, <1>3, <2>1 DEF Sweeps
      <3>2. ASSUME NEW i \in sweep["stop"].held
            PROVE  position'[i] = position[i]
        <4>1. i \in Instruments /\ i \notin s.held
          BY <2>1, <3>1 DEF Sweep, JobsInv, HeldApart, SweptBy
        <4> QED
          BY <4>1, SweepEffect
      <3> QED
        BY <1>3, <2>1, <3>1, <3>2, IdleSweepType DEF JobsInv, LoadedSound
    <2>2. CASE j = "stop"
      <3> DEFINE e == sweep["eod"]
      <3>1. sweep'["eod"] = e /\ e \in Sweep
        BY <1>2, <1>3, <2>2 DEF Sweeps
      <3>2. ASSUME NEW i \in e.todo \cup e.held
            PROVE  /\ e.loaded[i].version <= position'[i].version
                   /\ e.loaded[i].version = position'[i].version =>
                         e.loaded[i].qty = position'[i].qty
        <4>1. i \in Instruments
          BY <3>1 DEF Sweep
        <4>2. /\ e.loaded[i].version \in Nat /\ position[i].version \in Nat
              /\ e.loaded[i].version <= position[i].version
              /\ e.loaded[i].version = position[i].version =>
                    e.loaded[i].qty = position[i].qty
          BY <4>1, JobsRowTypes DEF JobsInv, LoadedSound, Sweeps
        <4>3. i \in s.exits => s.loaded[i].version = position[i].version
          BY <1>2, <2>2 DEF JobsInv, LoadedSound, SweepSound
        <4>4. \/ position'[i].version = position[i].version + 1
              \/ /\ position'[i].version = position[i].version
                 /\ position'[i].qty = position[i].qty
          BY <4>1, <4>3, SweepEffect
        <4> QED
          BY <4>2, <4>4
      <3> QED
        BY <1>3, <2>2, <3>1, <3>2, IdleSweepType DEF LoadedSound
    <2> QED
      BY <2>1, <2>2 DEF Sweeps
  <1>8. EodIdle'
    <2>1. CASE j = "eod"
      BY <1>1, <2>1 DEF JobsInv, EodIdle
    <2>2. CASE j = "stop"
      BY <1>1, <1>3, <2>2 DEF JobsInv, EodIdle, Sweeps
    <2> QED
      BY <2>1, <2>2 DEF Sweeps
  <1> QED
    BY <1>4, <1>5, <1>6, <1>7, <1>8, SweepCommitDesk, SweepCommitHoldings DEF JobsInv

-----------------------------------------------------------------------------
(* All steps *)

\* A step of JobsNext is one of the desk or of one job.
LEMMA JobsSteps ==
  ASSUME JobsNext
  PROVE  \/ Desk /\ UNCHANGED jobVars
         \/ \E c \in Clients : (AdvanceCall(c) \/ OpenCall(c) \/ Abort(c)) /\ UNCHANGED jobVars
         \/ ExpiryRead
         \/ ExpiryWrite
         \/ \E j \in Sweeps : SweepRead(j) \/ SweepRollback(j) \/ SweepCommit(j)
         \/ \E j \in Sweeps, i \in Instruments, hit \in BOOLEAN, p \in Prices :
               SweepTake(j, i, hit, p)
         \/ \E i \in Instruments, p \in Prices : SweepFail(i, p)
         \/ \E i \in Instruments : SweepSkip(i)
  BY DEF JobsNext, AdvanceCall, OpenCall, SweepStep, SweepCrash, SweepDeadlock

\* The calls and the settings take no row of a job.
LEMMA DeskStepFree ==
  ASSUME JobsInv, UNCHANGED jobVars,
         Desk \/ \E c \in Clients : AdvanceCall(c) \/ OpenCall(c) \/ Abort(c)
  PROVE  /\ [Next]_vars
         /\ \A i \in Instruments : Swept(i) => PositionFree(i)'
  <1>1. CASE Desk
    <2>1. UNCHANGED tx
      BY <1>1 DEF Desk, ApproveReplay, Reject, SetKillSwitch, SetAveraging, Tick
    <2>2. \A i \in Instruments : Swept(i) => PositionFree(i)
      BY DEF Swept, SweptBy, JobsInv, SweepSound
    <2> QED
      BY <1>1, <2>1, <2>2 DEF Next, PositionFree, HoldsPosition
  <1>2. ASSUME NEW c \in Clients, AdvanceCall(c) \/ OpenCall(c) \/ Abort(c)
        PROVE  /\ [Next]_vars
               /\ \A i \in Instruments : Swept(i) => PositionFree(i)'
    BY <1>2, CallKeepsFree DEF Next, AdvanceCall, OpenCall
  <1> QED
    BY <1>1, <1>2

\* The invariant is inductive.
LEMMA NextJobsInv == JobsInv /\ [JobsNext]_allVars => JobsInv'
  <1> SUFFICES ASSUME JobsInv, [JobsNext]_allVars PROVE JobsInv'
    OBVIOUS
  <1>1. CASE /\ Desk \/ \E c \in Clients : AdvanceCall(c) \/ OpenCall(c) \/ Abort(c)
             /\ UNCHANGED jobVars
    BY <1>1, DeskStepFree, DeskStepSound
  <1>2. CASE UNCHANGED allVars
    <2>1. UNCHANGED vars /\ UNCHANGED jobVars
      BY <1>2 DEF allVars
    <2>2. \A i \in Instruments : Swept(i) => PositionFree(i)'
      BY <2>1 DEF vars, Swept, SweptBy, JobsInv, SweepSound, PositionFree, HoldsPosition
    <2> QED
      BY <2>1, <2>2, DeskStepSound
  <1> QED
    BY <1>1, <1>2, JobsSteps, ExpiryReadSound, ExpiryWriteSound, SweepReadSound,
       SweepRollbackSound, SweepCommitSound, SweepTakeSound, SweepFailSound,
       SweepSkipSound

\* JobsInv holds in every reachable state of the desk and its jobs.
THEOREM JobsInvariance == JobsSpec => []JobsInv
  BY InitJobsInv, NextJobsInv, PTL DEF JobsSpec

-----------------------------------------------------------------------------
(* Safety *)

\* The rows, the calls and the sessions of the jobs keep their types: no job
\* leaves a position with fewer shares than none.
THEOREM JobsTypeCorrect == JobsSpec => []JobsTypeOK
  <1>1. JobsInv => JobsTypeOK
    BY DEF JobsInv, DeskInv, TypeInv, JobsTypes, JobsTypeOK
  <1> QED
    BY <1>1, JobsInvariance, PTL

\* A position is off what was bought and sold only if the EOD job wrote over a
\* change that it had not seen.
THEOREM HoldingsKeptByLockedJobsHolds == JobsSpec => []HoldingsKeptByLockedJobs
  BY JobsInvariance, PTL DEF JobsInv

\* The stop job alone, however it meets fills, exits and its own crashes, never
\* breaks the holdings: it locks each row and loads it then.
THEOREM StopJobKeepsHoldings ==
  ASSUME ~EodForced
  PROVE  JobsSpec => []HoldingsConserved
  <1>1. JobsInv => HoldingsConserved
    BY DEF JobsInv, EodIdle, HoldingsKeptByLockedJobs, HoldingsConserved
  <1> QED
    BY <1>1, JobsInvariance, PTL

\* APPROVAL_EXPIRY never shows a filled approval as rejected or as pending, and
\* next to the jobs an approval is still filled at most once.
THEOREM FilledNeverReopenedHolds == JobsSpec => []FilledNeverReopened
  <1>1. JobsInv => FilledNeverReopened
    BY DEF JobsInv, DeskInv, OrdersSound, FilledNeverReopened
  <1> QED
    BY <1>1, JobsInvariance, PTL

\* Next to the jobs, too, every success that a client is told of names the one
\* order of its approval.
THEOREM AnswersNextToJobs == JobsSpec => []AnswersNameTheFill
  BY JobsInvariance, PTL DEF JobsInv, DeskInv

-----------------------------------------------------------------------------
(* What a step may never do *)

\* Only two kinds of steps of the jobs write rows.
LEMMA JobWrites ==
  ASSUME JobsInv, [JobsNext]_allVars
  PROVE  [Next]_vars \/ ExpiryWrite \/ \E j \in Sweeps : SweepCommit(j)
  <1>1. CASE UNCHANGED vars
    BY <1>1
  <1>2. CASE /\ Desk \/ \E c \in Clients : AdvanceCall(c) \/ OpenCall(c) \/ Abort(c)
             /\ UNCHANGED jobVars
    BY <1>2, DeskStepFree
  <1>3. ASSUME NEW j \in Sweeps, SweepRead(j) \/ SweepRollback(j) PROVE UNCHANGED vars
    BY <1>3 DEF SweepRead, SweepRollback
  <1>4. ASSUME NEW j \in Sweeps, NEW i \in Instruments, NEW hit \in BOOLEAN,
               NEW p \in Prices, SweepTake(j, i, hit, p)
        PROVE  UNCHANGED vars
    BY <1>4 DEF SweepTake
  <1>5. ASSUME NEW i \in Instruments, NEW p \in Prices, SweepFail(i, p)
        PROVE  UNCHANGED vars
    BY <1>5 DEF SweepFail
  <1>6. (ExpiryRead => UNCHANGED vars) /\ (UNCHANGED allVars => UNCHANGED vars)
    BY DEF ExpiryRead, allVars
  <1>7. ASSUME NEW i \in Instruments, SweepSkip(i) PROVE UNCHANGED vars
    BY <1>7 DEF SweepSkip
  <1> QED
    BY <1>1, <1>2, <1>3, <1>4, <1>5, <1>6, <1>7, JobsSteps

\* Next to the jobs, too, a fill adds to a position only what its transaction
\* saw to be added to: a job exits no row that a fill has locked, and a fill
\* that saw no row finds its INSERT refused.
THEOREM FillsNextToJobs == JobsSpec => FillsMeetThePositionTheySaw
  <1>1. ASSUME JobsInv, [JobsNext]_allVars, NEW i \in Instruments,
               bought'[i] > bought[i]
        PROVE  \E c \in Clients : /\ tx[c].pc = "placed" /\ tx'[c].pc = "idle"
                                  /\ tx[c].instr = i
                                  /\ tx[c].seen.qty = position[i].qty
    <2>1. bought[i] \in Nat
      BY <1>1, JobsRowTypes
    <2>2. ExpiryWrite \/ (\E j \in Sweeps : SweepCommit(j)) => bought' = bought
      BY DEF ExpiryWrite, SweepCommit
    <2>3. [Next]_vars
      BY <1>1, <2>1, <2>2, JobWrites
    <2> QED
      BY <1>1, <2>3, BuySteps DEF JobsInv
  <1>2. JobsInv /\ [JobsNext]_allVars =>
          [\A i \in Instruments :
             bought'[i] > bought[i] /\ position[i].qty > 0 =>
                \E c \in Clients : /\ tx[c].pc = "placed" /\ tx'[c].pc = "idle"
                                   /\ tx[c].instr = i
                                   /\ tx[c].seen.qty = position[i].qty]_vars
    BY <1>1
  <1> QED
    BY <1>2, JobsInvariance, PTL DEF JobsSpec, FillsMeetThePositionTheySaw

-----------------------------------------------------------------------------
(* The cash check next to the jobs *)

\* The jobs spend nothing and touch no open call.
LEMMA NextOverdraftJobs ==
  ASSUME JobsInv, OverdraftInv, [JobsNext]_allVars
  PROVE  OverdraftInv'
  <1>1. DeskInv /\ cash \in Int /\ status \in [Approvals -> Statuses]
    BY DEF JobsInv, DeskInv, TypeInv, TypeOK
  <1>2. ASSUME NEW j \in Sweeps, SweepCommit(j) PROVE OverdraftInv'
    <2>1. sweep[j].proceeds \in Nat
      BY DEF JobsInv, JobsTypes, Sweep
    <2>2. UNCHANGED <<deal, tx, status>> /\ cash' = cash + sweep[j].proceeds
      BY <1>2 DEF SweepCommit
    <2> QED
      BY <1>1, <2>1, <2>2, OverdraftQuiet
  <1>3. CASE [Next]_vars
    BY <1>1, <1>3, NextOverdraft
  <1>4. CASE ExpiryWrite
    <2>1. UNCHANGED <<deal, tx, cash>>
      BY <1>4 DEF ExpiryWrite
    <2>2. \A a \in Approvals : status[a] # "none" => status'[a] # "none"
      BY <1>1, <1>4 DEF ExpiryWrite
    <2> QED
      BY <1>1, <2>1, <2>2, OverdraftQuiet
  <1> QED
    BY <1>2, <1>3, <1>4, JobWrites

\* The bound of the overdraft holds next to the jobs, too: what they sell while
\* calls are open only adds to the cash.
THEOREM OverdraftNextToJobs == JobsSpec => []OverdraftBounded
  <1>1. JobsInit => OverdraftInv
    BY InitOverdraft DEF JobsInit
  <1>2. JobsInv /\ OverdraftInv /\ [JobsNext]_allVars => OverdraftInv'
    BY NextOverdraftJobs
  <1>3. JobsInv /\ OverdraftInv => OverdraftBounded
    BY OverdraftBoundedByInv DEF JobsInv
  <1> QED
    BY <1>1, <1>2, <1>3, JobsInvariance, PTL DEF JobsSpec

=============================================================================
