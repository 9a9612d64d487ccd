------------------------- MODULE PaperTradingProofs -------------------------
(***************************************************************************)
(* Proofs about PaperTrading, for any number of clients, approvals, keys   *)
(* and instruments and for every interleaving of their transactions: the   *)
(* types, then DeskInv, which the steps of the desk keep also next to the  *)
(* jobs of TradingJobs, then IInv, which adds what holds of the desk alone,*)
(* and the properties that follow.                                         *)
(***************************************************************************)
EXTENDS PaperTrading, FiniteSetTheorems, TLAPS

-----------------------------------------------------------------------------
(* Types *)

\* Which fields of a transaction are filled in which phase.
TxShape ==
    \A c \in Clients :
        /\ tx[c].pc \in ApprovePhases =>
              /\ tx[c].approval \in Approvals
              /\ tx[c].key \in Keys
              /\ tx[c].instr = InstrumentOf[tx[c].approval]
        /\ tx[c].pc = "deciding" => tx[c].instr \in Instruments
        /\ tx[c].pc = "exiting" =>
              /\ tx[c].instr \in Instruments
              /\ tx[c].qty <= tx[c].seen.qty

TypeInv == TypeOK /\ TxShape

\* An idle transaction, and one that moves on, are well typed.
LEMMA IdleTxType == IdleTx \in Transaction /\ IdleTx.pc = "idle"
  BY DEF IdleTx, Transaction, Phases, NoPosition, PositionRow

\* The initial state is well typed.
LEMMA InitTypeInv == Init => TypeInv
  <1> SUFFICES ASSUME Init PROVE TypeInv
    OBVIOUS
  <1>1. tx \in [Clients -> Transaction] /\ TxShape
    BY IdleTxType DEF Init, TxShape, ApprovePhases
  <1>2. NoPosition \in PositionRow /\ [qty |-> 0, price |-> 0, expires |-> 0] \in Deal
    BY DEF NoPosition, PositionRow, Deal
  <1>3. /\ status \in [Approvals -> Statuses]
        /\ deal \in [Approvals -> Deal]
        /\ position \in [Instruments -> PositionRow]
    BY <1>2 DEF Init, Statuses
  <1>4. /\ bought \in [Instruments -> Nat]
        /\ sold \in [Instruments -> Nat]
        /\ cash \in Int
        /\ now \in Nat
    BY DeskAssumption DEF Init
  <1>5. /\ orders \subseteq BuyOrder
        /\ sells \subseteq SellKey
        /\ answers \subseteq Answer
        /\ killSwitch \in BOOLEAN
        /\ averaging \in BOOLEAN
    BY DEF Init
  <1> QED
    BY <1>1, <1>3, <1>4, <1>5 DEF TypeInv, TypeOK

\* Closing a transaction keeps the types.
LEMMA FinishType ==
  ASSUME TypeInv, NEW c \in Clients, Finish(c)
  PROVE  tx' \in [Clients -> Transaction] /\ TxShape'
  BY IdleTxType DEF TypeInv, TypeOK, TxShape, Finish, ApprovePhases

\* So does a rollback.
LEMMA RollbackType ==
  ASSUME TypeInv, NEW c \in Clients, Rollback(c)
  PROVE  TypeInv'
  BY FinishType DEF Rollback, TypeInv, TypeOK, rows, settings

\* So does going on to a phase that needs no position.
LEMMA ProceedType ==
  ASSUME TypeInv, NEW c \in Clients, tx[c].pc \in ApprovePhases,
         NEW ph \in ApprovePhases, Proceed(c, ph)
  PROVE  TypeInv'
  <1>1. tx' = [tx EXCEPT ![c] = [tx[c] EXCEPT !.pc = ph]]
    BY DEF Proceed
  <1>2. [tx[c] EXCEPT !.pc = ph] \in Transaction
    BY DEF TypeInv, TypeOK, Transaction, Phases
  <1>3. tx' \in [Clients -> Transaction]
    BY <1>1, <1>2 DEF TypeInv, TypeOK
  <1>4. TxShape'
    BY <1>1, <1>2 DEF TypeInv, TypeOK, TxShape, ApprovePhases, Transaction
  <1> QED
    BY <1>3, <1>4 DEF Proceed, TypeInv, TypeOK, rows, settings

\* A transaction that begins a call of either kind is well typed.
LEMMA BeginType ==
  ASSUME TypeInv, NEW c \in Clients, NEW t \in Transaction,
         t.pc \in ApprovePhases => /\ t.approval \in Approvals
                                   /\ t.key \in Keys
                                   /\ t.instr = InstrumentOf[t.approval],
         t.pc = "deciding" => t.instr \in Instruments,
         t.pc = "exiting" => t.instr \in Instruments /\ t.qty <= t.seen.qty,
         tx' = [tx EXCEPT ![c] = t],
         UNCHANGED <<rows, settings, now, answers>>
  PROVE  TypeInv'
  BY DEF TypeInv, TypeOK, TxShape, rows, settings

\* The call that locks an approval is well typed.
LEMMA ApproveLockType ==
  ASSUME TypeInv, NEW c \in Clients, NEW a \in Approvals, NEW k \in Keys,
         ApproveLock(c, a, k)
  PROVE  TypeInv'
  <1> DEFINE t == [IdleTx EXCEPT !.pc = "checked", !.approval = a, !.key = k,
                                 !.instr = InstrumentOf[a], !.qty = deal[a].qty]
  <1>1. t \in Transaction
    BY DeskAssumption DEF TypeInv, TypeOK, Transaction, Phases, ApprovePhases, Deal,
                          IdleTx, NoPosition, PositionRow
  <1>2. tx' = [tx EXCEPT ![c] = t] /\ UNCHANGED <<rows, settings, now, answers>>
    BY DEF ApproveLock
  <1>3. /\ t.approval \in Approvals /\ t.key \in Keys
        /\ t.instr = InstrumentOf[t.approval] /\ t.pc = "checked"
    BY DEF IdleTx
  <1> HIDE DEF t
  <1> QED
    BY <1>1, <1>2, <1>3, BeginType

\* So is a decision that has begun,
LEMMA DecideType ==
  ASSUME TypeInv, NEW c \in Clients, NEW i \in Instruments, Decide(c, i)
  PROVE  TypeInv'
  <1> DEFINE t == [IdleTx EXCEPT !.pc = "deciding", !.instr = i, !.since = now]
  <1>1. t \in Transaction
    BY DEF TypeInv, TypeOK, Transaction, Phases, IdleTx, NoPosition, PositionRow
  <1>2. tx' = [tx EXCEPT ![c] = t] /\ UNCHANGED <<rows, settings, now, answers>>
    BY DEF Decide
  <1>3. t.pc = "deciding" /\ t.instr = i
    BY DEF IdleTx
  <1>4. t.pc \notin ApprovePhases
    BY <1>3 DEF ApprovePhases
  <1> HIDE DEF t
  <1> QED
    BY <1>1, <1>2, <1>3, <1>4, BeginType

\* A decision that ends well types its approval.
LEMMA GenerateType ==
  ASSUME TypeInv, NEW c \in Clients, NEW a \in Approvals, NEW q \in Quantities,
         NEW p \in Prices, Generate(c, a, q, p)
  PROVE  TypeInv'
  <1>1. [qty |-> q, price |-> p, expires |-> tx[c].since + Lifetime] \in Deal
    BY DeskAssumption DEF TypeInv, TypeOK, Transaction, Deal
  <1>2. deal' \in [Approvals -> Deal] /\ status' \in [Approvals -> Statuses]
    BY <1>1 DEF Generate, TypeInv, TypeOK, Statuses
  <1>3. tx' \in [Clients -> Transaction] /\ TxShape'
    BY FinishType DEF Generate
  <1> QED
    BY <1>2, <1>3 DEF Generate, TypeInv, TypeOK, settings

\* an exit that has locked its position,
LEMMA ExitLockType ==
  ASSUME TypeInv, NEW c \in Clients, NEW i \in Instruments, NEW q \in Quantities,
         ExitLock(c, i, q)
  PROVE  TypeInv'
  <1> DEFINE t == [IdleTx EXCEPT !.pc = "exiting", !.instr = i, !.qty = q,
                                 !.seen = position[i]]
  <1>1. t \in Transaction
    BY DeskAssumption DEF TypeInv, TypeOK, Transaction, Phases, IdleTx
  <1>2. tx' = [tx EXCEPT ![c] = t] /\ UNCHANGED <<rows, settings, now, answers>>
    BY DEF ExitLock
  <1>3. t.pc = "exiting" /\ t.instr = i /\ t.qty <= t.seen.qty
    BY DEF ExitLock, Sellable, IdleTx
  <1>4. t.pc \notin ApprovePhases
    BY <1>3 DEF ApprovePhases
  <1> HIDE DEF t
  <1> QED
    BY <1>1, <1>2, <1>3, <1>4, BeginType

\* and an approval that has loaded its position.
LEMMA TakePositionType ==
  ASSUME TypeInv, NEW c \in Clients, ApproveTakePosition(c)
  PROVE  TypeInv'
  <1>1. tx[c].pc \in ApprovePhases
    BY DEF ApproveTakePosition, ApprovePhases
  <1>2. CASE Rollback(c)
    BY <1>2, RollbackType
  <1>3. CASE /\ tx' = [tx EXCEPT ![c].pc = "placed", ![c].seen = position[tx[c].instr]]
             /\ UNCHANGED <<rows, settings, now, answers>>
    <2> DEFINE t == [tx[c] EXCEPT !.pc = "placed", !.seen = position[tx[c].instr]]
    <2>1. tx[c].instr \in Instruments
      BY <1>1, DeskAssumption DEF TypeInv, TxShape
    <2>2. t \in Transaction
      BY <2>1 DEF TypeInv, TypeOK, Transaction, Phases, ApprovePhases
    <2>3. tx' = [tx EXCEPT ![c] = t]
      BY <1>3
    <2>4. /\ t.pc = "placed" /\ t.approval = tx[c].approval
          /\ t.key = tx[c].key /\ t.instr = tx[c].instr
      BY DEF TypeInv, TypeOK, Transaction
    <2>5. /\ t.approval \in Approvals /\ t.key \in Keys
          /\ t.instr = InstrumentOf[t.approval] /\ t.pc = "placed"
      BY <1>1, <2>4 DEF TypeInv, TxShape
    <2>6. UNCHANGED <<rows, settings, now, answers>>
      BY <1>3
    <2> HIDE DEF t
    <2> QED
      BY <2>2, <2>3, <2>5, <2>6, BeginType
  <1> QED
    BY <1>2, <1>3 DEF ApproveTakePosition

\* The cost of a fill is an integer.
LEMMA CostType ==
  ASSUME TypeInv, NEW c \in Clients, tx[c].pc \in ApprovePhases
  PROVE  Cost(c) \in Int
  BY DeskAssumption DEF TypeInv, TypeOK, TxShape, Transaction, Deal, Cost, Debit

\* A fill writes well-typed rows.
LEMMA ApproveCommitType ==
  ASSUME TypeInv, NEW c \in Clients, ApproveCommit(c)
  PROVE  TypeInv'
  <1>1. tx[c].pc \in ApprovePhases
    BY DEF ApproveCommit, ApprovePhases
  <1>2. CASE Rollback(c)
    BY <1>2, RollbackType
  <1>3. CASE Fill(c) /\ Finish(c) /\ UNCHANGED <<settings, now>>
    <2> DEFINE t == tx[c]
               o == [approval |-> t.approval, key |-> t.key]
    <2>1. /\ t.approval \in Approvals /\ t.key \in Keys
          /\ t.instr \in Instruments /\ t.qty \in Nat
          /\ t.seen \in PositionRow /\ deal[t.approval] \in Deal
      BY <1>1, DeskAssumption DEF TypeInv, TypeOK, TxShape, Transaction
    <2>2. o \in BuyOrder /\ [approval |-> t.approval, key |-> t.key, order |-> o] \in Answer
      BY <2>1 DEF BuyOrder, Answer
    <2>3. orders' \subseteq BuyOrder /\ answers' \subseteq Answer
      BY <1>3, <2>2 DEF Fill, Tell, TypeInv, TypeOK
    <2>4. [qty |-> t.seen.qty + t.qty, version |-> t.seen.version + 1,
           price |-> deal[t.approval].price] \in PositionRow
      BY <2>1 DEF PositionRow, Deal
    <2>5. position' \in [Instruments -> PositionRow]
      BY <1>3, <2>1, <2>4 DEF Fill, TypeInv, TypeOK
    <2>6. bought' \in [Instruments -> Nat] /\ cash' \in Int
      BY <1>1, <1>3, <2>1, CostType DEF Fill, TypeInv, TypeOK
    <2>7. status' \in [Approvals -> Statuses]
      BY <1>3, <2>1 DEF Fill, TypeInv, TypeOK, Statuses
    <2>8. tx' \in [Clients -> Transaction] /\ TxShape'
      BY <1>3, FinishType
    <2>9. /\ deal' \in [Approvals -> Deal] /\ sells' \subseteq SellKey
          /\ sold' \in [Instruments -> Nat] /\ now' \in Nat
          /\ UNCHANGED <<killSwitch, averaging>>
      BY <1>3 DEF Fill, TypeInv, TypeOK, settings
    <2> QED
      BY <2>3, <2>5, <2>6, <2>7, <2>8, <2>9 DEF TypeInv, TypeOK
  <1> QED
    BY <1>2, <1>3 DEF ApproveCommit

\* An exit writes well-typed rows: it leaves no negative quantity.
LEMMA ExitCommitType ==
  ASSUME TypeInv, NEW c \in Clients, ExitCommit(c)
  PROVE  TypeInv'
  <1> DEFINE t == tx[c]
  <1>1. /\ t.instr \in Instruments /\ t.qty \in Nat
        /\ t.seen \in PositionRow /\ t.qty <= t.seen.qty
    BY DEF TypeInv, TypeOK, TxShape, Transaction, ExitCommit
  <1>2. Sold(t) \in PositionRow
    <2>1. t.seen.qty - t.qty \in Nat /\ t.seen.version + 1 \in Nat
      BY <1>1 DEF PositionRow
    <2>2. Sold(t) = [t.seen EXCEPT !.qty = t.seen.qty - t.qty,
                                   !.version = t.seen.version + 1]
      BY <1>1 DEF Sold, PositionRow
    <2> QED
      BY <1>1, <2>1, <2>2 DEF PositionRow
  <1>3. position' \in [Instruments -> PositionRow]
    BY <1>1, <1>2 DEF ExitCommit, TypeInv, TypeOK
  <1>4. ExitKey(c) \in SellKey
    BY <1>1 DEF ExitKey, SellKey, PositionRow
  <1>5. sells' \subseteq SellKey /\ sold' \in [Instruments -> Nat]
    BY <1>1, <1>4 DEF ExitCommit, TypeInv, TypeOK
  <1>6. cash' \in Int
    BY <1>1, DeskAssumption DEF ExitCommit, TypeInv, TypeOK, Credit, PositionRow
  <1>7. tx' \in [Clients -> Transaction] /\ TxShape'
    BY FinishType DEF ExitCommit
  <1>8. UNCHANGED <<status, deal, orders, bought, killSwitch, averaging, now, answers>>
    BY DEF ExitCommit, settings
  <1> QED
    BY <1>3, <1>5, <1>6, <1>7, <1>8 DEF TypeInv, TypeOK

\* The actions of Desk do not touch the open transactions.
LEMMA DeskType ==
  ASSUME TypeInv, Desk
  PROVE  TypeInv'
  <1>1. UNCHANGED tx
    BY DEF Desk, ApproveReplay, Reject, SetKillSwitch, SetAveraging, Tick
  <1>2. TxShape'
    BY <1>1 DEF TypeInv, TxShape
  <1>3. ASSUME NEW a \in Approvals, NEW k \in Keys, ApproveReplay(a, k)
        PROVE  TypeOK'
    <2>1. PICK o \in orders : Tell(a, k, o)
      BY <1>3 DEF ApproveReplay, OrdersOfKey, OrdersOfApproval
    <2>2. [approval |-> a, key |-> k, order |-> o] \in Answer
      BY DEF TypeInv, TypeOK, Answer
    <2> QED
      BY <1>3, <2>1, <2>2 DEF ApproveReplay, Tell, TypeInv, TypeOK, rows, settings
  <1>4. ASSUME NEW a \in Approvals, Reject(a)
        PROVE  TypeOK'
    BY <1>4 DEF Reject, TypeInv, TypeOK, Statuses, settings
  <1>5. ASSUME NEW on \in KillSettings, SetKillSwitch(on)
        PROVE  TypeOK'
    BY <1>5, DeskAssumption DEF SetKillSwitch, TypeInv, TypeOK, rows
  <1>6. ASSUME NEW on \in AveragingSettings, SetAveraging(on)
        PROVE  TypeOK'
    BY <1>6, DeskAssumption DEF SetAveraging, TypeInv, TypeOK, rows
  <1>7. ASSUME Tick PROVE TypeOK'
    <2>1. now' \in Nat
      BY <1>7 DEF Tick, TypeInv, TypeOK
    <2> QED
      BY <1>7, <2>1 DEF Tick, TypeInv, TypeOK, rows, settings
  <1>8. TypeOK'
    BY <1>3, <1>4, <1>5, <1>6, <1>7 DEF Desk
  <1> QED
    BY <1>2, <1>8 DEF TypeInv

\* Every step of an open transaction keeps the types.
LEMMA AdvanceType ==
  ASSUME TypeInv, NEW c \in Clients, Advance(c)
  PROVE  TypeInv'
  <1>1. CASE ApproveFund(c)
    <2>1. tx[c].pc \in ApprovePhases /\ "funded" \in ApprovePhases
      BY <1>1 DEF ApproveFund, ApprovePhases
    <2>2. Proceed(c, "funded") \/ Rollback(c)
      BY <1>1 DEF ApproveFund
    <2> QED
      BY <2>1, <2>2, ProceedType, RollbackType
  <1>2. CASE ApproveInsertOrder(c)
    <2>1. tx[c].pc \in ApprovePhases /\ "ordered" \in ApprovePhases
      BY <1>2 DEF ApproveInsertOrder, ApprovePhases
    <2>2. Proceed(c, "ordered") \/ Rollback(c)
      BY <1>2 DEF ApproveInsertOrder
    <2> QED
      BY <2>1, <2>2, ProceedType, RollbackType
  <1>3. CASE ApproveTakePosition(c)
    BY <1>3, TakePositionType
  <1>4. CASE ApproveCommit(c)
    BY <1>4, ApproveCommitType
  <1>5. CASE ExitCommit(c)
    BY <1>5, ExitCommitType
  <1>6. CASE DecideHold(c)
    BY <1>6, RollbackType DEF DecideHold
  <1>7. ASSUME NEW a \in Approvals, NEW q \in Quantities, NEW p \in Prices,
               Generate(c, a, q, p)
        PROVE  TypeInv'
    BY <1>7, GenerateType
  <1> QED
    BY <1>1, <1>2, <1>3, <1>4, <1>5, <1>6, <1>7 DEF Advance

\* No step leaves the types.
LEMMA NextTypeInv == TypeInv /\ [Next]_vars => TypeInv'
  <1> SUFFICES ASSUME TypeInv, [Next]_vars PROVE TypeInv'
    OBVIOUS
  <1>1. CASE Desk
    BY <1>1, DeskType
  <1>2. ASSUME NEW c \in Clients, Call(c)
        PROVE  TypeInv'
    BY <1>2, DecideType, ApproveLockType, ExitLockType DEF Call
  <1>3. ASSUME NEW c \in Clients, Advance(c)
        PROVE  TypeInv'
    BY <1>3, AdvanceType
  <1>4. ASSUME NEW c \in Clients, Abort(c)
        PROVE  TypeInv'
    BY <1>4, RollbackType DEF Abort
  <1>5. CASE UNCHANGED vars
    BY <1>5 DEF vars, rows, settings, TypeInv, TypeOK, TxShape
  <1> QED
    BY <1>1, <1>2, <1>3, <1>4, <1>5 DEF Next

\* Every row and every open transaction is well formed at all times: no call
\* oversells, so a position never holds a negative number of shares.
THEOREM TypeCorrect == Spec => []TypeOK
  <1>1. TypeInv => TypeOK
    BY DEF TypeInv
  <1> QED
    BY <1>1, InitTypeInv, NextTypeInv, PTL DEF Spec


-----------------------------------------------------------------------------
(* The invariant *)

\* The row locks exclude each other.
LocksHold ==
    /\ \A c, d \in Clients :
          /\ tx[c].pc \in ApprovePhases
          /\ tx[d].pc \in ApprovePhases
          /\ tx[c].approval = tx[d].approval
          => c = d
    /\ \A c, d \in Clients, i \in Instruments :
          HoldsPosition(c, i) /\ HoldsPosition(d, i) => c = d

\* What a transaction has read is still true of the rows it has locked; of a
\* position that it found missing it knows only that it holds nothing.
CallSound(c) ==
    /\ tx[c].pc \in ApprovePhases =>
          /\ status[tx[c].approval] = "pending"
          /\ tx[c].qty = deal[tx[c].approval].qty
    /\ tx[c].pc = "placed" =>
          \/ tx[c].seen.version = 0 /\ tx[c].seen.qty = 0
          \/ tx[c].seen.version # 0 /\ tx[c].seen = position[tx[c].instr]
    /\ tx[c].pc = "exiting" =>
          tx[c].seen = position[tx[c].instr] /\ tx[c].qty > 0

\* A missing position is empty, and its price covers the costs of a sale.
RowsSound ==
    \A i \in Instruments :
        /\ position[i].version = 0 => position[i].qty = 0
        /\ position[i].version # 0 => position[i].price >= Spread

DealsSound ==
    \A a \in Approvals : status[a] # "none" => deal[a].price >= Spread

\* A filled approval is decided, and filled once.
OrdersSound ==
    \A a \in Approvals :
        /\ OrdersOfApproval(a) # {} => status[a] \in {"approved", "expired"}
        /\ \A o, p \in OrdersOfApproval(a) : o = p

DeskInv ==
    /\ TypeInv
    /\ LocksHold
    /\ \A c \in Clients : CallSound(c)
    /\ RowsSound
    /\ DealsSound
    /\ OrdersSound
    /\ AnswersNameTheFill

\* The invariant holds at the start.
LEMMA InitDeskInv == Init => DeskInv
  <1> SUFFICES ASSUME Init PROVE DeskInv
    OBVIOUS
  <1>1. TypeInv
    BY InitTypeInv
  <1>2. \A c \in Clients : tx[c].pc = "idle"
    BY IdleTxType DEF Init
  <1>3. LocksHold /\ \A c \in Clients : CallSound(c)
    BY <1>2 DEF LocksHold, CallSound, HoldsPosition, ApprovePhases
  <1>4. RowsSound /\ DealsSound
    BY DEF Init, RowsSound, DealsSound, NoPosition
  <1>5. OrdersSound /\ AnswersNameTheFill
    BY DEF Init, OrdersSound, AnswersNameTheFill, OrdersOfApproval
  <1> QED
    BY <1>1, <1>3, <1>4, <1>5 DEF DeskInv

-----------------------------------------------------------------------------
(* What a step of one transaction leaves alone *)

\* The locks still exclude each other if c takes only locks that are free.
LEMMA LocksKept ==
  ASSUME LocksHold, NEW c \in Clients,
         \A d \in Clients : d # c => tx'[d] = tx[d],
         tx'[c].pc \in ApprovePhases =>
            \/ tx[c].pc \in ApprovePhases /\ tx[c].approval = tx'[c].approval
            \/ ApprovalFree(tx'[c].approval),
         \A i \in Instruments :
            HoldsPosition(c, i)' => HoldsPosition(c, i) \/ PositionFree(i)
  PROVE  LocksHold'
  <1>1. ASSUME NEW d \in Clients, NEW e \in Clients,
               tx'[d].pc \in ApprovePhases, tx'[e].pc \in ApprovePhases,
               tx'[d].approval = tx'[e].approval
        PROVE  d = e
    BY <1>1 DEF LocksHold, ApprovalFree, HoldsApproval
  <1>2. \A d \in Clients, i \in Instruments :
           d # c => (HoldsPosition(d, i)' <=> HoldsPosition(d, i))
    BY DEF HoldsPosition
  <1>3. ASSUME NEW d \in Clients, NEW e \in Clients, NEW i \in Instruments,
               HoldsPosition(d, i)', HoldsPosition(e, i)'
        PROVE  d = e
    BY <1>2, <1>3 DEF LocksHold, PositionFree
  <1> QED
    BY <1>1, <1>3 DEF LocksHold

\* What the others have read stays true while the rows stay as they are.
LEMMA CallsKept ==
  ASSUME \A d \in Clients : CallSound(d), NEW c \in Clients,
         \A d \in Clients : d # c => tx'[d] = tx[d],
         UNCHANGED <<status, deal, position>>,
         CallSound(c)'
  PROVE  \A d \in Clients : CallSound(d)'
  BY DEF CallSound

\* A step that writes no row and gives no answer keeps the rest.
LEMMA RowsKept ==
  ASSUME DeskInv, UNCHANGED <<rows, answers>>
  PROVE  RowsSound' /\ DealsSound' /\ OrdersSound' /\ AnswersNameTheFill'
  BY DEF DeskInv, rows, RowsSound, DealsSound, OrdersSound, AnswersNameTheFill,
         OrdersOfApproval

\* The step of a transaction that commits nothing.
LEMMA PrivateStep ==
  ASSUME DeskInv, TypeInv', NEW c \in Clients,
         \A d \in Clients : d # c => tx'[d] = tx[d],
         UNCHANGED <<rows, settings, now, answers>>,
         tx'[c].pc \in ApprovePhases =>
            \/ tx[c].pc \in ApprovePhases /\ tx[c].approval = tx'[c].approval
            \/ ApprovalFree(tx'[c].approval),
         \A i \in Instruments :
            HoldsPosition(c, i)' => HoldsPosition(c, i) \/ PositionFree(i),
         CallSound(c)'
  PROVE  DeskInv'
  <1>1. LocksHold'
    BY LocksKept DEF DeskInv
  <1>2. UNCHANGED <<status, deal, position>>
    BY DEF rows
  <1>3. \A d \in Clients : CallSound(d)'
    BY <1>2, CallsKept DEF DeskInv
  <1> QED
    BY <1>1, <1>3, RowsKept DEF DeskInv

\* Finish(c) closes the transaction of c and no other.
LEMMA FinishOne ==
  ASSUME TypeInv, NEW c \in Clients, Finish(c)
  PROVE  /\ tx'[c].pc = "idle"
         /\ \A d \in Clients : d # c => tx'[d] = tx[d]
  BY IdleTxType DEF Finish, TypeInv, TypeOK

\* A transaction that rolls back leaves the invariant alone.
LEMMA RollbackSound ==
  ASSUME DeskInv, NEW c \in Clients, Rollback(c)
  PROVE  DeskInv'
  <1>1. TypeInv'
    BY RollbackType DEF DeskInv
  <1>2. tx'[c].pc = "idle" /\ \A d \in Clients : d # c => tx'[d] = tx[d]
    BY FinishOne DEF DeskInv, Rollback
  <1>3. CallSound(c)'
    BY <1>2 DEF CallSound, ApprovePhases
  <1>4. tx'[c].pc \notin ApprovePhases /\ \A i \in Instruments : ~HoldsPosition(c, i)'
    BY <1>2 DEF HoldsPosition, ApprovePhases
  <1>5. UNCHANGED <<rows, settings, now, answers>>
    BY DEF Rollback
  <1> QED
    BY <1>1, <1>2, <1>3, <1>4, <1>5, PrivateStep

-----------------------------------------------------------------------------
(* The steps of a transaction up to its commit *)

\* approve_and_fill up to the kill switch: it locks a free, pending approval.
LEMMA ApproveLockSound ==
  ASSUME DeskInv, NEW c \in Clients, NEW a \in Approvals, NEW k \in Keys,
         ApproveLock(c, a, k)
  PROVE  DeskInv'
  <1>1. TypeInv'
    BY ApproveLockType DEF DeskInv
  <1>2. /\ tx'[c].pc = "checked" /\ tx'[c].approval = a
        /\ tx'[c].qty = deal[a].qty
        /\ \A d \in Clients : d # c => tx'[d] = tx[d]
    BY DEF ApproveLock, DeskInv, TypeInv, TypeOK, IdleTx
  <1>3. ApprovalFree(a) /\ UNCHANGED <<rows, settings, now, answers>>
    BY DEF ApproveLock
  <1>4. CallSound(c)'
    BY <1>2 DEF ApproveLock, CallSound, rows
  <1>5. \A i \in Instruments : ~HoldsPosition(c, i)'
    BY <1>2 DEF HoldsPosition
  <1> QED
    BY <1>1, <1>2, <1>3, <1>4, <1>5, PrivateStep

\* A decision that has read the position holds no lock yet.
LEMMA DecideSound ==
  ASSUME DeskInv, NEW c \in Clients, NEW i \in Instruments, Decide(c, i)
  PROVE  DeskInv'
  <1>1. TypeInv'
    BY DecideType DEF DeskInv
  <1>2. /\ tx'[c].pc = "deciding"
        /\ \A d \in Clients : d # c => tx'[d] = tx[d]
    BY DEF Decide, DeskInv, TypeInv, TypeOK, IdleTx
  <1>3. UNCHANGED <<rows, settings, now, answers>>
    BY DEF Decide
  <1>4. CallSound(c)'
    BY <1>2 DEF CallSound, ApprovePhases
  <1>5. tx'[c].pc \notin ApprovePhases /\ \A j \in Instruments : ~HoldsPosition(c, j)'
    BY <1>2 DEF HoldsPosition, ApprovePhases
  <1> QED
    BY <1>1, <1>2, <1>3, <1>4, <1>5, PrivateStep

\* exit_position after its checks: it holds the position it has read.
LEMMA ExitLockSound ==
  ASSUME DeskInv, NEW c \in Clients, NEW i \in Instruments, NEW q \in Quantities,
         ExitLock(c, i, q)
  PROVE  DeskInv'
  <1>1. TypeInv'
    BY ExitLockType DEF DeskInv
  <1>2. /\ tx'[c].pc = "exiting" /\ tx'[c].instr = i
        /\ tx'[c].qty = q /\ tx'[c].seen = position[i]
        /\ \A d \in Clients : d # c => tx'[d] = tx[d]
    BY DEF ExitLock, DeskInv, TypeInv, TypeOK, IdleTx
  <1>3. PositionFree(i) /\ UNCHANGED <<rows, settings, now, answers>>
    BY DEF ExitLock
  <1>4. CallSound(c)'
    BY <1>2 DEF ExitLock, Sellable, CallSound, ApprovePhases, rows
  <1>5. tx'[c].pc \notin ApprovePhases
    BY <1>2 DEF ApprovePhases
  <1>6. \A j \in Instruments : HoldsPosition(c, j)' => PositionFree(j)
    BY <1>2, <1>3 DEF HoldsPosition
  <1> QED
    BY <1>1, <1>2, <1>3, <1>4, <1>5, <1>6, PrivateStep

\* Going on to a phase in which no position is locked yet.
LEMMA ProceedSound ==
  ASSUME DeskInv, NEW c \in Clients, tx[c].pc \in ApprovePhases,
         NEW ph \in {"funded", "ordered"}, Proceed(c, ph)
  PROVE  DeskInv'
  <1>1. TypeInv'
    BY ProceedType DEF DeskInv, ApprovePhases
  <1>2. /\ tx'[c].pc = ph /\ tx'[c].approval = tx[c].approval
        /\ tx'[c].qty = tx[c].qty
        /\ \A d \in Clients : d # c => tx'[d] = tx[d]
    BY DEF Proceed, DeskInv, TypeInv, TypeOK, Transaction
  <1>3. UNCHANGED <<rows, settings, now, answers>>
    BY DEF Proceed
  <1>4. CallSound(c)'
    BY <1>2, <1>3 DEF DeskInv, CallSound, rows
  <1>5. \A i \in Instruments : ~HoldsPosition(c, i)'
    BY <1>2 DEF HoldsPosition
  <1> QED
    BY <1>1, <1>2, <1>3, <1>4, <1>5, PrivateStep

\* approve_and_fill after the position lock and the duplicate check.
LEMMA TakePositionSound ==
  ASSUME DeskInv, NEW c \in Clients, ApproveTakePosition(c)
  PROVE  DeskInv'
  <1> DEFINE i == tx[c].instr
  <1>1. CASE Rollback(c)
    BY <1>1, RollbackSound
  <1>2. CASE /\ tx' = [tx EXCEPT ![c].pc = "placed", ![c].seen = position[i]]
             /\ UNCHANGED <<rows, settings, now, answers>>
    <2>1. TypeInv'
      BY TakePositionType DEF DeskInv
    <2>2. tx[c].pc = "ordered" /\ PositionFree(i) /\ tx[c].pc \in ApprovePhases
      BY DEF ApproveTakePosition, ApprovePhases
    <2>3. i \in Instruments
      BY <2>2, DeskAssumption DEF DeskInv, TypeInv, TxShape
    <2>4. /\ tx'[c].pc = "placed" /\ tx'[c].approval = tx[c].approval
          /\ tx'[c].qty = tx[c].qty /\ tx'[c].instr = i
          /\ tx'[c].seen = position[i]
          /\ \A d \in Clients : d # c => tx'[d] = tx[d]
      BY <1>2 DEF DeskInv, TypeInv, TypeOK, Transaction
    <2>5. UNCHANGED <<rows, settings, now, answers>>
      BY <1>2
    <2>6. CallSound(c)'
      BY <2>2, <2>3, <2>4, <2>5 DEF DeskInv, CallSound, RowsSound, ApprovePhases, rows
    <2>7. \A j \in Instruments : HoldsPosition(c, j)' => PositionFree(j)
      BY <2>2, <2>4 DEF HoldsPosition
    <2> QED
      BY <2>1, <2>2, <2>4, <2>5, <2>6, <2>7, PrivateStep
  <1> QED
    BY <1>1, <1>2 DEF ApproveTakePosition

-----------------------------------------------------------------------------
(* The commits *)

\* A fill finds the position with the quantity that it loaded, also when it
\* loaded no row and so holds no lock.
LEMMA FillMeetsPosition ==
  ASSUME DeskInv, NEW c \in Clients, tx[c].pc = "placed", ~PositionClash(c)
  PROVE  /\ tx[c].instr \in Instruments
         /\ tx[c].seen.qty = position[tx[c].instr].qty
         /\ tx[c].seen.version = position[tx[c].instr].version
  <1>1. tx[c].instr \in Instruments
    BY DeskAssumption DEF DeskInv, TypeInv, TxShape, ApprovePhases
  <1>2. CallSound(c)
    BY DEF DeskInv
  <1>3. CASE tx[c].seen.version = 0 /\ tx[c].seen.qty = 0
    BY <1>1, <1>3 DEF PositionClash, DeskInv, RowsSound
  <1>4. CASE tx[c].seen = position[tx[c].instr]
    BY <1>1, <1>4
  <1> QED
    BY <1>2, <1>3, <1>4 DEF CallSound

\* What a fill does to the rows.
LEMMA FillEffect ==
  ASSUME DeskInv, NEW c \in Clients, tx[c].pc = "placed", ~PositionClash(c), Fill(c)
  PROVE  LET a == tx[c].approval
             i == tx[c].instr
         IN  /\ a \in Approvals /\ i \in Instruments /\ i = InstrumentOf[a]
             /\ status[a] = "pending"
             /\ status' = [status EXCEPT ![a] = "approved"]
             /\ \A j \in Instruments : j # i => /\ position'[j] = position[j]
                                                /\ bought'[j] = bought[j]
             /\ position'[i].qty = position[i].qty + tx[c].qty
             /\ position'[i].version = position[i].version + 1
             /\ position'[i].price = deal[a].price
             /\ bought'[i] = bought[i] + tx[c].qty
             /\ UNCHANGED <<deal, sells, sold>>
  <1>1. tx[c].approval \in Approvals /\ tx[c].instr = InstrumentOf[tx[c].approval]
    BY DEF DeskInv, TypeInv, TxShape, ApprovePhases
  <1>2. status[tx[c].approval] = "pending"
    BY DEF DeskInv, CallSound, ApprovePhases
  <1>3. position \in [Instruments -> PositionRow] /\ bought \in [Instruments -> Nat]
    BY DEF DeskInv, TypeInv, TypeOK
  <1> QED
    BY <1>1, <1>2, <1>3, FillMeetsPosition DEF Fill

\* A fill that commits keeps approvals, orders, rows and answers in step.
LEMMA ApproveCommitSound ==
  ASSUME DeskInv, NEW c \in Clients, ApproveCommit(c)
  PROVE  DeskInv'
  <1> DEFINE a == tx[c].approval
             i == tx[c].instr
             o == [approval |-> a, key |-> tx[c].key]
  <1>1. CASE Rollback(c)
    BY <1>1, RollbackSound
  <1>2. CASE ~PositionClash(c) /\ Fill(c) /\ Finish(c) /\ UNCHANGED <<settings, now>>
    <2>1. tx[c].pc = "placed"
      BY DEF ApproveCommit
    <2>2. TypeInv'
      BY ApproveCommitType DEF DeskInv
    <2>3. tx'[c].pc = "idle" /\ \A d \in Clients : d # c => tx'[d] = tx[d]
      BY <1>2, FinishOne DEF DeskInv
    <2>4. /\ a \in Approvals /\ i \in Instruments /\ i = InstrumentOf[a]
          /\ status[a] = "pending"
          /\ status' = [status EXCEPT ![a] = "approved"]
          /\ \A j \in Instruments : j # i => /\ position'[j] = position[j]
                                             /\ bought'[j] = bought[j]
          /\ position'[i].qty = position[i].qty + tx[c].qty
          /\ position'[i].version = position[i].version + 1
          /\ position'[i].price = deal[a].price
          /\ bought'[i] = bought[i] + tx[c].qty
          /\ UNCHANGED <<deal, sells, sold>>
      BY <1>2, <2>1, FillEffect
    <2>5. LocksHold'
      BY <2>3, LocksKept DEF DeskInv, HoldsPosition, ApprovePhases
    <2>6. ASSUME NEW d \in Clients PROVE CallSound(d)'
      <3>1. CASE d = c
        BY <2>3, <3>1 DEF CallSound, ApprovePhases
      <3>2. CASE d # c
        <4>1. tx'[d] = tx[d] /\ CallSound(d)
          BY <2>3, <3>2 DEF DeskInv
        <4>2. tx[d].pc \in ApprovePhases =>
                 tx[d].approval # a /\ tx[d].approval \in Approvals
          BY <2>1, <3>2 DEF DeskInv, LocksHold, TypeInv, TxShape, ApprovePhases
        <4>3. ASSUME tx[d].pc = "placed", tx[d].seen.version # 0,
                     tx[d].instr = i
              PROVE  FALSE
          <5>1. HoldsPosition(d, i) /\ tx[d].seen = position[i]
            BY <4>1, <4>3 DEF HoldsPosition, CallSound
          <5>2. HoldsPosition(c, i)
            BY <1>2, <2>1, <4>3, <5>1, FillMeetsPosition DEF HoldsPosition
          <5> QED
            BY <2>4, <3>2, <5>1, <5>2 DEF DeskInv, LocksHold
        <4>4. ASSUME tx[d].pc = "exiting", tx[d].instr = i
              PROVE  FALSE
          <5>1. HoldsPosition(d, i) /\ position[i].qty >= tx[d].qty /\ tx[d].qty > 0
            BY <4>1, <4>4 DEF HoldsPosition, CallSound, DeskInv, TypeInv, TxShape
          <5>2. position[i].version # 0
            BY <2>4, <5>1 DEF DeskInv, RowsSound, TypeInv, TypeOK, Transaction, PositionRow
          <5>3. HoldsPosition(c, i)
            BY <1>2, <2>1, <5>2, FillMeetsPosition DEF HoldsPosition
          <5> QED
            BY <2>4, <3>2, <5>1, <5>3 DEF DeskInv, LocksHold
        <4>5. tx[d].pc \in {"placed", "exiting"} => tx[d].instr \in Instruments
          BY DeskAssumption DEF DeskInv, TypeInv, TxShape, ApprovePhases
        <4> QED
          BY <2>4, <4>1, <4>2, <4>3, <4>4, <4>5 DEF CallSound, DeskInv, TypeInv, TypeOK
      <3> QED
        BY <3>1, <3>2
    <2>7. deal[a].price >= Spread
      BY <2>4 DEF DeskInv, DealsSound
    <2>8. RowsSound'
      BY <2>4, <2>7 DEF DeskInv, RowsSound, TypeInv, TypeOK, PositionRow
    <2>9. DealsSound'
      BY <2>4 DEF DeskInv, DealsSound, TypeInv, TypeOK
    <2>10. OrdersSound'
      <3>1. OrdersOfApproval(a) = {}
        BY <2>4 DEF DeskInv, OrdersSound
      <3>2. orders' = orders \cup {o}
        BY <1>2 DEF Fill
      <3>3. \A b \in Approvals :
               OrdersOfApproval(b)' = IF b = a THEN {o} ELSE OrdersOfApproval(b)
        BY <3>1, <3>2 DEF OrdersOfApproval
      <3>4. \A b \in Approvals : status'[b] = IF b = a THEN "approved" ELSE status[b]
        BY <2>4 DEF DeskInv, TypeInv, TypeOK
      <3>5. ASSUME NEW b \in Approvals
            PROVE  /\ OrdersOfApproval(b)' # {} => status'[b] \in {"approved", "expired"}
                   /\ \A u, v \in OrdersOfApproval(b)' : u = v
        <4>1. CASE b = a
          BY <3>3, <3>4, <4>1
        <4>2. CASE b # a
          <5>1. OrdersOfApproval(b)' = OrdersOfApproval(b) /\ status'[b] = status[b]
            BY <3>3, <3>4, <4>2
          <5> QED
            BY <5>1 DEF DeskInv, OrdersSound
        <4> QED
          BY <4>1, <4>2
      <3> QED
        BY <3>5 DEF OrdersSound
    <2>11. AnswersNameTheFill'
      <3>1. /\ orders' = orders \cup {o}
            /\ answers' = answers \cup {[approval |-> a, key |-> tx[c].key, order |-> o]}
        BY <1>2 DEF Fill, Tell
      <3>2. \A x \in answers' : x.order \in orders' /\ x.order.approval = x.approval
        BY <3>1 DEF DeskInv, AnswersNameTheFill
      <3>3. \A x, y \in answers' : x.approval = y.approval => x.order = y.order
        BY <2>2, <2>10, <3>2
           DEF OrdersSound, OrdersOfApproval, TypeInv, TypeOK, Answer
      <3> QED
        BY <3>2, <3>3 DEF AnswersNameTheFill
    <2> QED
      BY <2>2, <2>5, <2>6, <2>8, <2>9, <2>10, <2>11 DEF DeskInv
  <1> QED
    BY <1>1, <1>2 DEF ApproveCommit

\* What an exit does to the rows.
LEMMA ExitEffect ==
  ASSUME DeskInv, NEW c \in Clients, ExitCommit(c)
  PROVE  LET i == tx[c].instr
         IN  /\ i \in Instruments
             /\ tx[c].qty \in 1 .. position[i].qty
             /\ tx[c].seen = position[i]
             /\ position[i].version # 0
             /\ position' = [position EXCEPT ![i] =
                   [position[i] EXCEPT !.qty = position[i].qty - tx[c].qty,
                                       !.version = position[i].version + 1]]
             /\ sold' = [sold EXCEPT ![i] = sold[i] + tx[c].qty]
             /\ sells' = sells \cup {[instr |-> i, version |-> position[i].version,
                                      qty |-> tx[c].qty]}
             /\ UNCHANGED <<status, deal, orders, bought, answers>>
  <1>1. tx[c].pc = "exiting"
    BY DEF ExitCommit
  <1>2. /\ tx[c].instr \in Instruments /\ tx[c].qty \in Nat
        /\ tx[c].qty <= tx[c].seen.qty
    BY <1>1 DEF DeskInv, TypeInv, TypeOK, TxShape, Transaction
  <1>3. tx[c].seen = position[tx[c].instr] /\ tx[c].qty > 0
    BY <1>1 DEF DeskInv, CallSound
  <1>4. position[tx[c].instr] \in PositionRow
    BY <1>2 DEF DeskInv, TypeInv, TypeOK
  <1>5. tx[c].qty \in 1 .. position[tx[c].instr].qty
    BY <1>2, <1>3, <1>4 DEF PositionRow
  <1>6. position[tx[c].instr].version # 0
    BY <1>2, <1>5 DEF DeskInv, RowsSound
  <1> QED
    BY <1>2, <1>3, <1>5, <1>6 DEF ExitCommit, ExitKey, Sold

\* An exit that commits leaves the approvals and the other rows alone.
LEMMA ExitCommitSound ==
  ASSUME DeskInv, NEW c \in Clients, ExitCommit(c)
  PROVE  DeskInv'
  <1> DEFINE i == tx[c].instr
             q == tx[c].qty
             sale == [instr |-> i, version |-> position[i].version, qty |-> q]
  <1>1. TypeInv'
    BY ExitCommitType DEF DeskInv
  <1>2. tx[c].pc = "exiting" /\ Finish(c)
    BY DEF ExitCommit
  <1>3. tx'[c].pc = "idle" /\ \A d \in Clients : d # c => tx'[d] = tx[d]
    BY <1>2, FinishOne DEF DeskInv
  <1>4. /\ i \in Instruments /\ q \in 1 .. position[i].qty
        /\ tx[c].seen = position[i] /\ position[i].version # 0
        /\ position' = [position EXCEPT ![i] =
              [position[i] EXCEPT !.qty = position[i].qty - q,
                                  !.version = position[i].version + 1]]
        /\ sold' = [sold EXCEPT ![i] = sold[i] + q]
        /\ sells' = sells \cup {sale}
        /\ UNCHANGED <<status, deal, orders, bought, answers>>
    BY ExitEffect
  <1>5. LocksHold'
    BY <1>3, LocksKept DEF DeskInv, HoldsPosition, ApprovePhases
  <1>6. position \in [Instruments -> PositionRow] /\ sold \in [Instruments -> Nat]
    BY DEF DeskInv, TypeInv, TypeOK
  <1>7. /\ \A j \in Instruments : j # i => position'[j] = position[j]
        /\ position'[i].qty = position[i].qty - q
        /\ position'[i].version = position[i].version + 1
        /\ position'[i].price = position[i].price
        /\ \A j \in Instruments : sold'[j] = IF j = i THEN sold[i] + q ELSE sold[j]
    BY <1>4, <1>6 DEF PositionRow
  <1>8. ASSUME NEW d \in Clients PROVE CallSound(d)'
    <2>1. CASE d = c
      BY <1>3, <2>1 DEF CallSound, ApprovePhases
    <2>2. CASE d # c
      <3>1. tx'[d] = tx[d] /\ CallSound(d)
        BY <1>3, <2>2 DEF DeskInv
      <3>2. HoldsPosition(c, i) /\ ~HoldsPosition(d, i)
        BY <1>2, <1>4, <2>2 DEF DeskInv, LocksHold, HoldsPosition
      <3>3. tx[d].pc \in {"placed", "exiting"} => tx[d].instr \in Instruments
        BY DeskAssumption DEF DeskInv, TypeInv, TxShape, ApprovePhases
      <3> QED
        BY <1>4, <1>7, <3>1, <3>2, <3>3 DEF CallSound, HoldsPosition
    <2> QED
      BY <2>1, <2>2
  <1>9. RowsSound'
    BY <1>4, <1>6, <1>7 DEF DeskInv, RowsSound, PositionRow
  <1>10. DealsSound' /\ OrdersSound' /\ AnswersNameTheFill'
    BY <1>4 DEF DeskInv, DealsSound, OrdersSound, AnswersNameTheFill, OrdersOfApproval
  <1> QED
    BY <1>1, <1>5, <1>8, <1>9, <1>10 DEF DeskInv

\* A decision takes an approval that no call has locked, as it has no row yet.
LEMMA GenerateSound ==
  ASSUME DeskInv, NEW c \in Clients, NEW a \in Approvals, NEW q \in Quantities,
         NEW p \in Prices, Generate(c, a, q, p)
  PROVE  DeskInv'
  <1>1. /\ status[a] = "none" /\ p >= Spread
        /\ \A b \in Approvals : status'[b] = IF b = a THEN "pending" ELSE status[b]
        /\ \A b \in Approvals : b # a => deal'[b] = deal[b]
        /\ deal'[a].price = p
        /\ UNCHANGED <<orders, position, sells, bought, sold, answers>>
    BY DeskAssumption DEF Generate, DeskInv, TypeInv, TypeOK
  <1>2. TypeInv'
    BY GenerateType DEF DeskInv
  <1>3. tx'[c].pc = "idle" /\ \A d \in Clients : d # c => tx'[d] = tx[d]
    BY FinishOne DEF DeskInv, Generate
  <1>4. LocksHold'
    BY <1>3, LocksKept DEF DeskInv, HoldsPosition, ApprovePhases
  <1>5. ASSUME NEW d \in Clients PROVE CallSound(d)'
    <2>1. CASE d = c
      BY <1>3, <2>1 DEF CallSound, ApprovePhases
    <2>2. CASE d # c
      <3>1. tx'[d] = tx[d] /\ CallSound(d)
        BY <1>3, <2>2 DEF DeskInv
      <3>2. tx[d].pc \in ApprovePhases =>
               tx[d].approval # a /\ tx[d].approval \in Approvals
        BY <1>1, <3>1 DEF CallSound, DeskInv, TypeInv, TxShape
      <3> QED
        BY <1>1, <3>1, <3>2 DEF CallSound
    <2> QED
      BY <2>1, <2>2
  <1>6. RowsSound' /\ AnswersNameTheFill'
    BY <1>1 DEF DeskInv, RowsSound, AnswersNameTheFill
  <1>7. DealsSound'
    BY <1>1 DEF DeskInv, DealsSound
  <1>8. OrdersSound'
    BY <1>1 DEF DeskInv, OrdersSound, OrdersOfApproval
  <1> QED
    BY <1>2, <1>4, <1>5, <1>6, <1>7, <1>8 DEF DeskInv

-----------------------------------------------------------------------------
(* The steps of the desk *)

\* A step that touches neither transactions nor the rows they have read.
LEMMA DeskKeepsCalls ==
  ASSUME DeskInv, UNCHANGED tx,
         \A c \in Clients : CallSound(c)'
  PROVE  LocksHold' /\ \A c \in Clients : CallSound(c)'
  BY DEF DeskInv, LocksHold, HoldsPosition

\* A replay answers with an order that is there.
LEMMA ReplaySound ==
  ASSUME DeskInv, TypeInv', NEW a \in Approvals, NEW k \in Keys, ApproveReplay(a, k)
  PROVE  DeskInv'
  <1>1. PICK o \in OrdersOfApproval(a) : Tell(a, k, o)
    BY DEF ApproveReplay, OrdersOfKey, OrdersOfApproval, SameRequest
  <1>2. UNCHANGED <<status, deal, orders, position, sells, bought, sold, tx>>
    BY DEF ApproveReplay, rows
  <1>3. o \in orders /\ o.approval = a
    BY DEF OrdersOfApproval
  <1>4. \A c \in Clients : CallSound(c)'
    BY <1>2 DEF DeskInv, CallSound
  <1>5. LocksHold' /\ \A c \in Clients : CallSound(c)'
    BY <1>2, <1>4, DeskKeepsCalls
  <1>6. RowsSound' /\ DealsSound' /\ OrdersSound'
    BY <1>2 DEF DeskInv, RowsSound, DealsSound, OrdersSound, OrdersOfApproval
  <1>7. answers' = answers \cup {[approval |-> a, key |-> k, order |-> o]}
    BY <1>1 DEF Tell
  <1>8. \A x \in answers' : x.order \in orders' /\ x.order.approval = x.approval
    BY <1>2, <1>3, <1>7 DEF DeskInv, AnswersNameTheFill
  <1>9. \A x, y \in answers' : x.approval = y.approval => x.order = y.order
    BY <1>6, <1>8 DEF OrdersSound, OrdersOfApproval, TypeInv, TypeOK, Answer
  <1> QED
    BY <1>5, <1>6, <1>8, <1>9 DEF DeskInv, AnswersNameTheFill

\* A rejection takes a pending approval that no call has locked.
LEMMA RejectSound ==
  ASSUME DeskInv, TypeInv', NEW a \in Approvals, Reject(a)
  PROVE  DeskInv'
  <1>1. /\ status[a] = "pending"
        /\ \A b \in Approvals : status'[b] = IF b = a THEN "rejected" ELSE status[b]
        /\ UNCHANGED <<deal, orders, position, sells, bought, sold, answers, tx>>
    BY DEF Reject, DeskInv, TypeInv, TypeOK
  <1>2. ASSUME NEW c \in Clients PROVE CallSound(c)'
    <2>1. tx[c].pc \in ApprovePhases =>
             tx[c].approval # a /\ tx[c].approval \in Approvals
      BY DEF Reject, ApprovalFree, HoldsApproval, DeskInv, TypeInv, TxShape
    <2> QED
      BY <1>1, <2>1 DEF DeskInv, CallSound
  <1>3. LocksHold' /\ \A c \in Clients : CallSound(c)'
    BY <1>1, <1>2, DeskKeepsCalls
  <1>4. RowsSound' /\ AnswersNameTheFill'
    BY <1>1 DEF DeskInv, RowsSound, AnswersNameTheFill
  <1>5. DealsSound' /\ OrdersSound'
    BY <1>1 DEF DeskInv, DealsSound, OrdersSound, OrdersOfApproval
  <1> QED
    BY <1>3, <1>4, <1>5 DEF DeskInv

\* The settings and the clock are no part of the invariant.
LEMMA QuietSound ==
  ASSUME DeskInv, TypeInv', UNCHANGED <<rows, answers, tx>>
  PROVE  DeskInv'
  <1>1. \A c \in Clients : CallSound(c)'
    BY DEF DeskInv, CallSound, rows
  <1>2. LocksHold' /\ \A c \in Clients : CallSound(c)'
    BY <1>1, DeskKeepsCalls
  <1> QED
    BY <1>2, RowsKept DEF DeskInv

\* Every step that opens or ends no transaction keeps the invariant.
LEMMA DeskSound ==
  ASSUME DeskInv, Desk
  PROVE  DeskInv'
  <1>1. TypeInv'
    BY DeskType DEF DeskInv
  <1>2. ASSUME NEW on, SetKillSwitch(on) \/ SetAveraging(on) \/ Tick
        PROVE  DeskInv'
    BY <1>1, <1>2, QuietSound DEF SetKillSwitch, SetAveraging, Tick
  <1> QED
    BY <1>1, <1>2, ReplaySound, RejectSound DEF Desk

\* Every step of an open transaction keeps the invariant.
LEMMA AdvanceSound ==
  ASSUME DeskInv, NEW c \in Clients, Advance(c)
  PROVE  DeskInv'
  <1>1. CASE ApproveFund(c)
    <2>1. tx[c].pc \in ApprovePhases
      BY <1>1 DEF ApproveFund, ApprovePhases
    <2>2. Proceed(c, "funded") \/ Rollback(c)
      BY <1>1 DEF ApproveFund
    <2> QED
      BY <2>1, <2>2, ProceedSound, RollbackSound
  <1>2. CASE ApproveInsertOrder(c)
    <2>1. tx[c].pc \in ApprovePhases
      BY <1>2 DEF ApproveInsertOrder, ApprovePhases
    <2>2. Proceed(c, "ordered") \/ Rollback(c)
      BY <1>2 DEF ApproveInsertOrder
    <2> QED
      BY <2>1, <2>2, ProceedSound, RollbackSound
  <1>3. CASE ApproveTakePosition(c)
    BY <1>3, TakePositionSound
  <1>4. CASE ApproveCommit(c)
    BY <1>4, ApproveCommitSound
  <1>5. CASE ExitCommit(c)
    BY <1>5, ExitCommitSound
  <1>6. CASE DecideHold(c)
    BY <1>6, RollbackSound DEF DecideHold
  <1>7. ASSUME NEW a \in Approvals, NEW q \in Quantities, NEW p \in Prices,
               Generate(c, a, q, p)
        PROVE  DeskInv'
    BY <1>7, GenerateSound
  <1> QED
    BY <1>1, <1>2, <1>3, <1>4, <1>5, <1>6, <1>7 DEF Advance

\* The invariant is inductive.
LEMMA NextDeskInv == DeskInv /\ [Next]_vars => DeskInv'
  <1> SUFFICES ASSUME DeskInv, [Next]_vars PROVE DeskInv'
    OBVIOUS
  <1>1. CASE Desk
    BY <1>1, DeskSound
  <1>2. ASSUME NEW c \in Clients, Call(c)
        PROVE  DeskInv'
    BY <1>2, DecideSound, ApproveLockSound, ExitLockSound DEF Call
  <1>3. ASSUME NEW c \in Clients, Advance(c)
        PROVE  DeskInv'
    BY <1>3, AdvanceSound
  <1>4. ASSUME NEW c \in Clients, Abort(c)
        PROVE  DeskInv'
    BY <1>4, RollbackSound DEF Abort
  <1>5. CASE UNCHANGED vars
    <2>1. TypeInv'
      BY <1>5, NextTypeInv DEF DeskInv
    <2> QED
      BY <1>5, <2>1, QuietSound DEF vars
  <1> QED
    BY <1>1, <1>2, <1>3, <1>4, <1>5 DEF Next

-----------------------------------------------------------------------------
(* What the steps do to the rows *)

\* Four kinds of steps write rows.
LEMMA RowSteps ==
  ASSUME [Next]_vars
  PROVE  \/ UNCHANGED rows
         \/ \E c \in Clients, a \in Approvals, q \in Quantities, p \in Prices :
               Generate(c, a, q, p)
         \/ \E a \in Approvals : Reject(a)
         \/ \E c \in Clients : /\ tx[c].pc = "placed" /\ ~PositionClash(c)
                               /\ Fill(c) /\ Finish(c)
         \/ \E c \in Clients : ExitCommit(c)
  BY DEF Next, Desk, ApproveReplay, SetKillSwitch, SetAveraging, Tick, Call,
         Decide, ApproveLock, ExitLock, Advance, DecideHold, ApproveFund,
         ApproveInsertOrder, ApproveTakePosition, ApproveCommit, Abort, Rollback,
         Proceed, vars

\* A step that changes a position belongs to a call that has locked its row, or
\* makes the row.  It raises the version, and moves the quantity by what it
\* bought or sold.
LEMMA PositionSteps ==
  ASSUME DeskInv, [Next]_vars, NEW i \in Instruments
  PROVE  /\ position'[i].qty - position[i].qty
              = (bought'[i] - bought[i]) - (sold'[i] - sold[i])
         /\ position'[i].version >= position[i].version
         /\ position'[i] # position[i] =>
               /\ position'[i].version > position[i].version
               /\ position[i].version = 0 \/ \E c \in Clients : HoldsPosition(c, i)
  <1>1. /\ position[i] \in PositionRow /\ bought[i] \in Nat /\ sold[i] \in Nat
        /\ position \in [Instruments -> PositionRow]
        /\ bought \in [Instruments -> Nat] /\ sold \in [Instruments -> Nat]
    BY DEF DeskInv, TypeInv, TypeOK
  <1>2. position[i].qty \in Nat /\ position[i].version \in Nat
    BY <1>1 DEF PositionRow
  <1>3. CASE position'[i] = position[i] /\ bought'[i] = bought[i] /\ sold'[i] = sold[i]
    BY <1>1, <1>2, <1>3
  <1>4. ASSUME NEW c \in Clients, tx[c].pc = "placed", ~PositionClash(c), Fill(c),
               tx[c].instr = i
        PROVE  /\ position'[i].qty = position[i].qty + tx[c].qty
               /\ position'[i].version = position[i].version + 1
               /\ bought'[i] = bought[i] + tx[c].qty /\ sold' = sold
               /\ tx[c].qty \in Nat
               /\ position[i].version = 0 \/ HoldsPosition(c, i)
    <2>1. tx[c].qty \in Nat
      BY DEF DeskInv, TypeInv, TypeOK, Transaction
    <2>2. tx[c].seen.version = position[i].version
      BY <1>4, FillMeetsPosition
    <2> QED
      BY <1>4, <2>1, <2>2, FillEffect DEF HoldsPosition
  <1>5. ASSUME NEW c \in Clients, ExitCommit(c), tx[c].instr = i
        PROVE  /\ position'[i].qty = position[i].qty - tx[c].qty
               /\ position'[i].version = position[i].version + 1
               /\ sold'[i] = sold[i] + tx[c].qty /\ bought' = bought
               /\ tx[c].qty \in Nat
               /\ HoldsPosition(c, i)
    <2>1. tx[c].qty \in Nat /\ HoldsPosition(c, i)
      BY <1>5 DEF DeskInv, TypeInv, TypeOK, Transaction, ExitCommit, HoldsPosition
    <2>2. /\ position' = [position EXCEPT ![i] =
               [position[i] EXCEPT !.qty = position[i].qty - tx[c].qty,
                                   !.version = position[i].version + 1]]
          /\ sold' = [sold EXCEPT ![i] = sold[i] + tx[c].qty]
          /\ bought' = bought
      BY <1>5, ExitEffect
    <2> QED
      BY <1>1, <2>1, <2>2 DEF PositionRow
  <1>6. ASSUME NEW c \in Clients, tx[c].pc = "placed", ~PositionClash(c), Fill(c)
        PROVE  tx[c].instr # i => UNCHANGED <<position[i], bought[i], sold[i]>>
    BY <1>6, FillEffect
  <1>7. ASSUME NEW c \in Clients, ExitCommit(c)
        PROVE  tx[c].instr # i => UNCHANGED <<position[i], bought[i], sold[i]>>
    BY <1>1, <1>7, ExitEffect
  <1>8. UNCHANGED rows => UNCHANGED <<position[i], bought[i], sold[i]>>
    BY DEF rows
  <1>9. ASSUME NEW c \in Clients, NEW a \in Approvals, NEW q \in Quantities,
               NEW p \in Prices, Generate(c, a, q, p)
        PROVE  UNCHANGED <<position[i], bought[i], sold[i]>>
    BY <1>9 DEF Generate
  <1>10. ASSUME NEW a \in Approvals, Reject(a)
         PROVE  UNCHANGED <<position[i], bought[i], sold[i]>>
    BY <1>10 DEF Reject
  <1>11. ASSUME NEW c \in Clients, tx[c].pc = "placed", ~PositionClash(c), Fill(c),
                tx[c].instr = i
         PROVE  /\ position'[i].qty - position[i].qty
                     = (bought'[i] - bought[i]) - (sold'[i] - sold[i])
                /\ position'[i].version > position[i].version
                /\ position[i].version = 0 \/ \E d \in Clients : HoldsPosition(d, i)
    BY <1>1, <1>2, <1>4, <1>11
  <1>12. ASSUME NEW c \in Clients, ExitCommit(c), tx[c].instr = i
         PROVE  /\ position'[i].qty - position[i].qty
                     = (bought'[i] - bought[i]) - (sold'[i] - sold[i])
                /\ position'[i].version > position[i].version
                /\ position[i].version = 0 \/ \E d \in Clients : HoldsPosition(d, i)
    BY <1>1, <1>2, <1>5, <1>12
  <1>13. \/ UNCHANGED <<position[i], bought[i], sold[i]>>
         \/ \E c \in Clients : /\ tx[c].pc = "placed" /\ ~PositionClash(c) /\ Fill(c)
                               /\ tx[c].instr = i
         \/ \E c \in Clients : ExitCommit(c) /\ tx[c].instr = i
    BY <1>6, <1>7, <1>8, <1>9, <1>10, RowSteps
  <1>14. position'[i].version > position[i].version =>
            position'[i].version >= position[i].version
    <2>1. position'[i].version \in Nat
      BY NextTypeInv DEF DeskInv, TypeInv, TypeOK, PositionRow
    <2> QED
      BY <1>2, <2>1
  <1> QED
    BY <1>3, <1>11, <1>12, <1>13, <1>14

\* An order comes with the approval of its approval.
LEMMA OrderSteps ==
  ASSUME DeskInv, [Next]_vars, NEW a \in Approvals
  PROVE  \/ /\ OrdersOfApproval(a)' = OrdersOfApproval(a)
            /\ (status'[a] = "approved") <=> (status[a] = "approved")
         \/ OrdersOfApproval(a)' # {} /\ status'[a] = "approved"
  <1>1. status \in [Approvals -> Statuses]
    BY DEF DeskInv, TypeInv, TypeOK
  <1>2. ASSUME NEW c \in Clients, NEW b \in Approvals, NEW q \in Quantities,
               NEW p \in Prices, Generate(c, b, q, p)
        PROVE  /\ OrdersOfApproval(a)' = OrdersOfApproval(a)
               /\ (status'[a] = "approved") <=> (status[a] = "approved")
    BY <1>1, <1>2 DEF Generate, OrdersOfApproval
  <1>3. ASSUME NEW b \in Approvals, Reject(b)
        PROVE  /\ OrdersOfApproval(a)' = OrdersOfApproval(a)
               /\ (status'[a] = "approved") <=> (status[a] = "approved")
    BY <1>1, <1>3 DEF Reject, OrdersOfApproval
  <1>4. ASSUME NEW c \in Clients, tx[c].pc = "placed", ~PositionClash(c), Fill(c)
        PROVE  \/ OrdersOfApproval(a)' = OrdersOfApproval(a) /\ status'[a] = status[a]
               \/ OrdersOfApproval(a)' # {} /\ status'[a] = "approved"
    BY <1>1, <1>4, FillEffect DEF Fill, OrdersOfApproval
  <1>5. ASSUME NEW c \in Clients, ExitCommit(c)
        PROVE  OrdersOfApproval(a)' = OrdersOfApproval(a) /\ status'[a] = status[a]
    BY <1>5 DEF ExitCommit, OrdersOfApproval
  <1>6. UNCHANGED rows =>
          OrdersOfApproval(a)' = OrdersOfApproval(a) /\ status'[a] = status[a]
    BY DEF rows, OrdersOfApproval
  <1> QED
    BY <1>2, <1>3, <1>4, <1>5, <1>6, RowSteps

-----------------------------------------------------------------------------
(* What holds of the desk alone *)

\* No exit has used the present version of its position in a key.
KeysFresh == \A x \in sells : x.version < position[x.instr].version

IInv ==
    /\ DeskInv
    /\ KeysFresh
    /\ HoldingsConserved
    /\ ApprovedIffFilled

\* IInv holds at the start.
LEMMA InitIInv == Init => IInv
  BY InitDeskInv DEF Init, IInv, KeysFresh, HoldingsConserved, ApprovedIffFilled,
                     OrdersOfApproval, NoPosition

\* The version of a sold row is past the one in the key of the sale.
LEMMA KeysKept ==
  ASSUME IInv, [Next]_vars
  PROVE  KeysFresh'
  <1>1. ASSUME NEW x \in sells PROVE x.version < position'[x.instr].version
    <2>1. x.instr \in Instruments /\ x.version \in Nat
      BY DEF IInv, DeskInv, TypeInv, TypeOK, SellKey
    <2>2. /\ position[x.instr].version \in Nat
          /\ position'[x.instr].version \in Nat
      BY <2>1, NextTypeInv DEF IInv, DeskInv, TypeInv, TypeOK, PositionRow
    <2> QED
      BY <2>1, <2>2, PositionSteps DEF IInv, KeysFresh
  <1>2. ASSUME NEW c \in Clients, ExitCommit(c)
        PROVE  KeysFresh'
    <2> DEFINE i == tx[c].instr
               sale == [instr |-> i, version |-> position[i].version,
                        qty |-> tx[c].qty]
    <2>1. /\ i \in Instruments
          /\ position' = [position EXCEPT ![i] =
               [position[i] EXCEPT !.qty = position[i].qty - tx[c].qty,
                                   !.version = position[i].version + 1]]
          /\ sells' = sells \cup {sale}
      BY <1>2, ExitEffect DEF IInv
    <2>2. /\ position[i].version \in Nat
          /\ position'[i].version = position[i].version + 1
      BY <2>1 DEF IInv, DeskInv, TypeInv, TypeOK, PositionRow
    <2>3. sale.instr = i /\ sale.version = position[i].version
      OBVIOUS
    <2>4. sale.version < position'[sale.instr].version
      BY <2>2, <2>3
    <2> QED
      BY <1>1, <2>1, <2>4 DEF KeysFresh
  <1>3. UNCHANGED sells => KeysFresh'
    BY <1>1 DEF KeysFresh
  <1> QED
    BY <1>2, <1>3, RowSteps DEF rows, Generate, Reject, Fill

\* The invariant is inductive.
LEMMA NextIInv == IInv /\ [Next]_vars => IInv'
  <1> SUFFICES ASSUME IInv, [Next]_vars PROVE IInv'
    OBVIOUS
  <1>1. DeskInv'
    BY NextDeskInv DEF IInv
  <1>2. HoldingsConserved'
    <2> SUFFICES ASSUME NEW i \in Instruments
                 PROVE  position'[i].qty = bought'[i] - sold'[i]
      BY DEF HoldingsConserved
    <2>1. /\ position[i].qty \in Nat /\ position'[i].qty \in Nat
          /\ bought[i] \in Nat /\ bought'[i] \in Nat /\ sold[i] \in Nat /\ sold'[i] \in Nat
      BY <1>1 DEF IInv, DeskInv, TypeInv, TypeOK, PositionRow
    <2>2. /\ position'[i].qty - position[i].qty
               = (bought'[i] - bought[i]) - (sold'[i] - sold[i])
          /\ position[i].qty = bought[i] - sold[i]
      BY PositionSteps DEF IInv, HoldingsConserved
    <2> QED
      BY <2>1, <2>2
  <1>3. ApprovedIffFilled'
    BY <1>1, OrderSteps DEF IInv, DeskInv, OrdersSound, ApprovedIffFilled
  <1> QED
    BY <1>1, <1>2, <1>3, KeysKept DEF IInv

\* IInv holds in every reachable state of the desk.
THEOREM Invariance == Spec => []IInv
  BY InitIInv, NextIInv, PTL DEF Spec

-----------------------------------------------------------------------------
(* Safety *)

\* An approval is approved exactly when it has an order, and has at most one,
\* however approvals, rejections and retries overlap.
THEOREM ApprovedIffFilledHolds == Spec => []ApprovedIffFilled
  BY Invariance, PTL DEF IInv

\* No interleaving of fills and exits loses an update of a Position row.
THEOREM HoldingsConservedHolds == Spec => []HoldingsConserved
  BY Invariance, PTL DEF IInv

\* Every success that a client is told of names the one order of its approval.
THEOREM AnswersNameTheFillHolds == Spec => []AnswersNameTheFill
  BY Invariance, PTL DEF IInv, DeskInv

\* An exit never meets its own unique key among the sales already made.
THEOREM ExitKeysFreshHolds == Spec => []ExitKeysFresh
  <1>1. IInv => ExitKeysFresh
    <2> SUFFICES ASSUME IInv, NEW c \in Clients, tx[c].pc = "exiting",
                        ExitKey(c) \in sells
                 PROVE  FALSE
      BY DEF ExitKeysFresh
    <2>1. tx[c].instr \in Instruments /\ tx[c].seen = position[tx[c].instr]
      BY DEF IInv, DeskInv, TypeInv, TxShape, CallSound
    <2>2. position[tx[c].instr].version < position[tx[c].instr].version
      BY <2>1 DEF IInv, KeysFresh, ExitKey
    <2>3. position[tx[c].instr].version \in Nat
      BY <2>1 DEF IInv, DeskInv, TypeInv, TypeOK, PositionRow
    <2> QED
      BY <2>2, <2>3
  <1> QED
    BY <1>1, Invariance, PTL

-----------------------------------------------------------------------------
(* What a step may never do *)

\* A fill of a position belongs to a transaction that saw what is there.
LEMMA BuySteps ==
  ASSUME DeskInv, [Next]_vars, NEW i \in Instruments, bought'[i] > bought[i]
  PROVE  \E c \in Clients : /\ tx[c].pc = "placed" /\ tx'[c].pc = "idle"
                            /\ tx[c].instr = i
                            /\ tx[c].seen.qty = position[i].qty
  <1>1. bought[i] \in Nat
    BY DEF DeskInv, TypeInv, TypeOK
  <1>2. PICK c \in Clients : /\ tx[c].pc = "placed" /\ ~PositionClash(c)
                             /\ Fill(c) /\ Finish(c)
    BY <1>1, RowSteps DEF rows, Generate, Reject, ExitCommit
  <1>3. tx[c].instr = i
    BY <1>1, <1>2, FillEffect
  <1>4. tx'[c].pc = "idle"
    BY <1>2, FinishOne DEF DeskInv
  <1>5. tx[c].seen.qty = position[i].qty
    BY <1>2, <1>3, FillMeetsPosition
  <1> QED
    BY <1>2, <1>3, <1>4, <1>5

\* A fill adds to a position only what its transaction saw to be added to.
THEOREM FillsMeetThePosition == Spec => FillsMeetThePositionTheySaw
  <1>1. IInv /\ [Next]_vars =>
          [\A i \in Instruments :
             bought'[i] > bought[i] /\ position[i].qty > 0 =>
                \E c \in Clients : /\ tx[c].pc = "placed" /\ tx'[c].pc = "idle"
                                   /\ tx[c].instr = i
                                   /\ tx[c].seen.qty = position[i].qty]_vars
    BY BuySteps DEF IInv
  <1> QED
    BY <1>1, Invariance, PTL DEF Spec, FillsMeetThePositionTheySaw

\* Which steps decide an approval: each finds it undecided.
LEMMA StatusSteps ==
  ASSUME DeskInv, [Next]_vars, NEW a \in Approvals,
         status[a] \in {"approved", "rejected", "expired"}
  PROVE  status'[a] = status[a]
  <1>1. CASE UNCHANGED status
    BY <1>1
  <1>2. ASSUME NEW c \in Clients, NEW b \in Approvals, NEW q \in Quantities,
               NEW p \in Prices, Generate(c, b, q, p)
        PROVE  status'[a] = status[a]
    BY <1>2 DEF Generate, DeskInv, TypeInv, TypeOK
  <1>3. ASSUME NEW b \in Approvals, Reject(b)
        PROVE  status'[a] = status[a]
    BY <1>3 DEF Reject, DeskInv, TypeInv, TypeOK
  <1>4. ASSUME NEW c \in Clients, tx[c].pc = "placed", ~PositionClash(c), Fill(c)
        PROVE  status'[a] = status[a]
    BY <1>4, FillEffect DEF DeskInv, TypeInv, TypeOK
  <1>5. UNCHANGED rows \/ (\E c \in Clients : ExitCommit(c)) => UNCHANGED status
    BY DEF rows, ExitCommit
  <1> QED
    BY <1>1, <1>2, <1>3, <1>4, <1>5, RowSteps

\* A decision on an approval is final.
THEOREM DecidedOnceHolds == Spec => DecidedOnce
  <1>1. IInv /\ [Next]_vars =>
          [\A a \in Approvals :
             status[a] \in {"approved", "rejected", "expired"} =>
                status'[a] = status[a]]_vars
    BY StatusSteps DEF IInv
  <1> QED
    BY <1>1, Invariance, PTL DEF Spec, DecidedOnce

-----------------------------------------------------------------------------
(* The desk implements Brokerage *)

Holding == [i \in Instruments |-> position[i].qty]

\* A fill is FillOf of its approval in Brokerage.
LEMMA FillImplements ==
  ASSUME DeskInv, NEW c \in Clients, tx[c].pc = "placed", ~PositionClash(c), Fill(c)
  PROVE  \E a \in Approvals : B!FillOf(a)
  <1>0. PICK a \in Approvals, i \in Instruments : a = tx[c].approval /\ i = tx[c].instr
    BY FillEffect
  <1>1. /\ a \in Approvals /\ i \in Instruments /\ i = InstrumentOf[a]
        /\ status[a] = "pending"
        /\ status' = [status EXCEPT ![a] = "approved"]
        /\ \A j \in Instruments : j # i => position'[j] = position[j]
        /\ position'[i].qty = position[i].qty + tx[c].qty
        /\ UNCHANGED deal
    BY <1>0, FillEffect
  <1>2. tx[c].qty = deal[a].qty
    BY <1>0 DEF DeskInv, CallSound, ApprovePhases
  <1>3. Holding' = [Holding EXCEPT ![InstrumentOf[a]] = @ + deal[a].qty]
    BY <1>1, <1>2 DEF Holding
  <1>4. cash' = cash - deal[a].qty * (deal[a].price + Spread)
    BY <1>0, <1>2 DEF Fill, Cost, Debit
  <1> QED
    BY <1>1, <1>3, <1>4 DEF B!FillOf, Holding

\* An exit is a Sell of its instrument in Brokerage.
LEMMA ExitImplements ==
  ASSUME DeskInv, NEW c \in Clients, ExitCommit(c)
  PROVE  \E i \in Instruments : B!Sell(i)
  <1>0. PICK i \in Instruments, q \in 1 .. position[tx[c].instr].qty :
           i = tx[c].instr /\ q = tx[c].qty
    BY ExitEffect
  <1>1. /\ i \in Instruments /\ q \in 1 .. position[i].qty
        /\ tx[c].seen = position[i] /\ position[i].version # 0
        /\ position' = [position EXCEPT ![i] =
              [position[i] EXCEPT !.qty = position[i].qty - q,
                                  !.version = position[i].version + 1]]
        /\ UNCHANGED <<status, deal>>
    BY <1>0, ExitEffect DEF ExitCommit
  <1>2. position \in [Instruments -> PositionRow]
    BY DEF DeskInv, TypeInv, TypeOK
  <1>3. Holding' = [Holding EXCEPT ![i] = @ - q]
    BY <1>1, <1>2 DEF Holding, PositionRow
  <1>4. position[i].price \in Nat /\ position[i].price >= Spread
    BY <1>1, <1>2 DEF DeskInv, RowsSound, PositionRow
  <1>5. q \in Nat /\ position[i].price - Spread \in Nat /\ cash \in Int
    BY <1>1, <1>2, <1>4, DeskAssumption DEF DeskInv, TypeInv, TypeOK, PositionRow
  <1>6. cash' >= cash
    <2>1. \A m, n \in Nat : m * n \in Nat
      OBVIOUS
    <2>2. q * (position[i].price - Spread) \in Nat
      BY <1>5, <2>1
    <2>3. cash' = cash + q * (position[i].price - Spread)
      BY <1>0, <1>1 DEF ExitCommit, Credit
    <2> QED
      BY <1>5, <2>2, <2>3
  <1> QED
    BY <1>1, <1>3, <1>6 DEF B!Sell, Holding

\* A BUY decision is an Offer in Brokerage.
LEMMA GenerateImplements ==
  ASSUME DeskInv, NEW c \in Clients, NEW a \in Approvals, NEW q \in Quantities,
         NEW p \in Prices, Generate(c, a, q, p)
  PROVE  B!Offer(a)
  <1>1. \A b \in Approvals : b # a => deal'[b] = deal[b]
    BY DEF Generate, DeskInv, TypeInv, TypeOK
  <1> QED
    BY <1>1 DEF Generate, B!Offer

\* A rejection is a Decline in Brokerage.
LEMMA RejectImplements ==
  ASSUME NEW a \in Approvals, Reject(a)
  PROVE  B!Decline(a)
  BY DEF Reject, B!Decline

\* Every step of the desk is a step of Brokerage, or changes nothing in it.
LEMMA StepImplements ==
  ASSUME DeskInv, [Next]_vars
  PROVE  [B!BookNext]_(B!bookVars)
  <1>1. CASE UNCHANGED <<status, deal, position, cash>>
    BY <1>1 DEF B!bookVars
  <1>2. ASSUME NEW c \in Clients, NEW a \in Approvals, NEW q \in Quantities,
               NEW p \in Prices, Generate(c, a, q, p)
        PROVE  B!BookNext
    BY <1>2, GenerateImplements DEF B!BookNext
  <1>3. ASSUME NEW a \in Approvals, Reject(a)
        PROVE  B!BookNext
    BY <1>3, RejectImplements DEF B!BookNext
  <1>4. ASSUME NEW c \in Clients, tx[c].pc = "placed", ~PositionClash(c), Fill(c)
        PROVE  B!BookNext
    BY <1>4, FillImplements DEF B!BookNext
  <1>5. ASSUME NEW c \in Clients, ExitCommit(c)
        PROVE  B!BookNext
    BY <1>5, ExitImplements DEF B!BookNext
  <1>6. UNCHANGED rows => UNCHANGED <<status, deal, position, cash>>
    BY DEF rows
  <1> QED
    BY <1>1, <1>2, <1>3, <1>4, <1>5, <1>6, RowSteps

\* The seeded rows are an empty book.
LEMMA InitImplements == Init => B!BookInit
  BY DEF Init, B!BookInit, NoPosition

\* However the transactions of the callers interleave, the rows change as if
\* each call had run alone at its commit.
THEOREM Implementation == Spec => ImplementsBrokerage
  <1>1. IInv /\ [Next]_vars => [B!BookNext]_(B!bookVars)
    BY StepImplements DEF IInv
  <1> QED
    BY <1>1, InitImplements, Invariance, PTL DEF Spec, ImplementsBrokerage, B!Book

-----------------------------------------------------------------------------
(* The cash check *)

PayPhases == {"funded", "ordered", "placed"}

\* The calls that have passed the cash check and not yet paid.
Paying == {c \in Clients : tx[c].pc \in PayPhases}

\* m is as much as any deal costs.
DealsWithin(m) == \A a \in Approvals : status[a] # "none" => DealCost(a) <= m

\* What n calls overspend at most.
Overspent(n, m) == n * m

\* One of the calls that are about to pay, the one that checked last, can pay
\* from what is left if each call that is not about to pay has overspent by m.
Covered(m) ==
    IF Paying = {}
    THEN cash >= -Overspent(Cardinality(Clients) - 1, m)
    ELSE \E c \in Paying :
            cash >= Cost(c) - Overspent(Cardinality(Clients \ Paying), m)

OverdraftInv == \A m \in Nat : DealsWithin(m) => Covered(m)

\* The cost of a deal is a natural number, and so is what an open call pays.
LEMMA DealCostType ==
  ASSUME TypeInv
  PROVE  /\ \A a \in Approvals : DealCost(a) \in Nat
         /\ \A c \in Paying : Cost(c) \in Nat
  <1>1. ASSUME NEW q \in Nat, NEW p \in Nat PROVE Debit(q, p) \in Nat
    BY DeskAssumption DEF Debit
  <1>2. ASSUME NEW a \in Approvals PROVE deal[a].qty \in Nat /\ deal[a].price \in Nat
    BY DEF TypeInv, TypeOK, Deal
  <1>3. ASSUME NEW c \in Paying PROVE tx[c].qty \in Nat /\ tx[c].approval \in Approvals
    BY DEF TypeInv, TypeOK, TxShape, Transaction, Paying, PayPhases, ApprovePhases
  <1> QED
    BY <1>1, <1>2, <1>3 DEF DealCost, Cost

\* An open call pays what its deal costs.
LEMMA CostWithin ==
  ASSUME DeskInv, NEW m \in Nat, DealsWithin(m), NEW c \in Paying
  PROVE  Cost(c) <= m
  BY DEF DeskInv, CallSound, TypeInv, TxShape, Paying, PayPhases, ApprovePhases,
         DealsWithin, DealCost, Cost

\* One call more overspends by one deal more.
LEMMA OverspentMore ==
  ASSUME NEW n \in Nat, NEW m \in Nat
  PROVE  /\ Overspent(n, m) \in Nat
         /\ Overspent(n + 1, m) = Overspent(n, m) + m
  BY DEF Overspent

\* The calls that are not about to pay can be counted.
LEMMA OthersCount ==
  ASSUME NEW P \in SUBSET Clients
  PROVE  /\ IsFiniteSet(Clients \ P)
         /\ Cardinality(Clients \ P) \in Nat
         /\ \A c \in P : Cardinality(Clients \ (P \ {c})) = Cardinality(Clients \ P) + 1
         /\ Cardinality(Clients) \in Nat
  <1>1. IsFiniteSet(Clients \ P)
    BY DeskAssumption, FS_Subset, Clients \ P \in SUBSET Clients
  <1>2. ASSUME NEW c \in P
        PROVE  Cardinality(Clients \ (P \ {c})) = Cardinality(Clients \ P) + 1
    <2>1. Clients \ (P \ {c}) = (Clients \ P) \cup {c} /\ c \notin Clients \ P
      OBVIOUS
    <2> QED
      BY <1>1, <2>1, FS_AddElement
  <1> QED
    BY <1>1, <1>2, FS_CardinalityType, DeskAssumption

\* There is a call.
LEMMA SomeClients == Cardinality(Clients) - 1 \in Nat
  <1>1. Cardinality(Clients) \in Nat /\ Cardinality(Clients) # 0
    BY FS_CardinalityType, FS_EmptySet, DeskAssumption
  <1> QED
    BY <1>1

\* Money that comes in leaves the calls covered.
LEMMA CoveredKept ==
  ASSUME TypeInv, NEW m \in Nat, Covered(m), Paying' = Paying, cash' \in Int,
         cash' >= cash, \A c \in Paying : Cost(c)' = Cost(c)
  PROVE  Covered(m)'
  <1>1. Paying \subseteq Clients /\ cash \in Int
    BY DEF Paying, TypeInv, TypeOK
  <1>2. Cardinality(Clients) - 1 \in Nat /\ Cardinality(Clients \ Paying) \in Nat
    BY <1>1, OthersCount, SomeClients
  <1>3. /\ Overspent(Cardinality(Clients) - 1, m) \in Nat
        /\ Overspent(Cardinality(Clients \ Paying), m) \in Nat
    BY <1>2, OverspentMore
  <1>4. \A c \in Paying : Cost(c) \in Nat
    BY DealCostType
  <1>5. CASE Paying = {}
    <2>1. cash >= -Overspent(Cardinality(Clients) - 1, m)
      BY <1>5 DEF Covered
    <2>2. cash' >= -Overspent(Cardinality(Clients) - 1, m)
      BY <1>1, <1>3, <2>1
    <2> QED
      BY <1>5, <2>2 DEF Covered
  <1>6. CASE Paying # {}
    <2>1. PICK c \in Paying :
             cash >= Cost(c) - Overspent(Cardinality(Clients \ Paying), m)
      BY <1>6 DEF Covered
    <2>2. Cost(c)' = Cost(c) /\ Cost(c) \in Nat
      BY <1>4
    <2>3. cash' >= Cost(c)' - Overspent(Cardinality(Clients \ Paying), m)
      BY <1>1, <1>3, <2>1, <2>2
    <2> QED
      BY <1>6, <2>3 DEF Covered
  <1> QED
    BY <1>5, <1>6

\* A call that passes the check can pay, whatever the others do.
LEMMA CoveredByCheck ==
  ASSUME NEW m \in Nat, NEW c \in Clients, c \in Paying', cash' \in Int,
         Cost(c)' \in Int, Cost(c)' <= cash'
  PROVE  Covered(m)'
  <1>1. Paying' \subseteq Clients
    BY DEF Paying
  <1>2. Overspent(Cardinality(Clients \ Paying'), m) \in Nat
    BY <1>1, OthersCount, OverspentMore
  <1>3. cash' >= Cost(c)' - Overspent(Cardinality(Clients \ Paying'), m)
    BY <1>2
  <1> QED
    BY <1>3 DEF Covered

\* A call that ends takes its cost at most; the others are covered with one
\* more that may have overspent.
LEMMA CoveredAfterOne ==
  ASSUME DeskInv, NEW m \in Nat, DealsWithin(m), Covered(m), NEW c \in Paying,
         Paying' = Paying \ {c}, cash' \in Int, cash' >= cash - Cost(c),
         \A d \in Paying' : Cost(d)' = Cost(d)
  PROVE  Covered(m)'
  <1> DEFINE n == Cardinality(Clients \ Paying)
  <1>1. Paying \subseteq Clients /\ cash \in Int /\ TypeInv
    BY DEF Paying, DeskInv, TypeInv, TypeOK
  <1>2. n \in Nat /\ Cardinality(Clients \ Paying') = n + 1
    BY <1>1, OthersCount
  <1>3. \A d \in Paying : Cost(d) \in Nat /\ Cost(d) <= m
    BY <1>1, DealCostType, CostWithin
  <1>4. PICK w \in Paying : cash >= Cost(w) - Overspent(n, m)
    BY DEF Covered
  <1>5. Overspent(n, m) \in Nat /\ Overspent(n + 1, m) = Overspent(n, m) + m
    BY <1>2, OverspentMore
  <1>6. CASE Paying' = {}
    <2>1. w = c /\ Clients \ Paying' = Clients
      BY <1>6
    <2>2. Cardinality(Clients) - 1 = n
      BY <1>2, <2>1
    <2>3. cash' >= -Overspent(n, m)
      BY <1>1, <1>3, <1>4, <1>5, <2>1
    <2> QED
      BY <1>6, <2>2, <2>3 DEF Covered
  <1>7. CASE Paying' # {}
    <2> HIDE DEF n
    <2>1. PICK d \in Paying' : w # c => d = w
      BY <1>7
    <2>2. d \in Paying /\ Cost(d)' = Cost(d)
      BY <2>1
    <2>3. cash' >= Cost(d) - (Overspent(n, m) + m)
      <3>1. CASE w = c
        <4>1. cash' >= -Overspent(n, m)
          BY <1>1, <1>3, <1>4, <1>5, <3>1
        <4> QED
          BY <1>3, <1>5, <2>2, <4>1
      <3>2. CASE w # c
        <4>1. cash >= Cost(d) - Overspent(n, m)
          BY <1>4, <2>1, <3>2
        <4> QED
          BY <1>1, <1>3, <1>5, <2>2, <4>1
      <3> QED
        BY <3>1, <3>2
    <2>4. cash' >= Cost(d)' - Overspent(Cardinality(Clients \ Paying'), m)
      BY <1>2, <1>5, <2>2, <2>3
    <2> QED
      BY <1>7, <2>4 DEF Covered
  <1> QED
    BY <1>6, <1>7


\* The steps of one call, by where they leave it with respect to the check.
LEMMA OverdraftOneCall ==
  ASSUME DeskInv, OverdraftInv, NEW c \in Clients,
         \A d \in Clients : d # c => tx'[d] = tx[d],
         \A a \in Approvals :
            status[a] # "none" => status'[a] # "none" /\ deal'[a] = deal[a],
         cash' \in Int,
         \/ c \notin Paying /\ c \notin Paying' /\ cash' >= cash
         \/ c \in Paying' /\ Cost(c)' \in Int /\ Cost(c)' <= cash'
         \/ c \in Paying /\ c \in Paying' /\ cash' >= cash /\ Cost(c)' = Cost(c)
         \/ c \in Paying /\ c \notin Paying' /\ cash' >= cash - Cost(c)
  PROVE  OverdraftInv'
  <1> SUFFICES ASSUME NEW m \in Nat, DealsWithin(m)'
               PROVE  Covered(m)'
    BY DEF OverdraftInv
  <1>1. DealsWithin(m)
    BY DEF DealsWithin, DealCost
  <1>2. Covered(m) /\ TypeInv
    BY <1>1 DEF OverdraftInv, DeskInv
  <1>3. ASSUME NEW d \in Paying, d # c PROVE Cost(d)' = Cost(d) /\ d \in Paying'
    <2>1. tx'[d] = tx[d] /\ d \in Clients
      BY <1>3 DEF Paying
    <2>2. tx[d].approval \in Approvals /\ status[tx[d].approval] # "none"
      BY <2>1, <1>3 DEF Paying, PayPhases, ApprovePhases, DeskInv, CallSound, TypeInv, TxShape
    <2> QED
      BY <1>3, <2>1, <2>2 DEF Cost, Paying
  <1>4. \A d \in Paying' : d # c => d \in Paying
    BY DEF Paying
  <1>5. CASE c \notin Paying /\ c \notin Paying' /\ cash' >= cash
    BY <1>2, <1>3, <1>4, <1>5, CoveredKept
  <1>6. CASE c \in Paying' /\ Cost(c)' \in Int /\ Cost(c)' <= cash'
    BY <1>6, CoveredByCheck
  <1>7. CASE c \in Paying /\ c \in Paying' /\ cash' >= cash /\ Cost(c)' = Cost(c)
    BY <1>2, <1>3, <1>4, <1>7, CoveredKept
  <1>8. CASE c \in Paying /\ c \notin Paying' /\ cash' >= cash - Cost(c)
    <2>1. Paying' = Paying \ {c} /\ \A d \in Paying' : Cost(d)' = Cost(d)
      BY <1>3, <1>4, <1>8
    <2> QED
      BY <1>1, <1>2, <1>8, <2>1, CoveredAfterOne
  <1> QED
    BY <1>5, <1>6, <1>7, <1>8

\* So do the steps that leave the calls and the deals alone and take no money.
LEMMA OverdraftQuiet ==
  ASSUME DeskInv, OverdraftInv, UNCHANGED <<tx, deal>>, cash' \in Int, cash' >= cash,
         \A a \in Approvals : status[a] # "none" => status'[a] # "none"
  PROVE  OverdraftInv'
  <1> SUFFICES ASSUME NEW m \in Nat, DealsWithin(m)'
               PROVE  Covered(m)'
    BY DEF OverdraftInv
  <1>1. DealsWithin(m)
    BY DEF DealsWithin, DealCost
  <1>2. Covered(m) /\ TypeInv
    BY <1>1 DEF OverdraftInv, DeskInv
  <1>3. Paying' = Paying /\ \A d \in Paying : Cost(d)' = Cost(d)
    BY DEF Paying, Cost
  <1> QED
    BY <1>2, <1>3, CoveredKept

\* Nothing is spent at the start.
LEMMA InitOverdraft == Init => OverdraftInv
  <1> SUFFICES ASSUME Init, NEW m \in Nat PROVE Covered(m)
    BY DEF OverdraftInv
  <1>1. Paying = {}
    BY IdleTxType DEF Init, Paying, PayPhases
  <1>2. Cardinality(Clients) - 1 \in Nat
    BY SomeClients
  <1>3. Overspent(Cardinality(Clients) - 1, m) \in Nat
    BY <1>2, OverspentMore
  <1>4. cash \in Nat
    BY DeskAssumption DEF Init
  <1> QED
    BY <1>1, <1>3, <1>4 DEF Covered

\* Every step of the desk keeps the calls covered.
LEMMA NextOverdraft ==
  ASSUME DeskInv, OverdraftInv, [Next]_vars
  PROVE  OverdraftInv'
  <1>1. /\ tx \in [Clients -> Transaction] /\ cash \in Int /\ TypeInv
        /\ \A c \in Paying : Cost(c) \in Nat
    BY DealCostType DEF DeskInv, TypeInv, TypeOK
  <1>2. ASSUME NEW c \in Clients, Rollback(c)
        PROVE  OverdraftInv'
    <2>1. /\ tx'[c].pc = "idle" /\ UNCHANGED <<cash, status, deal>>
          /\ \A d \in Clients : d # c => tx'[d] = tx[d]
      BY <1>1, <1>2, FinishOne DEF Rollback, rows
    <2>2. c \notin Paying'
      BY <2>1 DEF Paying, PayPhases
    <2> QED
      BY <1>1, <2>1, <2>2, OverdraftOneCall
  <1>3. ASSUME NEW c \in Paying, tx'[c].pc \in PayPhases,
               tx'[c].approval = tx[c].approval, tx'[c].qty = tx[c].qty,
               \A d \in Clients : d # c => tx'[d] = tx[d],
               UNCHANGED <<cash, status, deal>>
        PROVE  OverdraftInv'
    <2>1. c \in Clients /\ c \in Paying' /\ Cost(c)' = Cost(c)
      BY <1>3 DEF Paying, Cost
    <2> QED
      BY <1>1, <1>3, <2>1, OverdraftOneCall
  <1>4. ASSUME NEW c \in Clients, c \notin Paying, tx'[c].pc \notin PayPhases,
               \A d \in Clients : d # c => tx'[d] = tx[d],
               \A a \in Approvals :
                  status[a] # "none" => status'[a] # "none" /\ deal'[a] = deal[a],
               cash' \in Int, cash' >= cash
        PROVE  OverdraftInv'
    BY <1>4, OverdraftOneCall DEF Paying
  <1>5. ASSUME NEW c \in Clients, Call(c)
        PROVE  OverdraftInv'
    <2>1. ASSUME NEW a \in Approvals, NEW k \in Keys, ApproveLock(c, a, k)
          PROVE  tx'[c].pc = "checked"
      BY <1>1, <2>1 DEF ApproveLock, IdleTx
    <2>2. ASSUME NEW i \in Instruments, NEW q \in Quantities, ExitLock(c, i, q)
          PROVE  tx'[c].pc = "exiting"
      BY <1>1, <2>2 DEF ExitLock, IdleTx
    <2>3. ASSUME NEW i \in Instruments, Decide(c, i)
          PROVE  tx'[c].pc = "deciding"
      BY <1>1, <2>3 DEF Decide, IdleTx
    <2>4. tx'[c].pc \in {"checked", "exiting", "deciding"}
      BY <1>5, <2>1, <2>2, <2>3 DEF Call
    <2>5. /\ tx[c].pc = "idle" /\ UNCHANGED <<cash, status, deal>>
          /\ \A d \in Clients : d # c => tx'[d] = tx[d]
      BY <1>1, <1>5 DEF Call, ApproveLock, ExitLock, Decide, rows
    <2>6. c \notin Paying /\ tx'[c].pc \notin PayPhases
      BY <2>4, <2>5 DEF Paying, PayPhases
    <2> QED
      BY <1>1, <1>4, <2>5, <2>6
  <1>6. ASSUME NEW c \in Clients, NEW a \in Approvals, NEW q \in Quantities,
               NEW p \in Prices, Generate(c, a, q, p)
        PROVE  OverdraftInv'
    <2>1. /\ tx[c].pc = "deciding" /\ tx'[c].pc = "idle" /\ cash' = cash
          /\ \A d \in Clients : d # c => tx'[d] = tx[d]
      BY <1>1, <1>6, FinishOne DEF Generate
    <2>2. \A b \in Approvals :
             status[b] # "none" => status'[b] # "none" /\ deal'[b] = deal[b]
      BY <1>1, <1>6 DEF Generate, TypeInv, TypeOK
    <2> QED
      BY <1>1, <1>4, <2>1, <2>2 DEF Paying, PayPhases
  <1>7. ASSUME NEW c \in Clients, ApproveFund(c)
        PROVE  OverdraftInv'
    <2>1. CASE Cost(c) <= cash /\ Proceed(c, "funded")
      <3>1. /\ tx'[c].pc = "funded" /\ UNCHANGED <<cash, status, deal>>
            /\ tx'[c].approval = tx[c].approval /\ tx'[c].qty = tx[c].qty
            /\ \A d \in Clients : d # c => tx'[d] = tx[d]
        BY <1>1, <2>1 DEF Proceed, rows, Transaction
      <3>2. Cost(c)' = Cost(c) /\ Cost(c) \in Int
        BY <1>1, <1>7, <3>1, CostType DEF Cost, ApproveFund, ApprovePhases
      <3>3. c \in Paying'
        BY <3>1 DEF Paying, PayPhases
      <3> QED
        BY <1>1, <2>1, <3>1, <3>2, <3>3, OverdraftOneCall
    <2> QED
      BY <1>2, <1>7, <2>1 DEF ApproveFund
  <1>8. ASSUME NEW c \in Clients, ApproveInsertOrder(c)
        PROVE  OverdraftInv'
    <2>1. CASE Proceed(c, "ordered")
      <3>1. /\ tx'[c].pc = "ordered" /\ UNCHANGED <<cash, status, deal>>
            /\ tx'[c].approval = tx[c].approval /\ tx'[c].qty = tx[c].qty
            /\ \A d \in Clients : d # c => tx'[d] = tx[d]
        BY <1>1, <2>1 DEF Proceed, rows, Transaction
      <3>2. c \in Paying /\ tx'[c].pc \in PayPhases
        BY <1>8, <3>1 DEF ApproveInsertOrder, Paying, PayPhases
      <3> QED
        BY <1>3, <3>1, <3>2
    <2> QED
      BY <1>2, <1>8, <2>1 DEF ApproveInsertOrder
  <1>9. ASSUME NEW c \in Clients, ApproveTakePosition(c)
        PROVE  OverdraftInv'
    <2>1. CASE /\ tx' = [tx EXCEPT ![c].pc = "placed", ![c].seen = position[tx[c].instr]]
               /\ UNCHANGED <<rows, settings, now, answers>>
      <3>1. /\ tx'[c].pc = "placed" /\ UNCHANGED <<cash, status, deal>>
            /\ tx'[c].approval = tx[c].approval /\ tx'[c].qty = tx[c].qty
            /\ \A d \in Clients : d # c => tx'[d] = tx[d]
        BY <1>1, <2>1 DEF rows, Transaction
      <3>2. c \in Paying /\ tx'[c].pc \in PayPhases
        BY <1>9, <3>1 DEF ApproveTakePosition, Paying, PayPhases
      <3> QED
        BY <1>3, <3>1, <3>2
    <2> QED
      BY <1>2, <1>9, <2>1 DEF ApproveTakePosition
  <1>10. ASSUME NEW c \in Clients, ApproveCommit(c)
         PROVE  OverdraftInv'
    <2>1. CASE Fill(c) /\ Finish(c)
      <3>1. /\ tx'[c].pc = "idle" /\ cash' = cash - Cost(c) /\ deal' = deal
            /\ \A d \in Clients : d # c => tx'[d] = tx[d]
        BY <1>1, <2>1, FinishOne DEF Fill
      <3>2. \A b \in Approvals : status[b] # "none" => status'[b] # "none"
        BY <1>1, <2>1 DEF Fill, TypeInv, TypeOK
      <3>3. c \in Paying /\ c \notin Paying'
        BY <1>10, <3>1 DEF ApproveCommit, Paying, PayPhases
      <3>4. cash' \in Int /\ cash' >= cash - Cost(c)
        BY <1>1, <3>1, <3>3
      <3> QED
        BY <3>1, <3>2, <3>3, <3>4, OverdraftOneCall
    <2> QED
      BY <1>2, <1>10, <2>1 DEF ApproveCommit
  <1>11. ASSUME NEW c \in Clients, ExitCommit(c)
         PROVE  OverdraftInv'
    <2>1. /\ tx[c].pc = "exiting" /\ tx'[c].pc = "idle" /\ UNCHANGED <<status, deal>>
          /\ \A d \in Clients : d # c => tx'[d] = tx[d]
      BY <1>1, <1>11, FinishOne DEF ExitCommit
    <2>2. cash' >= cash
      BY <1>11, ExitImplements DEF B!Sell
    <2>3. cash' \in Int
      BY <1>11, ExitCommitType DEF DeskInv, TypeInv, TypeOK
    <2> QED
      BY <1>4, <2>1, <2>2, <2>3 DEF Paying, PayPhases
  <1>12. ASSUME NEW c \in Clients, Advance(c)
         PROVE  OverdraftInv'
    BY <1>2, <1>6, <1>7, <1>8, <1>9, <1>10, <1>11, <1>12 DEF Advance, DecideHold
  <1>13. CASE Desk \/ UNCHANGED vars
    <2>1. UNCHANGED <<tx, deal, cash>>
      BY <1>13 DEF Desk, ApproveReplay, Reject, SetKillSwitch, SetAveraging, Tick, rows, vars
    <2>2. \A b \in Approvals : status[b] # "none" => status'[b] # "none"
      BY <1>1, <1>13
         DEF Desk, ApproveReplay, Reject, SetKillSwitch, SetAveraging, Tick, rows, vars,
             TypeInv, TypeOK
    <2> QED
      BY <1>1, <2>1, <2>2, OverdraftQuiet
  <1> QED
    BY <1>2, <1>5, <1>12, <1>13 DEF Next, Abort

\* A covered ledger is no further below zero than the deals that overlap cost.
LEMMA OverdraftBoundedByInv == DeskInv /\ OverdraftInv => OverdraftBounded
  <1> SUFFICES ASSUME DeskInv, OverdraftInv, NEW a \in Approvals,
                      \A b \in Approvals : DealCost(b) <= DealCost(a)
               PROVE  cash >= -((Cardinality(Clients) - 1) * DealCost(a))
    BY DEF OverdraftBounded
  <1> DEFINE m == DealCost(a)
             n == Cardinality(Clients \ Paying)
             most == Cardinality(Clients) - 1
  <1>1. TypeInv /\ cash \in Int /\ Paying \subseteq Clients
    BY DEF DeskInv, TypeInv, TypeOK, Paying
  <1>2. m \in Nat /\ \A c \in Paying : Cost(c) \in Nat
    BY <1>1, DealCostType
  <1>3. Covered(m)
    BY <1>2 DEF OverdraftInv, DealsWithin
  <1>4. Overspent(most, m) = (Cardinality(Clients) - 1) * DealCost(a)
    BY DEF Overspent
  <1> HIDE DEF m
  <1>5. CASE Paying = {}
    BY <1>3, <1>4, <1>5 DEF Covered
  <1>6. CASE Paying # {}
    <2>1. PICK c \in Paying : cash >= Cost(c) - Overspent(n, m)
      BY <1>3, <1>6 DEF Covered
    <2>2. /\ n \in Nat /\ Cardinality(Clients \ (Paying \ {c})) = n + 1
          /\ Cardinality(Clients) \in Nat
      BY <1>1, OthersCount
    <2>3. n + 1 <= Cardinality(Clients)
      BY <2>2, FS_Subset, DeskAssumption, Clients \ (Paying \ {c}) \in SUBSET Clients
    <2>4. most \in Nat /\ n <= most
      BY <2>2, <2>3
    <2> HIDE DEF n, most
    <2>5. Overspent(n, m) <= Overspent(most, m) /\ Overspent(most, m) \in Nat
      BY <1>2, <2>2, <2>4 DEF Overspent
    <2>6. Overspent(n, m) \in Nat
      BY <1>2, <2>2, OverspentMore
    <2>7. cash >= -Overspent(most, m)
      BY <1>1, <1>2, <2>1, <2>5, <2>6
    <2> QED
      BY <1>4, <2>7
  <1> QED
    BY <1>5, <1>6

\* However calls overlap between the cash check and the commit, the ledger goes
\* below zero by no more than one dearest deal for each call but the last.
THEOREM OverdraftBoundedHolds == Spec => []OverdraftBounded
  <1>1. IInv /\ OverdraftInv /\ [Next]_vars => OverdraftInv'
    BY NextOverdraft DEF IInv
  <1>2. IInv /\ OverdraftInv => OverdraftBounded
    BY OverdraftBoundedByInv DEF IInv
  <1> QED
    BY <1>1, <1>2, InitOverdraft, Invariance, PTL DEF Spec

=============================================================================
