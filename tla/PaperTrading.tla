---------------------------- MODULE PaperTrading ----------------------------
(***************************************************************************)
(* The paper-trading desk of apps/api/app/paper_trading/service.py and the *)
(* write endpoints of main.py: approvals, BUY fills, SELL exits, the kill  *)
(* switch and the averaging policy.                                        *)
(*                                                                         *)
(* Every endpoint runs in one PostgreSQL transaction at READ COMMITTED     *)
(* (`with session.begin()`), so a statement sees what is committed when it *)
(* runs, SELECT ... FOR UPDATE waits for the row's holder, an INSERT waits *)
(* for an uncommitted INSERT of the same unique key, and an exception      *)
(* rolls everything back.  The variables below the line "rows" are the     *)
(* committed rows; tx[c] is what the transaction of client c has locked,   *)
(* read and not yet committed.  A commit publishes its writes at once.     *)
(***************************************************************************)
EXTENDS Integers, FiniteSets

CONSTANTS
    Clients,        \* concurrent API calls (one transaction each)
    Approvals,      \* ids that ApprovalRequest rows may get
    Keys,           \* Idempotency-Key header values
    Instruments,
    InstrumentOf,   \* the instrument of the decision behind each approval
    Quantities,     \* share counts: position sizes and exit sizes
    Prices,         \* decision entry prices
    Spread,         \* slippage, brokerage and tax per share
    InitialCash,
    CapDivisor,     \* max capital per trade is cash / CapDivisor (10 in the code)
    Lifetime,       \* validity of an approval (5 minutes in the code)
    MaxTime,        \* bound of the clock
    KillSettings,   \* what the operator may set the kill switch to, and the
    AveragingSettings, \* averaging policy: BOOLEAN, or less to bound a run
    NoRow           \* an id field that holds nothing

ASSUME DeskAssumption ==
    /\ IsFiniteSet(Clients) /\ Clients # {}
    /\ InstrumentOf \in [Approvals -> Instruments]
    /\ Quantities \subseteq Nat \ {0}
    /\ Prices \subseteq Nat
    /\ Spread \in Nat
    /\ \A p \in Prices : Spread <= p
    /\ InitialCash \in Nat
    /\ CapDivisor \in Nat \ {0}
    /\ Lifetime \in Nat
    /\ MaxTime \in Nat
    /\ KillSettings \subseteq BOOLEAN
    /\ AveragingSettings \subseteq BOOLEAN
    /\ NoRow \notin Approvals \cup Keys \cup Instruments

VARIABLES
    \* rows
    status,      \* ApprovalRequest.status, "none" before the row exists
    deal,        \* size, entry price and expiry of the decision behind it
    orders,      \* BUY Order rows with their IdempotencyRecord
    position,    \* Position rows by instrument; version 0 = no row; price is
                 \* current_price
    sells,       \* unique keys exit:{position}:{version}:{qty} of SELL orders
    bought,      \* sum of the BUY Trade quantities, by instrument
    sold,        \* sum of the SELL Trade quantities, by instrument
    cash,        \* sum of CashLedger.amount
    killSwitch,  \* SystemSetting "kill_switch"
    averaging,   \* SystemSetting "risk_config".allow_position_averaging
    \* the rest
    now,         \* the clock
    answers,     \* what successful approve calls returned
    tx           \* the open transaction of each client

rows == <<status, deal, orders, position, sells, bought, sold, cash>>
settings == <<killSwitch, averaging>>
vars == <<rows, settings, now, answers, tx>>

-----------------------------------------------------------------------------
(* Rows and transactions *)

Statuses == {"none", "pending", "approved", "rejected", "expired"}
Deal == [qty : Nat, price : Nat, expires : Nat]
BuyOrder == [approval : Approvals, key : Keys]
Answer == [approval : Approvals, key : Keys, order : BuyOrder]
PositionRow == [qty : Nat, version : Nat, price : Nat]
SellKey == [instr : Instruments, version : Nat, qty : Nat]

\* Phases of approve_and_fill after the approval row is locked, in order.
ApprovePhases == {"checked", "funded", "ordered", "placed"}
Phases == {"idle", "deciding", "exiting"} \cup ApprovePhases

Transaction ==
    [pc : Phases,
     approval : Approvals \cup {NoRow},
     key : Keys \cup {NoRow},
     instr : Instruments \cup {NoRow},
     since : Nat,                   \* when a decision was begun
     qty : Nat,                     \* shares this call buys or sells
     seen : PositionRow]            \* the position as the ORM loaded it

NoPosition == [qty |-> 0, version |-> 0, price |-> 0]
IdleTx == [pc |-> "idle", approval |-> NoRow, key |-> NoRow, instr |-> NoRow,
           since |-> 0, qty |-> 0, seen |-> NoPosition]

\* price * qty plus slippage, brokerage and tax; all are proportional to qty.
Debit(q, p) == q * (p + Spread)
Credit(q, p) == q * (p - Spread)

TypeOK ==
    /\ status \in [Approvals -> Statuses]
    /\ deal \in [Approvals -> Deal]
    /\ orders \subseteq BuyOrder
    /\ position \in [Instruments -> PositionRow]
    /\ sells \subseteq SellKey
    /\ bought \in [Instruments -> Nat]
    /\ sold \in [Instruments -> Nat]
    /\ cash \in Int
    /\ killSwitch \in BOOLEAN
    /\ averaging \in BOOLEAN
    /\ now \in Nat
    /\ answers \subseteq Answer
    /\ tx \in [Clients -> Transaction]

Init ==
    /\ status = [a \in Approvals |-> "none"]
    /\ deal = [a \in Approvals |-> [qty |-> 0, price |-> 0, expires |-> 0]]
    /\ orders = {}
    /\ position = [i \in Instruments |-> NoPosition]
    /\ sells = {}
    /\ bought = [i \in Instruments |-> 0]
    /\ sold = [i \in Instruments |-> 0]
    /\ cash = InitialCash
    /\ killSwitch = FALSE
    /\ averaging = FALSE
    /\ now = 0
    /\ answers = {}
    /\ tx = [c \in Clients |-> IdleTx]

-----------------------------------------------------------------------------
(* Row locks and reserved unique keys, held until the transaction ends *)

HoldsApproval(c, a) == tx[c].pc \in ApprovePhases /\ tx[c].approval = a

HoldsKey(c, k) == tx[c].pc \in {"ordered", "placed"} /\ tx[c].key = k

\* FOR UPDATE locks nothing when the Position row does not exist yet.
HoldsPosition(c, i) ==
    /\ tx[c].instr = i
    /\ \/ tx[c].pc = "exiting"
       \/ tx[c].pc = "placed" /\ tx[c].seen.version # 0

\* Faulty variants: no row lock at all, and a key that is never given back.
Unlocked(r) == TRUE
KeyFreeOnce(k) ==
    \A c \in Clients : ~HoldsKey(c, k) /\ \A o \in orders : o.key # k

ApprovalFree(a) == \A c \in Clients : ~HoldsApproval(c, a)
KeyFree(k) == \A c \in Clients : ~HoldsKey(c, k)
PositionFree(i) == \A c \in Clients : ~HoldsPosition(c, i)

\* The transaction of c ends, by commit or by rollback.
Finish(c) == tx' = [tx EXCEPT ![c] = IdleTx]
Rollback(c) == Finish(c) /\ UNCHANGED <<rows, settings, now, answers>>

\* The transaction of c goes on to phase ph; nothing is visible yet.
Proceed(c, ph) ==
    /\ tx' = [tx EXCEPT ![c].pc = ph]
    /\ UNCHANGED <<rows, settings, now, answers>>

-----------------------------------------------------------------------------
(* generate_decision *)

\* The decision's first read: an instrument that is held gets no approval.
Decide(c, i) ==
    /\ tx[c].pc = "idle"
    /\ position[i].qty = 0
    /\ tx' = [tx EXCEPT ![c] =
                [IdleTx EXCEPT !.pc = "deciding", !.instr = i, !.since = now]]
    /\ UNCHANGED <<rows, settings, now, answers>>

\* HOLD or REJECT: the decision is recorded, but nothing is offered.
DecideHold(c) == tx[c].pc = "deciding" /\ Rollback(c)

\* BUY: evaluate() of risk/domain.py reads the kill switch and sizes the trade
\* by the cash, and the decision and its approval are committed.  Whether the
\* features and the regime are favourable is left open.
WithinCap(q, p) == q * p * CapDivisor <= cash

Generate(c, a, q, p) ==
    /\ tx[c].pc = "deciding"
    /\ status[a] = "none"
    /\ InstrumentOf[a] = tx[c].instr
    /\ ~killSwitch
    /\ WithinCap(q, p)
    /\ status' = [status EXCEPT ![a] = "pending"]
    /\ deal' = [deal EXCEPT ![a] =
                    [qty |-> q, price |-> p, expires |-> tx[c].since + Lifetime]]
    /\ Finish(c)
    /\ UNCHANGED <<orders, position, sells, bought, sold, cash, settings, now,
                   answers>>

-----------------------------------------------------------------------------
(* approve_and_fill, one action per statement that other transactions can  *)
(* come between                                                            *)

OrdersOfKey(k) == {o \in orders : o.key = k}
OrdersOfApproval(a) == {o \in orders : o.approval = a}
Tell(a, k, o) == answers' = answers \cup {[approval |-> a, key |-> k, order |-> o]}

\* The request_hash of an idempotency record is that of its approval.
\* The faulty variant AnyRequest replays a key without comparing the hash.
AnyRequest(o, a) == TRUE
SameRequest(o, a) == o.approval = a

\* The key was used: the original order, or IDEMPOTENCY_CONFLICT, which is a
\* refusal and changes nothing.  A new key for a filled approval: its order.
ApproveReplay(a, k) ==
    /\ status[a] # "none"
    /\ ApprovalFree(a)
    /\ \/ \E o \in OrdersOfKey(k) : SameRequest(o, a) /\ Tell(a, k, o)
       \/ /\ OrdersOfKey(k) = {}
          /\ \E o \in OrdersOfApproval(a) : Tell(a, k, o)
    /\ UNCHANGED <<rows, settings, now, tx>>

\* Locks the approval row and passes every check up to the kill switch.  A
\* failed check raises ValueError before anything is written, so it leaves no
\* trace; the "expired" that line 453 writes is rolled back with the rest.
ApproveLock(c, a, k) ==
    /\ tx[c].pc = "idle"
    /\ ApprovalFree(a)
    /\ OrdersOfKey(k) = {}
    /\ OrdersOfApproval(a) = {}
    /\ status[a] = "pending"
    /\ deal[a].expires >= now
    /\ ~killSwitch
    /\ tx' = [tx EXCEPT ![c] =
                [IdleTx EXCEPT !.pc = "checked", !.approval = a, !.key = k,
                               !.instr = InstrumentOf[a], !.qty = deal[a].qty]]
    /\ UNCHANGED <<rows, settings, now, answers>>

Cost(c) == Debit(tx[c].qty, deal[tx[c].approval].price)

\* The faulty variant does not look at the cash.
ApproveFundUnchecked(c) == tx[c].pc = "checked" /\ Proceed(c, "funded")

\* INSUFFICIENT_CASH against the ledger sum, which nothing locks.
ApproveFund(c) ==
    /\ tx[c].pc = "checked"
    /\ \/ Cost(c) <= cash /\ Proceed(c, "funded")
       \/ Cost(c) > cash /\ Rollback(c)

\* INSERT of the Order, unique by approval and by key: it waits while another
\* transaction has inserted the key, and fails if the key is committed.
KeyTaken(c) == OrdersOfKey(tx[c].key) \cup OrdersOfApproval(tx[c].approval) # {}

ApproveInsertOrder(c) ==
    /\ tx[c].pc = "funded"
    /\ KeyFree(tx[c].key)
    /\ \/ ~KeyTaken(c) /\ Proceed(c, "ordered")
       \/ KeyTaken(c) /\ Rollback(c)

\* SELECT ... FOR UPDATE of the position, then DUPLICATE_POSITION.
Duplicate(i) == position[i].qty > 0 /\ ~averaging

ApproveTakePosition(c) ==
    LET i == tx[c].instr IN
    /\ tx[c].pc = "ordered"
    /\ PositionFree(i)
    /\ \/ Duplicate(i) /\ Rollback(c)
       \/ /\ ~Duplicate(i)
          /\ tx' = [tx EXCEPT ![c].pc = "placed", ![c].seen = position[i]]
          /\ UNCHANGED <<rows, settings, now, answers>>

\* The unique instrument_id: a position row appeared after c saw none.  The
\* faulty variant NoClash writes over it.
NoClash(c) == FALSE
PositionClash(c) == tx[c].seen.version = 0 /\ position[tx[c].instr].version # 0

\* The ORM writes the values it computed from the row it loaded.
Fill(c) ==
    LET t == tx[c]
        a == t.approval
        o == [approval |-> a, key |-> t.key]
    IN  /\ orders' = orders \cup {o}
        /\ position' = [position EXCEPT ![t.instr] =
                          [qty |-> t.seen.qty + t.qty,
                           version |-> t.seen.version + 1,
                           price |-> deal[a].price]]
        /\ bought' = [bought EXCEPT ![t.instr] = @ + t.qty]
        /\ cash' = cash - Cost(c)
        /\ status' = [status EXCEPT ![a] = "approved"]
        /\ Tell(a, t.key, o)
        /\ UNCHANGED <<deal, sells, sold>>

ApproveCommit(c) ==
    /\ tx[c].pc = "placed"
    /\ \/ PositionClash(c) /\ Rollback(c)
       \/ /\ ~PositionClash(c)
          /\ Fill(c)
          /\ Finish(c)
          /\ UNCHANGED <<settings, now>>

-----------------------------------------------------------------------------
(* The other write endpoints *)

\* The faulty variant rejects what is approved, too.
RejectDecided(a) ==
    /\ ApprovalFree(a)
    /\ status[a] \in {"pending", "approved"}
    /\ status' = [status EXCEPT ![a] = "rejected"]
    /\ UNCHANGED <<deal, orders, position, sells, bought, sold, cash, settings,
                   now, answers, tx>>

\* reject: `status != "pending"` refuses.
Reject(a) ==
    /\ ApprovalFree(a)
    /\ status[a] = "pending"
    /\ status' = [status EXCEPT ![a] = "rejected"]
    /\ UNCHANGED <<deal, orders, position, sells, bought, sold, cash, settings,
                   now, answers, tx>>

\* POSITION_NOT_FOUND and SELL_QUANTITY_EXCEEDS_HOLDING.  The faulty variant
\* forgets the latter.
SellableUnbounded(i, q) == q > 0 /\ position[i].qty > 0
Sellable(i, q) == q > 0 /\ q <= position[i].qty

\* exit_position: a quantity that is not given means all of it.
ExitLock(c, i, q) ==
    /\ tx[c].pc = "idle"
    /\ PositionFree(i)
    /\ Sellable(i, q)
    /\ tx' = [tx EXCEPT ![c] = [IdleTx EXCEPT !.pc = "exiting", !.instr = i,
                                              !.qty = q, !.seen = position[i]]]
    /\ UNCHANGED <<rows, settings, now, answers>>

\* Order.idempotency_key_hash, OrderEvent and Trade.event_id of the exit.
ExitKey(c) ==
    [instr |-> tx[c].instr, version |-> tx[c].seen.version, qty |-> tx[c].qty]

\* What is left of the position.  The faulty variant keeps the version.
SoldSameVersion(t) == [t.seen EXCEPT !.qty = @ - t.qty]
Sold(t) == [t.seen EXCEPT !.qty = @ - t.qty, !.version = @ + 1]

\* A second exit under the same key fails its INSERT and can only Abort.
ExitCommit(c) ==
    LET t == tx[c] IN
    /\ t.pc = "exiting"
    /\ ExitKey(c) \notin sells
    /\ sells' = sells \cup {ExitKey(c)}
    /\ position' = [position EXCEPT ![t.instr] = Sold(t)]
    /\ sold' = [sold EXCEPT ![t.instr] = @ + t.qty]
    /\ cash' = cash + Credit(t.qty, t.seen.price)
    /\ Finish(c)
    /\ UNCHANGED <<status, deal, orders, bought, settings, now, answers>>

\* The request fails, the connection drops or the API process dies.
Abort(c) == tx[c].pc # "idle" /\ Rollback(c)

SetKillSwitch(on) ==
    /\ killSwitch' = on
    /\ UNCHANGED <<rows, averaging, now, answers, tx>>

SetAveraging(on) ==
    /\ averaging' = on
    /\ UNCHANGED <<rows, killSwitch, now, answers, tx>>

Tick ==
    /\ now < MaxTime
    /\ now' = now + 1
    /\ UNCHANGED <<rows, settings, answers, tx>>

-----------------------------------------------------------------------------

\* What the transaction of c does by itself once it is open.
Advance(c) ==
    \/ DecideHold(c)
    \/ \E a \in Approvals, q \in Quantities, p \in Prices : Generate(c, a, q, p)
    \/ ApproveFund(c)
    \/ ApproveInsertOrder(c)
    \/ ApproveTakePosition(c)
    \/ ApproveCommit(c)
    \/ ExitCommit(c)

Call(c) ==
    \/ \E i \in Instruments : Decide(c, i)
    \/ \E a \in Approvals, k \in Keys : ApproveLock(c, a, k)
    \/ \E i \in Instruments, q \in Quantities : ExitLock(c, i, q)

Desk ==
    \/ \E a \in Approvals, k \in Keys : ApproveReplay(a, k)
    \/ \E a \in Approvals : Reject(a)
    \/ \E on \in KillSettings : SetKillSwitch(on)
    \/ \E on \in AveragingSettings : SetAveraging(on)
    \/ Tick

Next == Desk \/ \E c \in Clients : Call(c) \/ Advance(c) \/ Abort(c)

Spec == Init /\ [][Next]_vars

\* PostgreSQL runs an open transaction on and queues lock waiters first come,
\* first served, so a call that waits again and again is served in the end.
FairSpec == Spec /\ \A c \in Clients : SF_vars(Advance(c))

-----------------------------------------------------------------------------
(* Properties *)

\* An approval is approved exactly when it has an order, and has one at most:
\* approve, reject and retries of approve may overlap in any way
\* (approve_and_fill's linked-order check, row lock and unique approval_id).
ApprovedIffFilled ==
    \A a \in Approvals :
        /\ (status[a] = "approved") <=> (OrdersOfApproval(a) # {})
        /\ \A o, p \in OrdersOfApproval(a) : o = p

\* No update of a Position row is lost: its quantity is what the BUY trades of
\* the instrument brought less what the SELL trades took, although fills and
\* exits write back values computed from the row they loaded earlier.
HoldingsConserved ==
    \A i \in Instruments : position[i].qty = bought[i] - sold[i]

\* Whatever retries, keys and duplicates a client sends, every success it is
\* told of names the one order of the approval it asked for.
AnswersNameTheFill ==
    \A x \in answers :
        /\ x.order \in orders
        /\ x.order.approval = x.approval
        /\ \A y \in answers : x.approval = y.approval => x.order = y.order

\* No exit is refused as a duplicate of another one: the version in its key is
\* new each time, so two sales of the same size are two sales.
ExitKeysFresh ==
    \A c \in Clients : tx[c].pc = "exiting" => ExitKey(c) \notin sells

\* A fill adds to an open position only in a transaction that had loaded the
\* open position and so had to find averaging allowed; one that saw no row, or
\* a flat one, never adds to a position that another fill opened meanwhile.
FillsMeetThePositionTheySaw ==
    [][\A i \in Instruments :
          bought'[i] > bought[i] /\ position[i].qty > 0 =>
             \E c \in Clients : /\ tx[c].pc = "placed" /\ tx'[c].pc = "idle"
                                /\ tx[c].instr = i
                                /\ tx[c].seen.qty = position[i].qty]_vars

\* A decided approval stays decided: rejected, expired or approved for good.
DecidedOnce ==
    [][\A a \in Approvals :
          status[a] \in {"approved", "rejected", "expired"} => status'[a] = status[a]]_vars

\* The concurrent desk implements Brokerage, the desk with one caller.
B == INSTANCE Brokerage WITH holding <- [i \in Instruments |-> position[i].qty]
ImplementsBrokerage == B!Book

\* How far the unlocked cash check of approve_and_fill lets the ledger go below
\* zero.  Every call checks the sum that the others have not paid from yet, so
\* overlapping calls overspend, but the one that checked last could pay, and
\* each other one adds at most the cost of the dearest deal offered.
DealCost(a) == Debit(deal[a].qty, deal[a].price)
OverdraftBounded ==
    \A a \in Approvals :
        (\A b \in Approvals : DealCost(b) <= DealCost(a)) =>
            cash >= -((Cardinality(Clients) - 1) * DealCost(a))

\* Not true of overlapping calls, although docs/order-lifecycle.md says that an
\* approval validates cash: the ledger never goes below zero.
Solvent == cash >= 0

\* Not true, although docs/order-lifecycle.md says that a key with another payload is
\* a conflict: a key that a filled approval was answered for is not recorded.
KeyNamesOnePayload ==
    \A x, y \in answers : x.key = y.key => x.approval = y.approval

\* Every open call returns, by commit or by rollback: no cycle of row locks
\* and reserved keys, no lock kept by a finished call.
CallsReturn == \A c \in Clients : tx[c].pc # "idle" ~> tx[c].pc = "idle"
=============================================================================
