------------------------------ MODULE Bookkeeping ------------------------------
(***************************************************************************)
(* The money of the paper-trading desk: average prices, charges, realised  *)
(* profit and the cash ledger (apps/api/app/paper_trading/service.py and   *)
(* portfolio/domain.py), and the pages that read them back in several      *)
(* statements at READ COMMITTED: /paper/portfolio, /paper/reconcile with   *)
(* the job LEDGER_RECONCILIATION, /paper/daily-pnl and the portfolio       *)
(* snapshots.                                                              *)
(*                                                                         *)
(* A fill or an exit is one step here: PaperTrading models its transaction *)
(* and shows that it takes effect at once.  Amounts are integers, in       *)
(* hundredths of a paisa (the NUMERIC(20,4) of the columns); shares are    *)
(* whole; all trades are of one day.                                       *)
(***************************************************************************)
EXTENDS Integers, Sequences, Functions

CONSTANTS
    Instruments,
    Entries,        \* entry prices of decisions
    Quotes,         \* prices at which the jobs exit
    Quantities,
    InitialCash,
    Averaging,      \* risk_config.allow_position_averaging
    Readers,
    MaxTrades       \* bound of the model

ASSUME BookkeepingAssumption ==
    /\ Entries \subseteq Nat
    /\ Quotes \subseteq Nat
    /\ Quantities \subseteq Nat \ {0}
    /\ InitialCash \in Nat /\ InitialCash % 100 = 0
    /\ Averaging \in BOOLEAN
    /\ MaxTrades \in Nat

VARIABLES
    position,       \* Position rows by instrument, all zero before the first fill
    ledger,         \* sum of CashLedger.amount
    bought, sold,   \* sums of price * quantity of the BUY and of the SELL trades
    charges,        \* sums of Trade.charges, by side
    realised,       \* sum of Trade.realised_pnl
    trades,         \* the number of trades
    rounding,       \* history: how far rounding may have moved the books, in halves
    page            \* what each reader has read

books == <<position, ledger, bought, sold, charges, realised, trades, rounding>>
vars == <<books, page>>

-----------------------------------------------------------------------------
(* Arithmetic *)

\* Decimal.quantize: the quotient n / d, a half to the even neighbour.
RoundDiv(n, d) ==
    LET q == n \div d
        r == n % d
    IN  IF 2 * r > d \/ (2 * r = d /\ q % 2 = 1) THEN q + 1 ELSE q

\* A faulty variant that cuts off what is below a paisa.
PaiseDown(x) == 100 * (x \div 100)
Paise(x) == 100 * RoundDiv(x, 100)

\* The integers nearest to n / d: two of them in a tie.
Nearest(n, d) == {k \in {n \div d, n \div d + 1} : 2 * (n - d * k) \in -d .. d}

BuyPrice(entry) == RoundDiv(entry * 10005, 10000)
SellPrice(price) == RoundDiv(price * 9995, 10000)

Brokerage(notional) == 100 * RoundDiv(notional * 3, 1000000)
Tax(notional) == 100 * RoundDiv(notional * 7, 1000000)

Charges(notional) == Brokerage(notional) + Tax(notional)

WeightedAverage(oldQty, oldPrice, qty, price) ==
    RoundDiv(oldQty * oldPrice + qty * price, oldQty + qty)

RealisedPnl(qty, entry, exit, allocated, exitCharges) ==
    Paise((exit - entry) * qty - allocated - exitCharges)

-----------------------------------------------------------------------------
(* Rows *)

PositionRow == [qty : Nat, avg : Int, current : Nat, charges : Int]
NoPosition == [qty |-> 0, avg |-> 0, current |-> 0, charges |-> 0]

Opened == {i \in Instruments : position[i].qty > 0}

\* Sums over the rows of the open positions.
Cost(i) == position[i].qty * position[i].avg
CostOpen == SumFunction([i \in Opened |-> Cost(i)])
Market(i) == position[i].qty * position[i].current
MarketOpen == SumFunction([i \in Opened |-> Market(i)])
Held(i) == position[i].charges
ChargesOpen == SumFunction([i \in Opened |-> Held(i)])

\* What one statement may return of the books.
Figures == {"market", "unrealised", "held", "realised", "charges",
            "cash", "balance", "debits", "credits"}

Now == [market     |-> MarketOpen,
        unrealised |-> MarketOpen - CostOpen,
        held       |-> ChargesOpen,
        realised   |-> realised,
        charges    |-> charges.buy + charges.sell,
        cash       |-> ledger,
        balance    |-> ledger,
        debits     |-> bought + charges.buy,
        credits    |-> sold - charges.sell]

\* The statements of each page, in order, and what each of them returns.
Statements ==
    [portfolio |-> <<"positions", "cash", "sells", "balance", "debits", "credits">>,
     reconcile |-> <<"balance", "debits", "credits">>,
     daily     |-> <<"trades", "positions">>,
     snapshot  |-> <<"cash", "positions">>]

Returns(statement) ==
    CASE statement = "positions" -> {"market", "unrealised", "held"}
      [] statement = "sells"     -> {"realised"}
      [] statement = "trades"    -> {"realised", "charges"}
      [] OTHER                   -> {statement}

Pages == DOMAIN Statements

\* done: statements run; from, upto: trades there were at the first and the last.
Page == [name : Pages \cup {"none"}, done : Nat, from : Nat, upto : Nat,
         got : [Figures -> Int]]
NoPage == [name |-> "none", done |-> 0, from |-> 0, upto |-> 0,
           got |-> [f \in Figures |-> 0]]

Init ==
    /\ position = [i \in Instruments |-> NoPosition]
    /\ ledger = InitialCash
    /\ bought = 0 /\ sold = 0 /\ realised = 0
    /\ charges = [buy |-> 0, sell |-> 0]
    /\ trades = 0
    /\ rounding = 0
    /\ page = [r \in Readers |-> NoPage]

-----------------------------------------------------------------------------
(* Trades *)

\* approve_and_fill
Fill(i, entry, qty) ==
    LET row == position[i]
        price == BuyPrice(entry)
        notional == Paise(price * qty)
        paid == Charges(notional)
    IN  /\ trades < MaxTrades
        /\ notional + paid <= ledger
        /\ row.qty > 0 => Averaging
        /\ position' = [position EXCEPT ![i] =
               [qty |-> row.qty + qty,
                avg |-> WeightedAverage(row.qty, row.avg, qty, price),
                current |-> entry,
                charges |-> row.charges + paid]]
        /\ ledger' = ledger - notional - paid
        /\ bought' = bought + price * qty
        /\ charges' = [charges EXCEPT !.buy = @ + paid]
        /\ trades' = trades + 1
        /\ rounding' = rounding + 100 + row.qty + qty
        /\ UNCHANGED <<sold, realised, page>>

\* The charges c of a position of all shares that a sale of qty takes.  The code
\* multiplies c by the quotient qty / all, cut at 28 digits, so a share that ends in
\* half a paisa may fall to either side.
Share(c, qty, all) == {100 * k : k \in Nearest(c * qty, 100 * all)}

\* A faulty variant that leaves the allocated charges with the position.
ChargesKept(row, allocated) == row.charges
ChargesLeft(row, allocated) == row.charges - allocated

Sellable(i, qty) == qty <= position[i].qty

\* exit_position, at the current price of the row or one that a job has just set.
Exit(i, qty, at) ==
    LET row == position[i]
        price == SellPrice(at)
        notional == Paise(price * qty)
        paid == Charges(notional)
    IN  /\ trades < MaxTrades
        /\ row.qty > 0
        /\ Sellable(i, qty)
        /\ at \in Quotes \cup {row.current}
        /\ \E allocated \in Share(row.charges, qty, row.qty) :
              /\ position' = [position EXCEPT ![i] =
                     [qty |-> row.qty - qty,
                      avg |-> IF qty = row.qty THEN 0 ELSE row.avg,
                      current |-> at,
                      charges |-> ChargesLeft(row, allocated)]]
              /\ realised' = realised + RealisedPnl(qty, row.avg, price, allocated, paid)
        /\ ledger' = ledger + notional - paid
        /\ sold' = sold + price * qty
        /\ charges' = [charges EXCEPT !.sell = @ + paid]
        /\ trades' = trades + 1
        /\ rounding' = rounding + 200
        /\ UNCHANGED <<bought, page>>

-----------------------------------------------------------------------------
(* Pages *)

\* The next statement of a page sees what is committed when it runs.
Read(r, name) ==
    LET p == page[r]
        statement == Statements[name][p.done + 1]
    IN  /\ p.name \in {"none", name}
        /\ p.done < Len(Statements[name])
        /\ page' = [page EXCEPT ![r] =
               [name |-> name,
                done |-> p.done + 1,
                from |-> IF p.done = 0 THEN trades ELSE p.from,
                upto |-> trades,
                got  |-> [f \in Figures |->
                            IF f \in Returns(statement) THEN Now[f] ELSE p.got[f]]]]
        /\ UNCHANGED books

Shown(p) == p.name # "none" /\ p.done = Len(Statements[p.name])

Leave(r) ==
    /\ Shown(page[r])
    /\ page' = [page EXCEPT ![r] = NoPage]
    /\ UNCHANGED books

Next ==
    \/ \E i \in Instruments, entry \in Entries, q \in Quantities : Fill(i, entry, q)
    \/ \E i \in Instruments, q \in Quantities : \E at \in Quotes \cup {position[i].current} :
          Exit(i, q, at)
    \/ \E r \in Readers : (\E name \in Pages : Read(r, name)) \/ Leave(r)

Spec == Init /\ [][Next]_vars

\* Every statement of the page saw the same trades.
Untorn(p) == Shown(p) /\ p.from = p.upto

-----------------------------------------------------------------------------
(* What the pages say *)

\* A faulty variant that wants the sums to be equal.
NoTolerance == 0
Tolerance == 100

Difference(got) == got.balance - Paise(InitialCash - got.debits + got.credits)
Reconcile(got) ==
    IF Difference(got) \in -Tolerance .. Tolerance THEN "ok" ELSE "mismatch"

\* A faulty variant without the charges of the trades.
DailyTotalGross(got) == got.realised + got.unrealised
DailyTotal(got) == got.realised + got.unrealised - got.charges

-----------------------------------------------------------------------------
(* Properties *)

Near(x, y, halves) == 2 * (x - y) \in -halves .. halves

\* docs/cash-ledger.md and docs/reconciliation.md: cash is what the executed trades
\* make it, up to half a paisa per trade, as each posting is rounded alone.
LedgerFollowsTrades ==
    Near(ledger, InitialCash - Now.debits + Now.credits, 100 * trades)

\* No money is made or lost in the books: cash, the cost of what is held and the
\* charges not yet allocated are the capital and the realised profit, through
\* averaging, partial exits and re-entry (weighted_average, realised_pnl, allocated).
BooksBalance ==
    Near(ledger + CostOpen + ChargesOpen, InitialCash + realised, rounding)

\* The tolerance of reconcile is for one posting.  It is enough for two trades if
\* none is committed between the three sums; more than two may look like a mismatch.
FewTradesReconcile ==
    \A r \in Readers :
        LET p == page[r] IN
        Untorn(p) /\ p.name \in {"reconcile", "portfolio"} /\ p.upto <= 2 =>
            Reconcile(p.got) = "ok"

\* Not true, although the comment in reconcile treats the residue of the postings as
\* reconciled: a page that no trade tore is reported as reconciled.
UntornPagesReconcile ==
    \A r \in Readers :
        LET p == page[r] IN
        Untorn(p) /\ p.name = "reconcile" => Reconcile(p.got) = "ok"

\* Not true, although docs/cash-ledger.md has the page compare the ledger against the
\* executed trades: it says ok as long as there are so few trades that the books agree
\* to a paisa all the time.
FewTradesPagesReconcile ==
    \A r \in Readers :
        LET p == page[r] IN
        Shown(p) /\ p.name = "reconcile" /\ p.upto <= 2 => Reconcile(p.got) = "ok"

\* Where no trade came between its statements, the portfolio page adds up: its value
\* is the capital with all profit, realised or not, less the charges not allocated.
\* The daily page never shows more than was gained.  (It shows less: the realised
\* profit is net of charges, and the charges of all trades are taken off again.)
PagesAddUp ==
    \A r \in Readers :
        LET p == page[r] IN
        /\ Untorn(p) /\ p.name = "portfolio" =>
              Near(p.got.cash + p.got.market,
                   InitialCash + p.got.realised + p.got.unrealised - p.got.held, rounding)
        /\ Untorn(p) /\ p.name = "daily" =>
              DailyTotal(p.got) <= p.got.realised + p.got.unrealised - p.got.held
=============================================================================
