------------------------------ MODULE Brokerage ------------------------------
(***************************************************************************)
(* What the paper-trading desk promises its user, with one caller and no   *)
(* transactions: an approval is offered once and decided once, a fill      *)
(* takes an approval that is still pending and adds exactly its size to    *)
(* the holding and takes its cost from the cash, and a sale takes no more  *)
(* than is held.  PaperTrading implements it: however the database         *)
(* transactions of the callers interleave, the rows change as if each call *)
(* had run alone at the moment it commits.                                 *)
(*                                                                         *)
(* A fill promises nothing about the cash that is left.  The desk checks   *)
(* it, but calls that overlap can spend the same cash; OverdraftBounded of *)
(* PaperTrading says how much of it.                                       *)
(***************************************************************************)
EXTENDS Integers

CONSTANTS Approvals, Instruments, InstrumentOf, Spread

VARIABLES
    status,    \* the decision on each approval
    deal,      \* its size and price
    holding,   \* shares held of each instrument
    cash

bookVars == <<status, deal, holding, cash>>

BookInit ==
    /\ status = [a \in Approvals |-> "none"]
    /\ holding = [i \in Instruments |-> 0]

\* Nothing is offered twice, and the terms of an offer never change.
Offer(a) ==
    /\ status[a] = "none"
    /\ status' = [status EXCEPT ![a] = "pending"]
    /\ \A b \in Approvals : b # a => deal'[b] = deal[b]
    /\ UNCHANGED <<holding, cash>>

FillOf(a) ==
    /\ status[a] = "pending"
    /\ status' = [status EXCEPT ![a] = "approved"]
    /\ holding' = [holding EXCEPT ![InstrumentOf[a]] = @ + deal[a].qty]
    /\ cash' = cash - deal[a].qty * (deal[a].price + Spread)
    /\ UNCHANGED deal

Decline(a) ==
    /\ status[a] = "pending"
    /\ status' = [status EXCEPT ![a] = "rejected"]
    /\ UNCHANGED <<deal, holding, cash>>

Sell(i) ==
    /\ \E q \in 1 .. holding[i] : holding' = [holding EXCEPT ![i] = @ - q]
    /\ cash' >= cash
    /\ UNCHANGED <<status, deal>>

BookNext ==
    \/ \E a \in Approvals : Offer(a) \/ FillOf(a) \/ Decline(a)
    \/ \E i \in Instruments : Sell(i)

Book == BookInit /\ [][BookNext]_bookVars
=============================================================================
