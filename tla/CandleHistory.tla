----------------------------- MODULE CandleHistory -----------------------------
(***************************************************************************)
(* What the store of candles promises for one candle of one provider: its  *)
(* bars form a history that is only ever added to, each one differs    *)
(* from the one it corrects, and the last one is current.  CandleRevisions *)
(* implements it with rows, flags and overlapping transactions.            *)
(***************************************************************************)
EXTENDS Sequences, Naturals

CONSTANT Bars

VARIABLE history

HistoryInit == history = <<>>

Correct(b) ==
    /\ history # <<>> => history[Len(history)] # b
    /\ history' = Append(history, b)

HistorySpec == HistoryInit /\ [][\E b \in Bars : Correct(b)]_history
=============================================================================
