--------------------------- MODULE MCCandleRevisions ---------------------------
(* Constants of the runs of CandleRevisions: a bar sent before and after it      *)
(* closed, a correction of it, a second one, and a bar that is no candle.        *)
EXTENDS CandleRevisions

CONSTANTS i1, i2

First == [started |-> 0, ended |-> 2, source |-> 1, received |-> 1, complete |-> FALSE,
          open |-> 1, high |-> 2, low |-> 1, close |-> 2, volume |-> 1, trades |-> 1]
Closed == [First EXCEPT !.source = 2, !.received = 2, !.complete = TRUE]
Corrected == [Closed EXCEPT !.close = 1]
CorrectedAgain == [Closed EXCEPT !.volume = 2]
Broken == [Closed EXCEPT !.high = 0]

MCPayloads == {First, Closed, Corrected, CorrectedAgain, Broken}
=============================================================================
