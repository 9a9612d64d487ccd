--------------------------- MODULE MCTradingJobs ---------------------------
(* Constants of the runs of TradingJobs. *)
EXTENDS TradingJobs, TLC

CONSTANTS c1, a1, a2, a3, k1, k2, i1, i2

MCTwoInstruments == a1 :> i1 @@ a2 :> i2

\* a3 enters i1 again.
MCReentry == a1 :> i1 @@ a2 :> i2 @@ a3 :> i1

MCSymmetry == Permutations(Clients) \cup Permutations(Keys)
=============================================================================
