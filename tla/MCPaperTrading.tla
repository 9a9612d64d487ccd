--------------------------- MODULE MCPaperTrading ---------------------------
(* Constants of the runs of PaperTrading. *)
EXTENDS PaperTrading, TLC

CONSTANTS c1, c2, a1, a2, a3, k1, k2, i1, i2

\* a1 and a2 compete for one instrument, a3 is for another.
MCInstrumentOf == a1 :> i1 @@ a2 :> i1 @@ a3 :> i2

MCSymmetry == Permutations(Clients) \cup Permutations(Keys)

\* a1 and a2 are alike where both are for i1.
MCSymmetryDesk == MCSymmetry \cup Permutations({a1, a2})
=============================================================================
