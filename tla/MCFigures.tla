------------------------------- MODULE MCFigures -------------------------------
(***************************************************************************)
(* The run of what is computed: the books, the rules of evidence and of    *)
(* research, which no endpoint and no job calls, and the decisions of      *)
(* governance.  The four share nothing, so a behaviour is about one of     *)
(* them and their states add up.                                           *)
(***************************************************************************)
EXTENDS Bookkeeping, StatisticalEvidence, ResearchPriorities, PredictionGovernance, TLC

CONSTANTS i1, i2, r1, p1, p2, a1

VARIABLE focus

figures == <<vars, evidenceVars, researchVars, governanceVars, focus>>

FiguresInit ==
    /\ focus \in {"books", "evidence", "research", "governance"}
    /\ Init
    /\ EvidenceInit
    /\ ResearchInit
    /\ GovernanceInit

FiguresNext ==
    /\ UNCHANGED focus
    /\ \/ /\ focus = "books"
          /\ Next
          /\ UNCHANGED <<evidenceVars, researchVars, governanceVars>>
       \/ /\ focus = "evidence"
          /\ EvidenceNext
          /\ UNCHANGED <<vars, researchVars, governanceVars>>
       \/ /\ focus = "research"
          /\ ResearchNext
          /\ UNCHANGED <<vars, evidenceVars, governanceVars>>
       \/ /\ focus = "governance"
          /\ GovernanceNext
          /\ UNCHANGED <<vars, evidenceVars, researchVars>>

FiguresSpec == FiguresInit /\ [][FiguresNext]_figures

-----------------------------------------------------------------------------
(* Constants *)

\* A share at 9.10 costs 9.1046 with the slippage, of which 0.46 paise are not posted:
\* four of them are more than reconcile tolerates.
MCEntries == {91000, 45900}
MCQuotes == {90000}
MCSymmetry == Permutations(Instruments)

MCPolicy == [error |-> 2, lower |-> 0, upper |-> Missing, tolerance |-> 1,
             support |-> 2, classes |-> 3, samples |-> 5]

Calibration == [error |-> 1, largest |-> Missing, brier |-> 1, loss |-> Missing,
                status |-> "valid", approved |-> TRUE, from |-> 1, to |-> 3]
MCEvidence ==
    [classification |-> {"passed", "failed"},
     calibration |-> {Calibration,
                      [Calibration EXCEPT !.approved = FALSE],
                      [Calibration EXCEPT !.error = NotFinite],
                      [Calibration EXCEPT !.to = Missing, !.largest = 2]},
     regression |-> {[value |-> 1, residual |-> 1], [value |-> -1, residual |-> Missing]},
     interval |-> {[value |-> 1, lower |-> 1, upper |-> 2], [value |-> 0, lower |-> 1, upper |-> 2]},
     reference |-> {[value |-> 3, lower |-> 1, upper |-> 2], [value |-> 4, lower |-> 1, upper |-> 2]},
     support |-> {{2, 3}, {1, 3}},
     resources |-> {[classes |-> 2, samples |-> 5], [classes |-> 4, samples |-> 5]}]

\* The other rules give no direction that these do not.
MCFeatures ==
    [c \in Codes |-> CASE c = "PRICE_ABOVE_EMA" -> {-1, 1}
                       [] c = "PROVIDER_FRESHNESS" -> {NoFeature}
                       [] OTHER -> {}]
MCReading ==
    [d \in Directions |-> CASE d = "bullish" -> "positive"
                            [] d = "bearish" -> "negative"
                            [] OTHER -> d]
MCCalledStale == {<<1, "PROVIDER_FRESHNESS">>}
MCEvents == {[impact |-> "positive", at |-> 0, stale |-> FALSE],
             [impact |-> "negative", at |-> 1, stale |-> TRUE]}
Ready == [technical_ready |-> TRUE, external_ready |-> TRUE, active |-> TRUE,
          missing |-> {}, expires_at |-> Never]
MCStandings == {Ready,
                [Ready EXCEPT !.external_ready = FALSE],
                [Ready EXCEPT !.expires_at = 1, !.missing = {"MISSING_EVIDENCE"}]}

\* p1 passes every gate; the regime of p2 is not known.
MCInputOf == p1 :> [genuine |-> TRUE, bounded |-> TRUE, regime |-> "allowed"]
          @@ p2 :> [genuine |-> TRUE, bounded |-> TRUE, regime |-> "none"]

\* What the gates of the two predictions can give, and a body without eligibility.
Found(eligibility, regime) ==
    [eligibility |-> eligibility, integrity |-> "passed", ood |-> "passed", regime |-> regime]
MCRuleBodies == {Found("eligible", "passed"), Found("ineligible", "passed"),
                 Found("eligible", "incomplete"), Found("absent", "passed")}

\* All outcomes, those that are rejected for an unsound row aside.
MCOutcomeBodies ==
    {o \in Outcomes : o.sound}
        \cup {[structural |-> "validated", statistical |-> "validated", safety |-> "safe",
               sound |-> FALSE, warning |-> FALSE]}
=============================================================================
