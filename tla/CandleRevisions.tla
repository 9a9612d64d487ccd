---------------------------- MODULE CandleRevisions ----------------------------
(***************************************************************************)
(* The revisions of one candle (instrument, interval, start and source),   *)
(* as ingest_candle of apps/api/app/intelligence/market_data.py writes     *)
(* them into intelligence_candles.  Each ingestion is a transaction of its *)
(* caller at READ COMMITTED.  Two unique indexes guard the rows: one over  *)
(* the revision numbers, and one of migration 0012 that admits a single    *)
(* authoritative row.                                                      *)
(*                                                                         *)
(* Rows of different candles meet in no index, lock or query.              *)
(***************************************************************************)
EXTENDS Integers, Sequences, FiniteSets

CONSTANTS
    Ingesters,
    Payloads,               \* what the provider sends for the candle
    NoPayload,
    MaxRevisions            \* bound of the model

Candle ==
    [started : Int, ended : Int, source : Int, received : Int, complete : BOOLEAN,
     open : Int, high : Int, low : Int, close : Int, volume : Int, trades : Int]

ASSUME CandleAssumption ==
    /\ Payloads \subseteq Candle
    /\ NoPayload \notin Payloads
    /\ MaxRevisions \in Nat

VARIABLES
    rows,           \* the committed rows, in the order of their revisions
    rejections,     \* payloads in intelligence_candle_rejections
    tx              \* the ingestion each ingester has under way

vars == <<rows, rejections, tx>>

-----------------------------------------------------------------------------
(* Candles *)

\* validate_candle: the codes of the errors in a candle.
ValidateCandle(d) ==
    LET found ==
          [INVALID_TIME_RANGE       |-> d.ended <= d.started,
           FUTURE_SOURCE_TIMESTAMP  |-> d.source > d.received,
           HIGH_BELOW_LOW           |-> d.high < d.low,
           HIGH_BELOW_OHLC          |-> d.high < d.open \/ d.high < d.close,
           LOW_ABOVE_OHLC           |-> d.low > d.open \/ d.low > d.close,
           NON_POSITIVE_PRICE       |-> \E x \in {d.open, d.high, d.low, d.close} : x <= 0,
           NEGATIVE_COUNT           |-> d.volume < 0 \/ d.trades < 0,
           INCOMPLETE_CLOSED_CANDLE |-> ~d.complete /\ d.ended <= d.received]
    IN  {code \in DOMAIN found : found[code]}

WellFormed == {p \in Payloads : ValidateCandle(p) = {}}

\* The CHECK constraints of intelligence_candles.
FitsTheTable(d) ==
    /\ d.ended > d.started
    /\ d.open > 0 /\ d.high > 0 /\ d.low > 0 /\ d.close > 0
    /\ d.high >= d.low /\ d.high >= d.open /\ d.high >= d.close
    /\ d.low <= d.open /\ d.low <= d.close
    /\ d.volume >= 0 /\ d.trades >= 0

\* What two candles are compared by; times, trades and completeness are not.
Bar(d) == [open |-> d.open, high |-> d.high, low |-> d.low, close |-> d.close,
           volume |-> d.volume]
SamePayload(d, e) == Bar(d) = Bar(e)

-----------------------------------------------------------------------------

Row == [payload : WellFormed, authoritative : BOOLEAN]
NoRow == 0

\* found: the row that the query for an earlier one returned; flagged: whether
\* it was authoritative then; revision: of the new row; answer: the revision
\* that the ingestion before returned.
Ingestion ==
    [phase : {"idle", "found", "marked", "numbered", "inserted", "written"},
     payload : WellFormed \cup {NoPayload},
     found : Nat,
     flagged : BOOLEAN,
     revision : Nat,
     answer : Nat]

Answered(k) == [phase |-> "idle", payload |-> NoPayload, found |-> NoRow,
                flagged |-> FALSE, revision |-> NoRow, answer |-> k]
Begun(p) == [Answered(NoRow) EXCEPT !.payload = p]

CandleTypeOK ==
    /\ rows \in Seq(Row)
    /\ rejections \subseteq Payloads
    /\ tx \in [Ingesters -> Ingestion]
    /\ \A c \in Ingesters : tx[c].found \in 0 .. Len(rows)

Init ==
    /\ rows = <<>>
    /\ rejections = {}
    /\ tx = [c \in Ingesters |-> Answered(NoRow)]

-----------------------------------------------------------------------------
(* Rows that open transactions hold *)

\* A transaction that has cleared the flag of a row holds the row.
Marks(d, k) ==
    /\ tx[d].phase \in {"marked", "numbered", "inserted", "written"}
    /\ tx[d].found = k
    /\ tx[d].flagged

Authoritative == {k \in DOMAIN rows : rows[k].authoritative}

\* The transactions that the next statement of c waits for.
WaitsFor(c) ==
    CASE tx[c].phase = "found" /\ tx[c].flagged ->
            {d \in Ingesters \ {c} : Marks(d, tx[c].found)}
      [] tx[c].phase = "numbered" ->
            {d \in Ingesters \ {c} : /\ tx[d].phase \in {"inserted", "written"}
                                     /\ tx[d].revision = tx[c].revision}
      [] tx[c].phase = "inserted" ->
            {d \in Ingesters \ {c} : \/ tx[d].phase = "written"
                                     \/ \E k \in Authoritative : Marks(d, k)}
      [] OTHER -> {}

Rollback(c) ==
    /\ tx' = [tx EXCEPT ![c] = Answered(NoRow)]
    /\ UNCHANGED <<rows, rejections>>

\* The bound: a revision is left for every ingestion that may want one.
Room == Len(rows) + Cardinality({d \in Ingesters : tx[d].phase # "idle"}) < MaxRevisions

-----------------------------------------------------------------------------
(* ingest_candle, one action per statement *)

\* The rejection row is flushed before ValueError is raised: a caller that rolls
\* back on the error loses it, one that catches it within the transaction does not.
RejectCandle(p) ==
    /\ p \notin WellFormed
    /\ \/ rejections' = rejections \cup {p}
       \/ UNCHANGED rejections
    /\ UNCHANGED <<rows, tx>>

\* A faulty variant that stores a repeated payload again.
FindExistingAnew(c, p) ==
    /\ tx[c].phase = "idle"
    /\ p \in WellFormed
    /\ Room
    /\ \E k \in DOMAIN rows :
          tx' = [tx EXCEPT ![c] = [Begun(p) EXCEPT !.phase = "found", !.found = k,
                                                   !.flagged = rows[k].authoritative]]
    /\ UNCHANGED <<rows, rejections>>

\* The query asks neither for the authoritative row nor for an order, so any
\* revision may be the one that is found.
FindExisting(c, p) ==
    /\ tx[c].phase = "idle"
    /\ p \in WellFormed
    /\ Room
    /\ \E k \in DOMAIN rows :
          /\ ~SamePayload(rows[k].payload, p)
          /\ tx' = [tx EXCEPT ![c] =
                       [Begun(p) EXCEPT !.phase = "found", !.found = k,
                                        !.flagged = rows[k].authoritative]]
    /\ UNCHANGED <<rows, rejections>>

\* A faulty variant without validate_candle.
FindNoneUnchecked(c, p) ==
    /\ tx[c].phase = "idle"
    /\ Room
    /\ rows = <<>>
    /\ tx' = [tx EXCEPT ![c] = [Begun(p) EXCEPT !.phase = "numbered", !.revision = 1]]
    /\ UNCHANGED <<rows, rejections>>

FindNone(c, p) ==
    /\ tx[c].phase = "idle"
    /\ p \in WellFormed
    /\ Room
    /\ rows = <<>>
    /\ tx' = [tx EXCEPT ![c] = [Begun(p) EXCEPT !.phase = "numbered", !.revision = 1]]
    /\ UNCHANGED <<rows, rejections>>

\* A row with the payload is returned as it is.
ReturnExisting(c, p) ==
    /\ tx[c].phase = "idle"
    /\ p \in WellFormed
    /\ \E k \in DOMAIN rows :
          /\ SamePayload(rows[k].payload, p)
          /\ tx' = [tx EXCEPT ![c] = Answered(k)]
    /\ UNCHANGED <<rows, rejections>>

\* The flag is cleared in the row that was found, before the next query; where
\* it was not set, nothing is written.
ClearFlag(c) ==
    /\ tx[c].phase = "found"
    /\ WaitsFor(c) = {}
    /\ tx' = [tx EXCEPT ![c].phase = "marked"]
    /\ UNCHANGED <<rows, rejections>>

\* max(revision) + 1.
NumberRevision(c) ==
    /\ tx[c].phase = "marked"
    /\ tx' = [tx EXCEPT ![c].phase = "numbered", ![c].revision = Len(rows) + 1]
    /\ UNCHANGED <<rows, rejections>>

\* The entry in the index of revisions, which another row may have.
InsertRevision(c) ==
    /\ tx[c].phase = "numbered"
    /\ WaitsFor(c) = {}
    /\ tx[c].revision \notin DOMAIN rows
    /\ FitsTheTable(tx[c].payload)
    /\ tx' = [tx EXCEPT ![c].phase = "inserted"]
    /\ UNCHANGED <<rows, rejections>>

\* The entry in the index of migration 0012.  A faulty variant has no such index.
NoIndex(c) == FALSE
FlagTaken(c) == \E k \in Authoritative : ~Marks(c, k)

InsertFlag(c) ==
    /\ tx[c].phase = "inserted"
    /\ WaitsFor(c) = {}
    /\ ~FlagTaken(c)
    /\ tx' = [tx EXCEPT ![c].phase = "written"]
    /\ UNCHANGED <<rows, rejections>>

\* IntegrityError from either index, or from a CHECK constraint.
Conflict(c) ==
    /\ WaitsFor(c) = {}
    /\ \/ tx[c].phase = "numbered" /\ tx[c].revision \in DOMAIN rows
       \/ tx[c].phase = "numbered" /\ ~FitsTheTable(tx[c].payload)
       \/ tx[c].phase = "inserted" /\ FlagTaken(c)
    /\ Rollback(c)

Commit(c) ==
    LET kept == [k \in DOMAIN rows |->
                    [rows[k] EXCEPT !.authoritative = @ /\ ~Marks(c, k)]]
    IN  /\ tx[c].phase = "written"
        /\ rows' = Append(kept, [payload |-> tx[c].payload, authoritative |-> TRUE])
        /\ tx' = [tx EXCEPT ![c] = Answered(tx[c].revision)]
        /\ UNCHANGED rejections

\* The connection breaks, or the caller gives up.
Abort(c) == tx[c].phase # "idle" /\ Rollback(c)

\* A faulty variant without deadlock detection.
NoDetector(c) == FALSE /\ Rollback(c)

\* PostgreSQL ends one of the transactions that wait for each other.
BreakDeadlock(c) ==
    /\ \E d \in WaitsFor(c) : c \in WaitsFor(d)
    /\ Rollback(c)
-----------------------------------------------------------------------------

Advance(c) == ClearFlag(c) \/ NumberRevision(c) \/ InsertRevision(c)
              \/ InsertFlag(c) \/ Conflict(c) \/ Commit(c)

Next ==
    \/ \E p \in Payloads : RejectCandle(p)
    \/ \E c \in Ingesters, p \in Payloads :
          FindNone(c, p) \/ FindExisting(c, p) \/ ReturnExisting(c, p)
    \/ \E c \in Ingesters : Advance(c) \/ Abort(c) \/ BreakDeadlock(c)

Spec == Init /\ [][Next]_vars

\* An open transaction runs its statements on, and PostgreSQL looks for deadlocks.
Fairness == \A c \in Ingesters : SF_vars(Advance(c)) /\ WF_vars(BreakDeadlock(c))

FairSpec == Spec /\ Fairness

-----------------------------------------------------------------------------
(* Properties *)

\* Whichever row an ingestion found and whatever was committed since, the row
\* with the highest revision is the authoritative one, and it alone: no commit
\* leaves the candle without one, and none lets an older row stay.
NewestIsAuthoritative ==
    /\ Authoritative = IF rows = <<>> THEN {} ELSE {Len(rows)}
    /\ \A c \in Ingesters :
          tx[c].phase \in {"inserted", "written"} => tx[c].revision = Len(rows) + 1

H == INSTANCE CandleHistory WITH
        Bars <- {Bar(p) : p \in WellFormed},
        history <- [k \in DOMAIN rows |-> Bar(rows[k].payload)]

\* The rows are a history that only grows, and a revision always corrects the
\* one before it, although it was compared with a row read long before.
ImplementsHistory == H!HistorySpec

\* Every ingestion ends, with a row or an error.
IngestionsReturn == \A c \in Ingesters : tx[c].phase # "idle" ~> tx[c].phase = "idle"

\* LAYER2_1_MARKET_DATA_FOUNDATION.md and ARCHITECTURE_LAYER2_PROPOSAL.md: what
\* differs from the current payload becomes a new revision that supersedes it, so
\* the row an ingestion returns is the authoritative one.
AnswersAreAuthoritative ==
    [][\A c \in Ingesters :
          tx'[c].answer \notin {NoRow, tx[c].answer} =>
              rows'[tx'[c].answer].authoritative]_vars
=============================================================================
