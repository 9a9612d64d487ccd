------------------------------ MODULE CandleProofs ------------------------------
(***************************************************************************)
(* Proofs about CandleRevisions, for any ingesters and payloads.           *)
(*                                                                         *)
(* The two unique indexes make the insertion of a revision exclusive: a    *)
(* transaction that has an entry in the index of revisions has the next    *)
(* number, no other has one, and once it is in the index of authoritative  *)
(* rows as well it is the transaction that clears the flag of the row      *)
(* before.                                                                 *)
(***************************************************************************)
EXTENDS CandleRevisions, SequenceTheorems, TLAPS

\* What validate_candle accepts breaks no CHECK constraint of the table, so that no
\* accepted candle is refused by the database later.
THEOREM ValidFits == \A d \in Candle : ValidateCandle(d) = {} => FitsTheTable(d)
<1> SUFFICES ASSUME NEW d \in Candle, ValidateCandle(d) = {} PROVE FitsTheTable(d)
  OBVIOUS
<1> DEFINE found ==
      [INVALID_TIME_RANGE       |-> d.ended <= d.started,
       FUTURE_SOURCE_TIMESTAMP  |-> d.source > d.received,
       HIGH_BELOW_LOW           |-> d.high < d.low,
       HIGH_BELOW_OHLC          |-> d.high < d.open \/ d.high < d.close,
       LOW_ABOVE_OHLC           |-> d.low > d.open \/ d.low > d.close,
       NON_POSITIVE_PRICE       |-> \E x \in {d.open, d.high, d.low, d.close} : x <= 0,
       NEGATIVE_COUNT           |-> d.volume < 0 \/ d.trades < 0,
       INCOMPLETE_CLOSED_CANDLE |-> ~d.complete /\ d.ended <= d.received]
<1>1. \A code \in DOMAIN found : ~found[code]
  BY DEF ValidateCandle
<1>2. /\ ~(d.ended <= d.started) /\ ~(d.high < d.low)
      /\ ~(d.high < d.open \/ d.high < d.close)
      /\ ~(d.low > d.open \/ d.low > d.close)
      /\ ~(\E x \in {d.open, d.high, d.low, d.close} : x <= 0)
      /\ ~(d.volume < 0 \/ d.trades < 0)
  BY <1>1, Zenon
<1> QED BY <1>2 DEF FitsTheTable, Candle

-----------------------------------------------------------------------------
(* Invariant *)

Inserting(c) == tx[c].phase \in {"inserted", "written"}

\* What an open transaction knows: its payload, and a row that differs from it.
OpenInv ==
    \A c \in Ingesters : tx[c].phase # "idle" =>
        /\ tx[c].payload \in WellFormed
        /\ tx[c].found # NoRow => ~SamePayload(rows[tx[c].found].payload, tx[c].payload)

\* The number of a revision is at most the next one; that of an inserted one is it.
NumberInv ==
    \A c \in Ingesters :
        /\ tx[c].phase = "numbered" => tx[c].revision \in 1 .. Len(rows) + 1
        /\ Inserting(c) => tx[c].revision = Len(rows) + 1

\* Only one transaction is inserting, and one that has written marks all
\* authoritative rows.
InsertInv ==
    /\ \A c, d \in Ingesters : Inserting(c) /\ Inserting(d) => c = d
    /\ \A c \in Ingesters : tx[c].phase = "written" =>
          \A k \in Authoritative : Marks(c, k)

NewestInv == Authoritative = IF rows = <<>> THEN {} ELSE {Len(rows)}

CandleInv == CandleTypeOK /\ OpenInv /\ NumberInv /\ InsertInv /\ NewestInv

\* The rows after a commit.
Kept(c) == [k \in DOMAIN rows |-> [rows[k] EXCEPT !.authoritative = @ /\ ~Marks(c, k)]]

\* A commit keeps all payloads, clears some flags and adds one row.
LEMMA CommitRows ==
    ASSUME CandleInv, NEW c \in Ingesters, Commit(c)
    PROVE  /\ rows' \in Seq(Row)
           /\ Len(rows') = Len(rows) + 1
           /\ \A k \in 1 .. Len(rows) :
                 /\ rows'[k].payload = rows[k].payload
                 /\ rows'[k].authoritative = (rows[k].authoritative /\ ~Marks(c, k))
           /\ rows'[Len(rows) + 1].payload = tx[c].payload
           /\ rows'[Len(rows) + 1].authoritative
<1>1. rows \in Seq(Row) /\ DOMAIN rows = 1 .. Len(rows) /\ Len(rows) \in Nat
  BY LenProperties DEF CandleInv, CandleTypeOK
<1>2. \A k \in 1 .. Len(rows) : rows[k] \in Row
  BY <1>1, ElementOfSeq
<1> DEFINE new == [payload |-> tx[c].payload, authoritative |-> TRUE]
<1>3. Marks(c, 0) \in BOOLEAN /\ \A k \in 1 .. Len(rows) : Marks(c, k) \in BOOLEAN
  BY DEF Marks, CandleInv, CandleTypeOK, Ingestion
<1>4. \A k \in 1 .. Len(rows) : Kept(c)[k] \in Row
  BY <1>1, <1>2, <1>3 DEF Row, Kept
<1>5. Kept(c) \in [1 .. Len(rows) -> Row]
  BY <1>1, <1>4 DEF Kept
<1>6. Kept(c) \in Seq(Row)
  BY <1>1, <1>5, SeqDef
<1>7. Len(Kept(c)) = Len(rows)
  BY <1>1, <1>5, <1>6, LenProperties
<1>8. new \in Row
  BY DEF Commit, CandleInv, OpenInv, Row
<1>9. rows' = Append(Kept(c), new)
  BY DEF Commit, Kept
<1>10. /\ rows' \in Seq(Row) /\ Len(rows') = Len(rows) + 1
       /\ \A k \in 1 .. Len(rows) : rows'[k] = Kept(c)[k]
       /\ rows'[Len(rows) + 1] = new
  <2> HIDE DEF new
  <2> QED BY <1>1, <1>6, <1>7, <1>8, <1>9, AppendProperties
<1>11. \A k \in 1 .. Len(rows) :
          /\ Kept(c)[k].payload = rows[k].payload
          /\ Kept(c)[k].authoritative = (rows[k].authoritative /\ ~Marks(c, k))
  BY <1>1, <1>2 DEF Kept, Row
<1>12. new.payload = tx[c].payload /\ new.authoritative
  OBVIOUS
<1> HIDE DEF new
<1> QED BY <1>10, <1>11, <1>12

\* The phase and the rows are what the guards of the steps read.
LEMMA Facts ==
    ASSUME CandleInv
    PROVE  /\ rows \in Seq(Row) /\ Len(rows) \in Nat /\ DOMAIN rows = 1 .. Len(rows)
           /\ \A k \in 1 .. Len(rows) : rows[k] \in Row
           /\ rows = <<>> <=> Len(rows) = 0
           /\ Authoritative = {k \in 1 .. Len(rows) : rows[k].authoritative}
<1>1. rows \in Seq(Row)
  BY DEF CandleInv, CandleTypeOK
<1>2. Len(rows) \in Nat /\ DOMAIN rows = 1 .. Len(rows)
  BY <1>1, LenProperties
<1> QED BY <1>1, <1>2, ElementOfSeq, EmptySeq DEF Authoritative

\* A transaction that is back to idle, or has read a row, disturbs nothing.
LEMMA RollbackKeeps ==
    ASSUME CandleInv, NEW c \in Ingesters, Rollback(c)
    PROVE  CandleInv'
<1> USE DEF CandleInv, Rollback, Answered
<1>1. CandleTypeOK'
  BY Facts DEF CandleTypeOK, Ingestion, NoRow
<1>2. OpenInv' /\ NumberInv' /\ NewestInv'
  BY DEF OpenInv, NumberInv, NewestInv, CandleTypeOK, Inserting, Authoritative
<1>3. InsertInv'
  BY DEF InsertInv, CandleTypeOK, Inserting, Authoritative, Marks
<1> QED BY <1>1, <1>2, <1>3

\* The invariant holds initially.
LEMMA InitCandles == Init => CandleInv
<1> SUFFICES ASSUME Init PROVE CandleInv
  OBVIOUS
<1> USE DEF Init, Answered
<1>1. rows \in Seq(Row) /\ Len(rows) = 0 /\ DOMAIN rows = {}
  BY EmptySeq, LenProperties
<1>2. CandleTypeOK
  BY <1>1 DEF CandleTypeOK, Ingestion, NoRow
<1>3. OpenInv /\ NumberInv /\ InsertInv
  BY DEF OpenInv, NumberInv, InsertInv, Inserting
<1>4. NewestInv
  BY <1>1 DEF NewestInv, Authoritative
<1> QED BY <1>2, <1>3, <1>4 DEF CandleInv

\* An ingestion stays one when it finds a row or takes a number.
LEMMA IngestionFound ==
    ASSUME NEW t \in Ingestion, NEW k \in Nat, NEW f \in BOOLEAN
    PROVE  /\ [t EXCEPT !.phase = "found", !.found = k, !.flagged = f] \in Ingestion
           /\ [t EXCEPT !.phase = "found", !.found = k, !.flagged = f].found = k
BY DEF Ingestion

LEMMA IngestionNumbered ==
    ASSUME NEW t \in Ingestion, NEW n \in Nat
    PROVE  /\ [t EXCEPT !.phase = "numbered", !.revision = n] \in Ingestion
           /\ [t EXCEPT !.phase = "numbered", !.revision = n].found = t.found
BY DEF Ingestion

LEMMA BegunFits ==
    ASSUME NEW p \in WellFormed
    PROVE  Begun(p) \in Ingestion /\ Begun(p).found = 0
<1>1. Answered(NoRow) \in Ingestion
  BY DEF Answered, Ingestion, NoRow
<1>2. Begun(p) \in Ingestion
  BY <1>1 DEF Begun, Ingestion
<1> QED BY <1>2 DEF Begun, Answered, NoRow

\* A query finds a row that differs from the payload, or none.
LEMMA FindKeeps ==
    ASSUME CandleInv, NEW c \in Ingesters, NEW p \in Payloads,
           FindNone(c, p) \/ FindExisting(c, p) \/ ReturnExisting(c, p)
    PROVE  CandleInv'
<1>f. /\ rows \in Seq(Row) /\ Len(rows) \in Nat /\ DOMAIN rows = 1 .. Len(rows)
      /\ \A k \in 1 .. Len(rows) : rows[k] \in Row
      /\ rows = <<>> <=> Len(rows) = 0
      /\ Authoritative = {k \in 1 .. Len(rows) : rows[k].authoritative}
  BY Facts
<1> USE DEF CandleInv, Answered, Begun
<1>1. CASE FindNone(c, p)
  <2>1. CandleTypeOK'
    <3> DEFINE t == [Begun(p) EXCEPT !.phase = "numbered", !.revision = 1]
    <3>1. tx' = [tx EXCEPT ![c] = t] /\ rows' = rows /\ rejections' = rejections
          /\ p \in WellFormed
      BY <1>1 DEF FindNone
    <3>2. t \in Ingestion /\ t.found = 0
      BY <3>1, BegunFits, IngestionNumbered
    <3> HIDE DEF t
    <3> QED BY <3>1, <3>2, <1>f DEF CandleTypeOK
  <2>2. OpenInv'
    BY <1>1 DEF FindNone, OpenInv, CandleTypeOK, NoRow
  <2>3. NumberInv'
    BY <1>1, <1>f DEF FindNone, NumberInv, CandleTypeOK, Inserting
  <2>4. InsertInv' /\ NewestInv'
    BY <1>1 DEF FindNone, InsertInv, NewestInv, CandleTypeOK, Inserting, Authoritative, Marks
  <2> QED BY <2>1, <2>2, <2>3, <2>4
<1>2. CASE FindExisting(c, p)
  <2>1. PICK k \in 1 .. Len(rows) :
          /\ ~SamePayload(rows[k].payload, p)
          /\ tx' = [tx EXCEPT ![c] = [Begun(p) EXCEPT !.phase = "found", !.found = k,
                                                      !.flagged = rows[k].authoritative]]
    BY <1>2, <1>f DEF FindExisting
  <2>2. rows' = rows /\ rejections' = rejections /\ p \in WellFormed
    BY <1>2 DEF FindExisting
  <2>3. CandleTypeOK'
    <3> DEFINE t == [Begun(p) EXCEPT !.phase = "found", !.found = k,
                                     !.flagged = rows[k].authoritative]
    <3>1. rows[k].authoritative \in BOOLEAN /\ k \in Nat
      BY <1>f DEF Row
    <3>2. t \in Ingestion /\ t.found = k
      BY <2>2, <3>1, BegunFits, IngestionFound
    <3>3. tx' = [tx EXCEPT ![c] = t]
      BY <2>1
    <3> HIDE DEF t
    <3> QED BY <2>2, <3>2, <3>3, <1>f DEF CandleTypeOK
  <2>4. OpenInv'
    BY <2>1, <2>2 DEF OpenInv, CandleTypeOK, NoRow
  <2>5. NumberInv' /\ InsertInv' /\ NewestInv'
    BY <2>1, <2>2 DEF NumberInv, InsertInv, NewestInv, CandleTypeOK, Inserting,
                      Authoritative, Marks
  <2> QED BY <2>3, <2>4, <2>5
<1>3. CASE ReturnExisting(c, p)
  <2>1. CandleTypeOK'
    BY <1>3, <1>f DEF ReturnExisting, CandleTypeOK, Ingestion, NoRow
  <2>2. OpenInv' /\ NumberInv' /\ InsertInv' /\ NewestInv'
    BY <1>3 DEF ReturnExisting, OpenInv, NumberInv, InsertInv, NewestInv, CandleTypeOK,
                Inserting, Authoritative, Marks
  <2> QED BY <2>1, <2>2
<1> QED BY <1>1, <1>2, <1>3

\* The statements before the commit.
LEMMA StatementKeeps ==
    ASSUME CandleInv, NEW c \in Ingesters,
           ClearFlag(c) \/ NumberRevision(c) \/ InsertRevision(c) \/ InsertFlag(c)
    PROVE  CandleInv'
<1>f. /\ rows \in Seq(Row) /\ Len(rows) \in Nat /\ DOMAIN rows = 1 .. Len(rows)
      /\ \A k \in 1 .. Len(rows) : rows[k] \in Row
      /\ rows = <<>> <=> Len(rows) = 0
      /\ Authoritative = {k \in 1 .. Len(rows) : rows[k].authoritative}
  BY Facts
<1> USE DEF CandleInv
<1>1. CASE ClearFlag(c)
  <2>1. CandleTypeOK' /\ OpenInv' /\ NewestInv'
    BY <1>1, <1>f DEF ClearFlag, CandleTypeOK, Ingestion, OpenInv, NewestInv, Authoritative
  <2>2. NumberInv' /\ InsertInv'
    BY <1>1, <1>f DEF ClearFlag, CandleTypeOK, NumberInv, InsertInv, Inserting, Authoritative,
                      Marks
  <2> QED BY <2>1, <2>2
<1>2. CASE NumberRevision(c)
  <2>1. CandleTypeOK'
    <3>1. rows' = rows /\ rejections' = rejections
      BY <1>2 DEF NumberRevision
    <3>2. tx' = [tx EXCEPT ![c] = [tx[c] EXCEPT !.phase = "numbered", !.revision = Len(rows) + 1]]
      BY <1>2 DEF NumberRevision, CandleTypeOK
    <3>3. tx[c] \in Ingestion
      BY DEF CandleTypeOK
    <3>n. Len(rows) + 1 \in Nat
      BY <1>f
    <3>4. /\ [tx[c] EXCEPT !.phase = "numbered", !.revision = Len(rows) + 1] \in Ingestion
          /\ [tx[c] EXCEPT !.phase = "numbered", !.revision = Len(rows) + 1].found = tx[c].found
      <4> HIDE DEF CandleInv
      <4> QED BY ONLY <3>3, <3>n, IngestionNumbered
    <3> QED BY <3>1, <3>2, <3>3, <3>4 DEF CandleTypeOK
  <2>2. NumberInv'
    BY <1>2, <1>f DEF NumberRevision, CandleTypeOK, NumberInv, Inserting
  <2>3. OpenInv' /\ InsertInv' /\ NewestInv'
    BY <1>2 DEF NumberRevision, CandleTypeOK, OpenInv, InsertInv, NewestInv, Inserting,
                Authoritative, Marks
  <2> QED BY <2>1, <2>2, <2>3
<1>3. CASE InsertRevision(c)
  <2>1. tx[c].revision = Len(rows) + 1
    BY <1>3, <1>f DEF InsertRevision, NumberInv
  <2>2. \A d \in Ingesters : d # c => ~Inserting(d)
    BY <1>3, <2>1 DEF InsertRevision, WaitsFor, NumberInv, Inserting
  <2>3. CandleTypeOK' /\ OpenInv' /\ NewestInv'
    BY <1>3, <1>f DEF InsertRevision, CandleTypeOK, Ingestion, OpenInv, NewestInv, Authoritative
  <2>4. NumberInv'
    BY <1>3, <2>1 DEF InsertRevision, CandleTypeOK, NumberInv, Inserting
  <2>5. InsertInv'
    BY <1>3, <2>2 DEF InsertRevision, CandleTypeOK, InsertInv, Inserting, Authoritative, Marks
  <2> QED BY <2>3, <2>4, <2>5
<1>4. CASE InsertFlag(c)
  <2>1. CandleTypeOK' /\ OpenInv' /\ NewestInv'
    BY <1>4, <1>f DEF InsertFlag, CandleTypeOK, Ingestion, OpenInv, NewestInv, Authoritative
  <2>2. NumberInv'
    BY <1>4 DEF InsertFlag, CandleTypeOK, NumberInv, Inserting
  <2>3. \A k \in Authoritative : Marks(c, k)'
    BY <1>4 DEF InsertFlag, FlagTaken, Marks, CandleTypeOK
  <2>4. InsertInv'
    BY <1>4, <2>3 DEF InsertFlag, CandleTypeOK, InsertInv, Inserting, Authoritative, Marks
  <2> QED BY <2>1, <2>2, <2>4
<1> QED BY <1>1, <1>2, <1>3, <1>4

\* A commit leaves its row as the only authoritative one.
LEMMA CommitKeeps ==
    ASSUME CandleInv, NEW c \in Ingesters, Commit(c)
    PROVE  CandleInv'
<1>f. /\ rows \in Seq(Row) /\ Len(rows) \in Nat /\ DOMAIN rows = 1 .. Len(rows)
      /\ \A k \in 1 .. Len(rows) : rows[k] \in Row
      /\ rows = <<>> <=> Len(rows) = 0
      /\ Authoritative = {k \in 1 .. Len(rows) : rows[k].authoritative}
  BY Facts
<1>r. /\ rows' \in Seq(Row)
      /\ Len(rows') = Len(rows) + 1
      /\ \A k \in 1 .. Len(rows) :
            /\ rows'[k].payload = rows[k].payload
            /\ rows'[k].authoritative = (rows[k].authoritative /\ ~Marks(c, k))
      /\ rows'[Len(rows) + 1].payload = tx[c].payload
      /\ rows'[Len(rows) + 1].authoritative
  BY CommitRows
<1> USE DEF CandleInv
<1>1. /\ rejections' = rejections /\ tx[c].phase = "written"
      /\ tx' = [tx EXCEPT ![c] = Answered(tx[c].revision)]
  BY DEF Commit
<1>2. \A d \in Ingesters : d # c => ~Inserting(d) /\ tx'[d] = tx[d]
  BY <1>1 DEF InsertInv, Inserting, CandleTypeOK
<1>3. tx'[c].phase = "idle"
  BY <1>1 DEF Answered, CandleTypeOK
<1>4. CandleTypeOK'
  <2>1. tx' \in [Ingesters -> Ingestion]
    BY <1>1 DEF Answered, CandleTypeOK, Ingestion, NoRow
  <2>2. \A d \in Ingesters : tx'[d].found \in 0 .. Len(rows')
    BY <1>1, <1>2, <1>r, <1>f DEF Answered, CandleTypeOK, NoRow
  <2> QED BY <1>1, <2>1, <2>2, <1>r DEF CandleTypeOK
<1>5. OpenInv'
  <2>1. ASSUME NEW d \in Ingesters, d # c, tx[d].found # NoRow
        PROVE  rows'[tx[d].found].payload = rows[tx[d].found].payload
    BY <2>1, <1>r, <1>f DEF CandleTypeOK, NoRow
  <2> QED BY <1>2, <1>3, <2>1 DEF OpenInv
<1>6. NumberInv'
  BY <1>2, <1>3, <1>r, <1>f DEF NumberInv, Inserting
<1>7. InsertInv'
  BY <1>2, <1>3 DEF InsertInv, Inserting
<1>8. NewestInv'
  <2>1. DOMAIN rows' = 1 .. Len(rows) + 1 /\ rows' # <<>>
    BY <1>r, <1>f, LenProperties, EmptySeq
  <2>2. \A k \in 1 .. Len(rows) : ~rows'[k].authoritative
    BY <1>1, <1>r, <1>f DEF InsertInv
  <2>3. rows'[Len(rows) + 1].authoritative
    BY <1>r
  <2>4. Authoritative' = {Len(rows) + 1}
    BY <2>1, <2>2, <2>3, <1>f DEF Authoritative
  <2> QED BY <2>1, <2>4, <1>r DEF NewestInv
<1> QED BY <1>4, <1>5, <1>6, <1>7, <1>8

\* The inductive invariant of the revisions.
LEMMA CandleInvHolds == Spec => []CandleInv
<1>1. CandleInv /\ [Next]_vars => CandleInv'
  <2> SUFFICES ASSUME CandleInv, [Next]_vars PROVE CandleInv'
    OBVIOUS
  <2>1. ASSUME NEW p \in Payloads, RejectCandle(p) PROVE CandleInv'
    BY <2>1 DEF RejectCandle, CandleInv, CandleTypeOK, OpenInv, NumberInv, InsertInv,
                NewestInv, Inserting, Authoritative, Marks
  <2>2. ASSUME NEW c \in Ingesters, Advance(c) \/ Abort(c) \/ BreakDeadlock(c)
        PROVE  CandleInv'
    BY <2>2, RollbackKeeps, StatementKeeps, CommitKeeps
       DEF Advance, Conflict, Abort, BreakDeadlock
  <2>3. CASE UNCHANGED vars
    BY <2>3 DEF vars, CandleInv, CandleTypeOK, OpenInv, NumberInv, InsertInv,
                NewestInv, Inserting, Authoritative, Marks
  <2> QED BY <2>1, <2>2, <2>3, FindKeeps DEF Next
<1> QED BY <1>1, InitCandles, PTL DEF Spec

-----------------------------------------------------------------------------
(* Theorems *)

\* Rows and transactions are of their types.
THEOREM CandleTypeCorrect == Spec => []CandleTypeOK
BY CandleInvHolds, PTL DEF CandleInv

\* The newest revision, and it alone, is authoritative.
THEOREM NewestIsAuthoritativeHolds == Spec => []NewestIsAuthoritative
<1>1. CandleInv => NewestIsAuthoritative
  BY DEF CandleInv, NewestInv, NumberInv, Inserting, NewestIsAuthoritative
<1> QED BY <1>1, CandleInvHolds, PTL

\* The rows are a history that only grows, each revision correcting the one before.
THEOREM HistoryImplementation == Spec => ImplementsHistory
<1>1. Init => H!HistoryInit
  <2> SUFFICES ASSUME Init PROVE [k \in DOMAIN rows |-> Bar(rows[k].payload)] = <<>>
    BY DEF H!HistoryInit
  <2>1. DOMAIN rows = {}
    BY EmptySeq, LenProperties DEF Init
  <2> QED BY <2>1
<1>2. CandleInv /\ [Next]_vars => [\E b \in {Bar(p) : p \in WellFormed} : H!Correct(b)]_([k \in DOMAIN rows |-> Bar(rows[k].payload)])
  <2> SUFFICES ASSUME CandleInv, [Next]_vars, rows' # rows
               PROVE  \E b \in {Bar(p) : p \in WellFormed} : H!Correct(b)
    OBVIOUS
  <2>1. PICK c \in Ingesters : Commit(c)
    BY DEF Next, vars, RejectCandle, FindNone, FindExisting, ReturnExisting, Advance,
           ClearFlag, NumberRevision, InsertRevision, InsertFlag, Conflict, Abort,
           BreakDeadlock, Rollback
  <2> DEFINE h == [k \in DOMAIN rows |-> Bar(rows[k].payload)]
             b == Bar(tx[c].payload)
             B == {Bar(p) : p \in WellFormed}
  <2>2. b \in B
    BY <2>1 DEF Commit, CandleInv, OpenInv
  <2>3. h \in Seq(B) /\ Len(h) = Len(rows) /\ \A k \in 1 .. Len(rows) : h[k] = Bar(rows[k].payload)
    <3>1. h \in [1 .. Len(rows) -> B]
      BY Facts DEF Row
    <3>2. h \in Seq(B)
      BY <3>1, SeqDef, Facts
    <3> QED BY <3>1, <3>2, LenProperties, Facts
  <2>4. h # <<>> => h[Len(h)] # b
    <3> SUFFICES ASSUME h # <<>> PROVE h[Len(h)] # b
      OBVIOUS
    <3>1. Len(rows) \in 1 .. Len(rows)
      BY <2>3, Facts, EmptySeq
    <3>2. Marks(c, Len(rows))
      BY <2>1, <3>1, Facts DEF Commit, CandleInv, InsertInv, NewestInv
    <3>3. ~SamePayload(rows[Len(rows)].payload, tx[c].payload)
      BY <3>1, <3>2 DEF Marks, CandleInv, OpenInv, NoRow
    <3> QED BY <2>3, <3>1, <3>3 DEF SamePayload
  <2>5. h' = Append(h, b)
    <3>1. h' \in Seq(B) /\ Len(h') = Len(rows) + 1
          /\ \A k \in 1 .. Len(rows) + 1 : h'[k] = Bar(rows'[k].payload)
      <4>1. /\ rows' \in Seq(Row) /\ Len(rows') = Len(rows) + 1
            /\ DOMAIN rows' = 1 .. Len(rows) + 1
            /\ \A k \in 1 .. Len(rows) + 1 : rows'[k] \in Row
        BY <2>1, CommitRows, LenProperties, ElementOfSeq
      <4>2. h' \in [1 .. Len(rows) + 1 -> B]
        BY <4>1 DEF Row
      <4>3. h' \in Seq(B)
        BY <4>2, SeqDef, Facts
      <4> QED BY <4>1, <4>2, <4>3, LenProperties, Facts
    <3>c. /\ \A k \in 1 .. Len(rows) : rows'[k].payload = rows[k].payload
          /\ rows'[Len(rows) + 1].payload = tx[c].payload
      BY <2>1, CommitRows
    <3>f. Len(rows) \in Nat
      BY Facts
    <3>2. \A k \in 1 .. Len(rows) : h'[k] = h[k]
      <4> SUFFICES ASSUME NEW k \in 1 .. Len(rows) PROVE h'[k] = h[k]
        OBVIOUS
      <4>1. h'[k] = Bar(rows'[k].payload) /\ h[k] = Bar(rows[k].payload)
        <5> HIDE DEF h
        <5> QED BY <2>3, <3>1, <3>f
      <4>2. Bar(rows'[k].payload) = Bar(rows[k].payload)
        BY <3>c
      <4> QED BY <4>1, <4>2
    <3>3. h'[Len(rows) + 1] = b
      <4>1. h'[Len(rows) + 1] = Bar(rows'[Len(rows) + 1].payload)
        <5> HIDE DEF h
        <5> QED BY <3>1, <3>f
      <4>2. Bar(rows'[Len(rows) + 1].payload) = b
        BY <3>c
      <4> QED BY <4>1, <4>2
    <3>4. /\ Append(h, b) \in Seq(B) /\ Len(Append(h, b)) = Len(rows) + 1
          /\ \A k \in 1 .. Len(rows) : Append(h, b)[k] = h[k]
          /\ Append(h, b)[Len(rows) + 1] = b
      <4> HIDE DEF h, b, B
      <4> QED BY <2>2, <2>3, AppendProperties
    <3>5. \A k \in 1 .. Len(h') : h'[k] = Append(h, b)[k]
      <4> HIDE DEF h, b, B
      <4> QED BY <3>1, <3>2, <3>3, <3>4, Facts
    <3> HIDE DEF h, b, B
    <3> QED BY <3>1, <3>4, <3>5, SeqEqual
  <2> QED BY <2>2, <2>4, <2>5 DEF H!Correct
<1> QED BY <1>1, <1>2, CandleInvHolds, PTL DEF Spec, ImplementsHistory, H!HistorySpec
=============================================================================
