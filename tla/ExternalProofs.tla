----------------------------- MODULE ExternalProofs -----------------------------
(***************************************************************************)
(* Proofs about ExternalItems, for any workers, deliveries and words.      *)
(*                                                                         *)
(* The statements of a call change nothing but the call; TransactionKeeps  *)
(* says what of it the other calls depend on.  The commit is the one step  *)
(* that adds rows.                                                         *)
(***************************************************************************)
EXTENDS ExternalItems, FiniteSetTheorems, TLAPS

\* Comparing two items the other way round comes to the same relationship.
LEMMA RelationshipSymmetric ==
    \A d, e \in Deliveries : DetectRelationship(d, e) = DetectRelationship(e, d)
<1> SUFFICES ASSUME NEW d \in Deliveries, NEW e \in Deliveries
             PROVE  DetectRelationship(d, e) = DetectRelationship(e, d)
  OBVIOUS
<1>1. ASSUME NEW n PROVE Similar(d.title, e.title, n) = Similar(e.title, d.title, n)
  <2>1. d.title \cup e.title = e.title \cup d.title /\ d.title \cap e.title = e.title \cap d.title
    OBVIOUS
  <2> QED BY <2>1, Zenon DEF Similar
<1>2. WithinADay(d, e) = WithinADay(e, d)
  BY Zenon DEF WithinADay
<1>3. (d.page = e.page) = (e.page = d.page) /\ (d.provider = e.provider) = (e.provider = d.provider)
  OBVIOUS
<1> QED BY <1>1, <1>2, <1>3, Zenon DEF DetectRelationship

-----------------------------------------------------------------------------
(* Invariant *)

\* What a call knows of the rows, and what its own rows exclude.
CallInv(w) ==
    /\ calls[w].phase # "idle" => calls[w].delivery \in Deliveries
    /\ calls[w].phase \in {"idle", "capturing", "new_raw"} => calls[w].keeps = {}
    /\ calls[w].phase \in {"captured", "new_item"} => "item" \notin calls[w].keeps
    /\ calls[w].phase \in {"captured", "new_item", "normalized"} =>
          raw[calls[w].delivery] > 0 \/ "raw" \in calls[w].keeps
    /\ calls[w].phase = "normalized" =>
          /\ calls[w].of \in Deliveries
          /\ IF "item" \in calls[w].keeps
             THEN calls[w].of = calls[w].delivery
             ELSE [identity |-> Identity(w), of |-> calls[w].of] \in items
    /\ "item" \in calls[w].keeps => Stored(Identity(w)) = {}
    /\ "raw" \in calls[w].keeps /\ calls[w].delivery.id # NoId => raw[calls[w].delivery] = 0

SameItem(v, w) ==
    "item" \in calls[v].keeps /\ "item" \in calls[w].keeps /\ Identity(v) = Identity(w)
SameRaw(v, w) ==
    /\ "raw" \in calls[v].keeps
    /\ "raw" \in calls[w].keeps
    /\ calls[v].delivery = calls[w].delivery
    /\ calls[w].delivery.id # NoId
PairInv == \A v, w \in Workers : SameItem(v, w) \/ SameRaw(v, w) => v = w

ItemInv ==
    /\ \A x, y \in items : x.identity = y.identity => x = y
    /\ ItemsTraceToRaw

ClassInv ==
    \A c \in classified : \E x \in items :
        c = [identity |-> x.identity, result |-> Classification(x.of.title)]

LinkInv ==
    \A k \in linked : k.type = DetectRelationship(k.canonical.of, k.duplicate.of)

\* The calls that may still add a raw row of a delivery.
Pending(d) ==
    {w \in Workers : /\ calls[w].delivery = d
                     /\ calls[w].phase = "new_raw" \/ "raw" \in calls[w].keeps}
RawInv ==
    \A d \in Deliveries :
        /\ d.id # NoId => raw[d] <= 1
        /\ raw[d] + Cardinality(Pending(d)) <= Cardinality(Workers)

RowsInv == ItemInv /\ ClassInv /\ LinkInv
ExternalInv ==
    ItemsTypeOK /\ RowsInv /\ PairInv /\ RawInv /\ \A w \in Workers : CallInv(w)

\* The calls that are pending are among the workers, of whom there are finitely many.
LEMMA PendingFinite ==
    \A d : /\ IsFiniteSet(Pending(d))
           /\ Cardinality(Pending(d)) \in Nat
           /\ Cardinality(Workers) \in Nat
           /\ Cardinality(Pending(d)) <= Cardinality(Workers)
BY DeliveryAssumption, FS_Subset, FS_CardinalityType DEF Pending

\* A step that changes one call and no row keeps the invariant, if the call still
\* tells the truth, claims nothing that another call claims, and adds no row to
\* a delivery that has one.
LEMMA TransactionKeeps ==
    ASSUME ExternalInv, NEW w \in Workers, UNCHANGED Rows,
           calls' \in [Workers -> Call],
           \A v \in Workers : v # w => calls'[v] = calls[v],
           CallInv(w)',
           \A v \in Workers : v # w => ~SameItem(v, w)' /\ ~SameRaw(v, w)',
           \A d \in Deliveries : w \in Pending(d)' => w \in Pending(d) \/ raw[d] = 0
    PROVE  ExternalInv'
<1>1. /\ raw' = raw /\ items' = items /\ classified' = classified /\ linked' = linked
  BY DEF Rows
<1>2. ItemsTypeOK'
  BY <1>1 DEF ExternalInv, ItemsTypeOK
<1>3. RowsInv'
  BY <1>1 DEF ExternalInv, RowsInv, ItemInv, ClassInv, LinkInv, ItemsTraceToRaw
<1>4. \A v \in Workers : CallInv(v)'
  <2> SUFFICES ASSUME NEW v \in Workers, v # w PROVE CallInv(v)'
    OBVIOUS
  <2> QED BY <1>1 DEF ExternalInv, CallInv, Identity, Stored
<1>5. PairInv'
  <2> SUFFICES ASSUME NEW u \in Workers, NEW v \in Workers, u # v, u # w, v # w
               PROVE  ~SameItem(u, v)' /\ ~SameRaw(u, v)'
    BY DEF PairInv, SameItem, SameRaw
  <2> QED BY DEF ExternalInv, PairInv, SameItem, SameRaw, Identity
<1>6. RawInv'
  <2> SUFFICES ASSUME NEW d \in Deliveries
               PROVE  /\ d.id # NoId => raw[d] <= 1
                      /\ raw[d] + Cardinality(Pending(d)') <= Cardinality(Workers)
    BY <1>1 DEF RawInv
  <2>1. raw[d] \in Nat
    BY DEF ExternalInv, ItemsTypeOK
  <2>2. /\ Cardinality(Pending(d)') \in Nat /\ Cardinality(Pending(d)) \in Nat
        /\ Cardinality(Workers) \in Nat
        /\ IsFiniteSet(Pending(d)) /\ Cardinality(Pending(d)') <= Cardinality(Workers)
    <3>1. Pending(d)' \subseteq Workers
      BY DEF Pending
    <3> QED BY <3>1, PendingFinite, DeliveryAssumption, FS_Subset, FS_CardinalityType
  <2>3. CASE raw[d] = 0
    BY <2>2, <2>3
  <2>4. CASE raw[d] # 0
    <3>1. Pending(d)' \subseteq Pending(d)
      BY <2>4 DEF Pending
    <3>2. Cardinality(Pending(d)') <= Cardinality(Pending(d))
      BY <3>1, <2>2, FS_Subset
    <3> QED BY <2>1, <2>2, <3>2 DEF ExternalInv, RawInv
  <2> QED BY <2>3, <2>4
<1> QED BY <1>2, <1>3, <1>4, <1>5, <1>6 DEF ExternalInv

-----------------------------------------------------------------------------
(* Steps *)

\* The calls are of their type, and every delivery of an open one is delivered.
LEMMA ExternalFacts ==
    ASSUME ExternalInv, NEW w \in Workers
    PROVE  /\ calls \in [Workers -> Call] /\ calls[w] \in Call /\ CallInv(w)
           /\ \A d \in Deliveries : raw[d] \in Nat
BY DEF ExternalInv, ItemsTypeOK

LEMMA RollbackCall ==
    ASSUME ExternalInv, NEW w \in Workers, DropCall(w)
    PROVE  ExternalInv'
<1>f. calls \in [Workers -> Call]
  BY ExternalFacts
<1>1. calls'[w] = IdleCall /\ UNCHANGED Rows /\ \A v \in Workers : v # w => calls'[v] = calls[v]
  BY <1>f DEF DropCall
<1>2. IdleCall \in Call /\ IdleCall.phase = "idle" /\ IdleCall.keeps = {}
  BY DEF IdleCall, Call
<1>3. calls' \in [Workers -> Call]
  BY <1>f, <1>2 DEF DropCall
<1>4. CallInv(w)'
  BY <1>1, <1>2 DEF CallInv
<1> QED BY <1>1, <1>2, <1>3, <1>4, TransactionKeeps DEF SameItem, SameRaw, Pending

LEMMA ProcessItemKeeps ==
    ASSUME ExternalInv, NEW w \in Workers, NEW d \in Deliveries, ProcessItem(w, d)
    PROVE  ExternalInv'
<1> DEFINE t == [IdleCall EXCEPT !.phase = "capturing", !.delivery = d]
<1>f. calls \in [Workers -> Call]
  BY ExternalFacts
<1>1. UNCHANGED Rows /\ calls' = [calls EXCEPT ![w] = t]
  BY DEF ProcessItem
<1>2. t \in Call /\ t.phase = "capturing" /\ t.keeps = {} /\ t.delivery = d
  BY DEF IdleCall, Call
<1> HIDE DEF t
<1>3. calls'[w] = t /\ calls' \in [Workers -> Call] /\ \A v \in Workers : v # w => calls'[v] = calls[v]
  BY <1>f, <1>1, <1>2
<1>4. CallInv(w)'
  BY <1>2, <1>3 DEF CallInv
<1> QED BY <1>1, <1>2, <1>3, <1>4, TransactionKeeps DEF SameItem, SameRaw, Pending

LEMMA FindRawKeeps ==
    ASSUME ExternalInv, NEW w \in Workers, FindRaw(w)
    PROVE  ExternalInv'
<1>f. calls \in [Workers -> Call] /\ calls[w] \in Call /\ CallInv(w) /\ calls[w].delivery \in Deliveries
      /\ calls[w].phase = "capturing" /\ raw[calls[w].delivery] \in Nat
  BY ExternalFacts DEF FindRaw, CallInv
<1>1. /\ UNCHANGED Rows /\ raw' = raw
      /\ calls' \in [Workers -> Call] /\ \A v \in Workers : v # w => calls'[v] = calls[v]
      /\ calls'[w].phase = IF raw[calls[w].delivery] > 0 THEN "captured" ELSE "new_raw"
      /\ calls'[w].keeps = calls[w].keeps /\ calls'[w].delivery = calls[w].delivery
  BY <1>f DEF FindRaw, Call, Rows
<1>2. calls[w].keeps = {}
  BY <1>f DEF CallInv
<1>3. CallInv(w)'
  BY <1>f, <1>1, <1>2 DEF CallInv
<1> QED BY <1>f, <1>1, <1>2, <1>3, TransactionKeeps DEF SameItem, SameRaw, Pending

LEMMA InsertRawKeeps ==
    ASSUME ExternalInv, NEW w \in Workers, InsertRaw(w)
    PROVE  ExternalInv'
<1>f. calls \in [Workers -> Call] /\ calls[w] \in Call /\ CallInv(w) /\ calls[w].delivery \in Deliveries
      /\ calls[w].phase = "new_raw" /\ raw[calls[w].delivery] \in Nat
  BY ExternalFacts DEF InsertRaw, CallInv
<1>1. /\ UNCHANGED Rows /\ raw' = raw
      /\ calls' \in [Workers -> Call] /\ \A v \in Workers : v # w => calls'[v] = calls[v]
      /\ calls'[w].phase = "captured" /\ calls'[w].keeps = {"raw"} /\ calls'[w].delivery = calls[w].delivery
  BY <1>f DEF InsertRaw, Call, Rows
<1>2. CallInv(w)'
  BY <1>f, <1>1 DEF InsertRaw, RawTaken, CallInv
<1>3. \A v \in Workers : v # w => ~SameItem(v, w)' /\ ~SameRaw(v, w)'
  BY <1>f, <1>1 DEF InsertRaw, RawHolders, SameItem, SameRaw
<1> QED BY <1>f, <1>1, <1>2, <1>3, TransactionKeeps DEF Pending

LEMMA FindItemKeeps ==
    ASSUME ExternalInv, NEW w \in Workers, FindItem(w)
    PROVE  ExternalInv'
<1>f. calls \in [Workers -> Call] /\ calls[w] \in Call /\ CallInv(w) /\ calls[w].phase = "captured"
      /\ items \subseteq Item
  BY ExternalFacts DEF FindItem, ExternalInv, ItemsTypeOK
<1>0. UNCHANGED Rows /\ raw' = raw /\ items' = items /\ "item" \notin calls[w].keeps
  BY <1>f DEF FindItem, Rows, CallInv
<1>1. CASE \E x \in Stored(Identity(w)) :
             calls' = [calls EXCEPT ![w].phase = "normalized", ![w].of = x.of]
  <2>1. PICK x \in Stored(Identity(w)) :
               calls' = [calls EXCEPT ![w].phase = "normalized", ![w].of = x.of]
    BY <1>1
  <2>2. x \in items /\ x.identity = Identity(w) /\ x.of \in Deliveries
    BY <1>f DEF Stored, Item
  <2>3. x = [identity |-> Identity(w), of |-> x.of]
    BY <1>f, <2>2 DEF Item
  <2>4. /\ calls' \in [Workers -> Call] /\ \A v \in Workers : v # w => calls'[v] = calls[v]
        /\ calls'[w].phase = "normalized" /\ calls'[w].keeps = calls[w].keeps
        /\ calls'[w].delivery = calls[w].delivery /\ calls'[w].of = x.of
    BY <1>f, <2>1, <2>2 DEF Call
  <2>5. CallInv(w)'
    BY <1>f, <1>0, <2>2, <2>3, <2>4 DEF CallInv, Identity
  <2>6. \A v \in Workers : v # w => ~SameItem(v, w)' /\ ~SameRaw(v, w)'
    BY <1>0, <2>4 DEF SameItem, SameRaw, ExternalInv, PairInv
  <2> QED BY <1>0, <2>4, <2>5, <2>6, TransactionKeeps DEF Pending
<1>2. CASE calls' = [calls EXCEPT ![w].phase = "new_item"]
  <2>1. /\ calls' \in [Workers -> Call] /\ \A v \in Workers : v # w => calls'[v] = calls[v]
        /\ calls'[w].phase = "new_item" /\ calls'[w].keeps = calls[w].keeps
        /\ calls'[w].delivery = calls[w].delivery
    BY <1>f, <1>2 DEF Call
  <2>2. CallInv(w)'
    BY <1>f, <1>0, <2>1 DEF CallInv
  <2>3. \A v \in Workers : v # w => ~SameItem(v, w)' /\ ~SameRaw(v, w)'
    BY <1>0, <2>1 DEF SameItem, SameRaw, ExternalInv, PairInv
  <2> QED BY <1>0, <2>1, <2>2, <2>3, TransactionKeeps DEF Pending
<1> QED BY <1>1, <1>2 DEF FindItem

LEMMA InsertItemKeeps ==
    ASSUME ExternalInv, NEW w \in Workers, InsertItem(w)
    PROVE  ExternalInv'
<1>f. calls \in [Workers -> Call] /\ calls[w] \in Call /\ CallInv(w) /\ calls[w].delivery \in Deliveries
      /\ calls[w].phase = "new_item"
  BY ExternalFacts DEF InsertItem, CallInv
<1>1. /\ UNCHANGED Rows /\ raw' = raw /\ items' = items
      /\ calls' \in [Workers -> Call] /\ \A v \in Workers : v # w => calls'[v] = calls[v]
      /\ calls'[w].phase = "normalized" /\ calls'[w].keeps = calls[w].keeps \cup {"item"}
      /\ calls'[w].delivery = calls[w].delivery /\ calls'[w].of = calls[w].delivery
  BY <1>f DEF InsertItem, Call, Rows
<1>2. Identity(w)' = Identity(w)
  BY <1>1 DEF Identity
<1>3. CallInv(w)'
  BY <1>f, <1>1, <1>2 DEF InsertItem, IdentityTaken, Stored, CallInv
<1>4. \A v \in Workers : v # w => ~SameItem(v, w)' /\ ~SameRaw(v, w)'
  <2> SUFFICES ASSUME NEW v \in Workers, v # w PROVE ~SameItem(v, w)' /\ ~SameRaw(v, w)'
    OBVIOUS
  <2>1. ~SameItem(v, w)'
    BY <1>1, <1>2 DEF InsertItem, ItemHolders, SameItem, Identity
  <2>2. ~SameRaw(v, w)'
    BY <1>1 DEF SameRaw, ExternalInv, PairInv
  <2> QED BY <2>1, <2>2
<1> QED BY <1>f, <1>1, <1>3, <1>4, TransactionKeeps DEF Pending

LEMMA LinkDuplicateKeeps ==
    ASSUME ExternalInv, NEW x \in items, NEW y \in items, LinkDuplicate(x, y)
    PROVE  ExternalInv'
<1> DEFINE link == [canonical |-> x, duplicate |-> y, type |-> DetectRelationship(x.of, y.of)]
<1>1. linked' = linked \cup {link} /\ UNCHANGED <<raw, items, classified, calls>>
  BY DEF LinkDuplicate
<1>2. link \in Link
  BY DEF ExternalInv, ItemsTypeOK, Link, DetectRelationship
<1>3. link.type = DetectRelationship(link.canonical.of, link.duplicate.of)
  OBVIOUS
<1> HIDE DEF link
<1>4. ItemsTypeOK'
  BY <1>1, <1>2 DEF ExternalInv, ItemsTypeOK
<1>5. RowsInv'
  BY <1>1, <1>3 DEF ExternalInv, RowsInv, ItemInv, ItemsTraceToRaw, ClassInv, LinkInv
<1>6. PairInv' /\ RawInv' /\ \A w \in Workers : CallInv(w)'
  BY <1>1 DEF ExternalInv, PairInv, SameItem, SameRaw, Identity, RawInv, Pending, CallInv, Stored
<1> QED BY <1>4, <1>5, <1>6 DEF ExternalInv

\* What a commit does to the rows and to the calls.
LEMMA CommitEffect ==
    ASSUME ExternalInv, NEW w \in Workers, CommitCall(w)
    PROVE  /\ calls[w].phase = "normalized" /\ calls[w].delivery \in Deliveries
           /\ calls[w].of \in Deliveries
           /\ linked' = linked
           /\ calls' \in [Workers -> Call]
           /\ calls'[w].phase = "idle" /\ calls'[w].keeps = {}
           /\ \A v \in Workers : v # w => calls'[v] = calls[v]
           /\ raw' \in [Deliveries -> Nat]
           /\ raw'[calls[w].delivery] > 0
           /\ \A d \in Deliveries :
                 raw'[d] = IF d = calls[w].delivery /\ "raw" \in calls[w].keeps
                           THEN raw[d] + 1 ELSE raw[d]
           /\ [identity |-> Identity(w), of |-> calls[w].of] \in items'
           /\ items \subseteq items'
           /\ items' \subseteq Item
           /\ "item" \notin calls[w].keeps => items' = items
           /\ \A x \in items' : x \in items \/
                 /\ "item" \in calls[w].keeps
                 /\ x.identity = Identity(w) /\ x.of = calls[w].delivery
<1>1. calls \in [Workers -> Call] /\ calls[w] \in Call /\ CallInv(w) /\ calls[w].phase = "normalized"
      /\ raw \in [Deliveries -> Nat] /\ items \subseteq Item
  BY ExternalFacts DEF CommitCall, ExternalInv, ItemsTypeOK
<1>2. calls[w].delivery \in Deliveries /\ calls[w].of \in Deliveries
  BY <1>1 DEF CallInv
<1>3. IdleCall \in Call /\ IdleCall.phase = "idle" /\ IdleCall.keeps = {}
  BY DEF IdleCall, Call
<1>4. /\ calls' \in [Workers -> Call] /\ calls'[w] = IdleCall /\ linked' = linked
      /\ \A v \in Workers : v # w => calls'[v] = calls[v]
  BY <1>1, <1>3 DEF CommitCall
<1>5. /\ raw' \in [Deliveries -> Nat]
      /\ \A d \in Deliveries :
            raw'[d] = IF d = calls[w].delivery /\ "raw" \in calls[w].keeps THEN raw[d] + 1 ELSE raw[d]
  BY <1>1, <1>2 DEF CommitCall
<1>6. raw'[calls[w].delivery] > 0
  BY <1>1, <1>2, <1>5 DEF CallInv
<1> DEFINE new == [identity |-> Identity(w), of |-> calls[w].of]
<1>7. /\ new.identity = Identity(w) /\ new.of = calls[w].of /\ new \in Item
  BY <1>2 DEF Item, Identity
<1>8. items' = IF "item" \in calls[w].keeps THEN items \cup {new} ELSE items
  BY DEF CommitCall
<1>9. "item" \in calls[w].keeps => calls[w].of = calls[w].delivery
  BY <1>1 DEF CallInv
<1>10. "item" \notin calls[w].keeps => new \in items
  BY <1>1 DEF CallInv
<1>11. new \in items'
  <2> HIDE DEF new
  <2> QED BY <1>8, <1>10
<1>12. /\ items \subseteq items' /\ items' \subseteq Item
       /\ "item" \notin calls[w].keeps => items' = items
       /\ \A x \in items' : x \in items \/
             ("item" \in calls[w].keeps /\ x.identity = Identity(w) /\ x.of = calls[w].delivery)
  <2> HIDE DEF new
  <2> QED BY <1>1, <1>7, <1>8, <1>9
<1> QED BY <1>1, <1>2, <1>3, <1>4, <1>5, <1>6, <1>11, <1>12

\* The rows that a commit adds.
LEMMA CommitRowsKeep ==
    ASSUME ExternalInv, NEW w \in Workers, CommitCall(w)
    PROVE  ItemsTypeOK' /\ RowsInv'
<1>e. /\ calls[w].phase = "normalized" /\ calls[w].delivery \in Deliveries /\ calls[w].of \in Deliveries
      /\ linked' = linked /\ calls' \in [Workers -> Call] /\ raw' \in [Deliveries -> Nat]
      /\ raw'[calls[w].delivery] > 0
      /\ [identity |-> Identity(w), of |-> calls[w].of] \in items'
      /\ items \subseteq items' /\ items' \subseteq Item
      /\ \A x \in items' : x \in items \/
            ("item" \in calls[w].keeps /\ x.identity = Identity(w) /\ x.of = calls[w].delivery)
      /\ \A d \in Deliveries : raw[d] > 0 => raw'[d] > 0
  BY CommitEffect, ExternalFacts
<1>1. ItemInv'
  <2>1. \A x, y \in items' : x.identity = y.identity => x = y
    <3> SUFFICES ASSUME NEW x \in items', NEW y \in items', x.identity = y.identity
                 PROVE  x = y
      OBVIOUS
    <3>1. CASE "item" \notin calls[w].keeps
      BY <1>e, <3>1 DEF ExternalInv, RowsInv, ItemInv
    <3>2. CASE "item" \in calls[w].keeps
      <4>1. Stored(Identity(w)) = {}
        BY <3>2 DEF ExternalInv, CallInv
      <4>2. \A z \in items : z.identity # Identity(w)
        BY <4>1 DEF Stored
      <4>3. x \in Item /\ y \in Item
        BY <1>e
      <4> QED BY <1>e, <4>2, <4>3 DEF ExternalInv, RowsInv, ItemInv, Item
    <3> QED BY <3>1, <3>2
  <2>2. ItemsTraceToRaw'
    <3> SUFFICES ASSUME NEW x \in items'
                 PROVE  raw'[x.of] > 0 /\ x.identity = CanonicalIdentity(x.of)
      BY DEF ItemsTraceToRaw
    <3>1. x.of \in Deliveries
      BY <1>e DEF Item
    <3> QED BY <1>e, <3>1 DEF ExternalInv, RowsInv, ItemInv, ItemsTraceToRaw, Identity
  <2> QED BY <2>1, <2>2 DEF ItemInv
<1>2. ClassInv'
  <2> DEFINE x == [identity |-> Identity(w), of |-> calls[w].of]
             c == [identity |-> Identity(w), result |-> Classification(calls[w].of.title)]
  <2>1. classified' = classified \cup {c}
    BY DEF CommitCall, Classified
  <2>2. x \in items' /\ c = [identity |-> x.identity, result |-> Classification(x.of.title)]
    BY <1>e
  <2> HIDE DEF x, c
  <2> QED BY <1>e, <2>1, <2>2 DEF ExternalInv, RowsInv, ClassInv
<1>3. LinkInv'
  BY <1>e DEF ExternalInv, RowsInv, LinkInv
<1>4. \A c \in classified' : c.identity \in {x.identity : x \in items'}
  <2> SUFFICES ASSUME NEW c \in classified' PROVE \E x \in items' : c.identity = x.identity
    OBVIOUS
  <2>1. PICK x \in items' : c = [identity |-> x.identity, result |-> Classification(x.of.title)]
    BY <1>2 DEF ClassInv
  <2>2. c.identity = x.identity
    BY <2>1
  <2> QED BY <2>2
<1>5. ItemsTypeOK'
  BY <1>e, <1>4 DEF ExternalInv, ItemsTypeOK
<1> QED BY <1>1, <1>2, <1>3, <1>5 DEF RowsInv

\* The other calls after a commit: none of them claims what has become a row.
LEMMA CommitKeepsCalls ==
    ASSUME ExternalInv, NEW w \in Workers, CommitCall(w)
    PROVE  PairInv' /\ \A v \in Workers : CallInv(v)'
<1>e. /\ calls[w].delivery \in Deliveries
      /\ calls'[w].phase = "idle" /\ calls'[w].keeps = {}
      /\ \A v \in Workers : v # w => calls'[v] = calls[v]
      /\ items \subseteq items'
      /\ \A x \in items' : x \in items \/
            ("item" \in calls[w].keeps /\ x.identity = Identity(w) /\ x.of = calls[w].delivery)
      /\ \A d \in Deliveries :
            /\ raw[d] \in Nat
            /\ raw'[d] = IF d = calls[w].delivery /\ "raw" \in calls[w].keeps
                         THEN raw[d] + 1 ELSE raw[d]
  BY CommitEffect, ExternalFacts
<1>1. PairInv'
  BY <1>e DEF ExternalInv, PairInv, SameItem, SameRaw, Identity
<1>2. ASSUME NEW v \in Workers, v # w PROVE CallInv(v)'
  <2>1. calls'[v] = calls[v] /\ Identity(v)' = Identity(v) /\ CallInv(v)
    BY <1>2, <1>e DEF ExternalInv, Identity
  <2>2. calls[v].phase # "idle" => calls[v].delivery \in Deliveries
    BY <2>1 DEF CallInv
  <2>3. calls[v].phase \in {"captured", "new_item", "normalized"} =>
            raw'[calls[v].delivery] > 0 \/ "raw" \in calls[v].keeps
    BY <1>e, <2>1, <2>2 DEF CallInv
  <2>4. "item" \in calls[v].keeps => Stored(Identity(v))' = {}
    <3> SUFFICES ASSUME "item" \in calls[v].keeps, NEW x \in items', x.identity = Identity(v)
                 PROVE  FALSE
      BY <2>1 DEF Stored
    <3>1. x \notin items
      BY <2>1 DEF CallInv, Stored
    <3>2. SameItem(v, w)
      BY <1>e, <3>1 DEF SameItem
    <3> QED BY <1>2, <3>2 DEF ExternalInv, PairInv
  <2>5. "raw" \in calls[v].keeps /\ calls[v].delivery.id # NoId => raw'[calls[v].delivery] = 0
    <3> SUFFICES ASSUME "raw" \in calls[v].keeps, calls[v].delivery.id # NoId
                 PROVE  raw'[calls[v].delivery] = 0
      OBVIOUS
    <3>1. raw[calls[v].delivery] = 0 /\ calls[v].phase # "idle"
      BY <2>1 DEF CallInv
    <3>2. ~SameRaw(w, v)
      BY <1>2 DEF ExternalInv, PairInv
    <3> QED BY <1>e, <2>2, <3>1, <3>2 DEF SameRaw
  <2>6. calls[v].phase = "normalized" /\ "item" \notin calls[v].keeps =>
            [identity |-> Identity(v), of |-> calls[v].of] \in items'
    BY <1>e, <2>1 DEF CallInv
  <2>7. /\ calls[v].phase \in {"idle", "capturing", "new_raw"} => calls[v].keeps = {}
        /\ calls[v].phase \in {"captured", "new_item"} => "item" \notin calls[v].keeps
        /\ calls[v].phase = "normalized" =>
              calls[v].of \in Deliveries /\ ("item" \in calls[v].keeps => calls[v].of = calls[v].delivery)
    BY <2>1 DEF CallInv
  <2> QED BY <2>1, <2>2, <2>3, <2>4, <2>5, <2>6, <2>7 DEF CallInv
<1>3. CallInv(w)'
  BY <1>e DEF CallInv
<1> QED BY <1>1, <1>2, <1>3

\* A commit turns a pending call into a raw row.
LEMMA CommitKeepsRaw ==
    ASSUME ExternalInv, NEW w \in Workers, CommitCall(w)
    PROVE  RawInv'
<1> SUFFICES ASSUME NEW d \in Deliveries
             PROVE  /\ d.id # NoId => raw'[d] <= 1
                    /\ raw'[d] + Cardinality(Pending(d)') <= Cardinality(Workers)
  BY DEF RawInv
<1>e. /\ calls[w].phase = "normalized" /\ calls'[w].phase = "idle" /\ calls'[w].keeps = {}
      /\ \A v \in Workers : v # w => calls'[v] = calls[v]
      /\ raw[d] \in Nat
      /\ raw'[d] = IF d = calls[w].delivery /\ "raw" \in calls[w].keeps THEN raw[d] + 1 ELSE raw[d]
      /\ CallInv(w)
  BY CommitEffect, ExternalFacts
<1>f. /\ IsFiniteSet(Pending(d)) /\ Cardinality(Pending(d)) \in Nat
      /\ Cardinality(Workers) \in Nat
      /\ d.id # NoId => raw[d] <= 1
      /\ raw[d] + Cardinality(Pending(d)) <= Cardinality(Workers)
  BY PendingFinite DEF ExternalInv, RawInv
<1>1. CASE d = calls[w].delivery /\ "raw" \in calls[w].keeps
  <2>1. d.id # NoId => raw[d] = 0
    BY <1>1, <1>e DEF CallInv
  <2>2. w \in Pending(d) /\ Pending(d)' = Pending(d) \ {w}
    BY <1>1, <1>e DEF Pending
  <2>3. Cardinality(Pending(d)') = Cardinality(Pending(d)) - 1
    BY <2>2, <1>f, FS_RemoveElement
  <2> QED BY <1>1, <1>e, <1>f, <2>1, <2>3
<1>2. CASE ~(d = calls[w].delivery /\ "raw" \in calls[w].keeps)
  <2>1. Pending(d)' = Pending(d)
    BY <1>2, <1>e DEF Pending
  <2> QED BY <1>2, <1>e, <1>f, <2>1
<1> QED BY <1>1, <1>2

LEMMA InitItems == ItemsInit => ExternalInv
<1> SUFFICES ASSUME ItemsInit PROVE ExternalInv
  OBVIOUS
<1>1. IdleCall \in Call /\ IdleCall.phase = "idle" /\ IdleCall.keeps = {}
  BY DEF IdleCall, Call
<1>2. ItemsTypeOK /\ RowsInv
  BY <1>1 DEF ItemsInit, ItemsTypeOK, RowsInv, ItemInv, ItemsTraceToRaw, ClassInv, LinkInv
<1>3. PairInv /\ \A w \in Workers : CallInv(w)
  BY <1>1 DEF ItemsInit, PairInv, SameItem, SameRaw, CallInv
<1>4. RawInv
  <2> SUFFICES ASSUME NEW d \in Deliveries PROVE raw[d] = 0
    BY PendingFinite DEF RawInv
  <2> QED BY DEF ItemsInit
<1> QED BY <1>2, <1>3, <1>4 DEF ExternalInv

LEMMA ExternalInvHolds == ItemsSpec => []ExternalInv
<1>1. ExternalInv /\ [ItemsNext]_itemVars => ExternalInv'
  <2> SUFFICES ASSUME ExternalInv, [ItemsNext]_itemVars PROVE ExternalInv'
    OBVIOUS
  <2>1. ASSUME NEW w \in Workers, CommitCall(w) PROVE ExternalInv'
    BY <2>1, CommitRowsKeep, CommitKeepsCalls, CommitKeepsRaw DEF ExternalInv
  <2>2. ASSUME NEW w \in Workers, AdvanceCall(w) \/ AbortCall(w) PROVE ExternalInv'
    BY <2>1, <2>2, FindRawKeeps, InsertRawKeeps, FindItemKeeps, InsertItemKeeps, RollbackCall
       DEF AdvanceCall, KeyConflict, AbortCall
  <2>3. CASE UNCHANGED itemVars
    BY <2>3 DEF itemVars, ExternalInv, ItemsTypeOK, RowsInv, ItemInv, ItemsTraceToRaw, ClassInv,
                LinkInv, PairInv, SameItem, SameRaw, Identity, RawInv, Pending, CallInv, Stored
  <2> QED BY <2>2, <2>3, ProcessItemKeeps, LinkDuplicateKeeps DEF ItemsNext
<1> QED BY <1>1, InitItems, PTL DEF ItemsSpec

-----------------------------------------------------------------------------
(* Theorems *)

\* Rows and calls are of their types, and every classification is of an item.
THEOREM ItemsTypeCorrect == ItemsSpec => []ItemsTypeOK
BY ExternalInvHolds, PTL DEF ExternalInv

\* Deliveries with one identity come to one item, those with a provider's id to
\* one raw row, and overlapping workers bound the raw rows without an id.
THEOREM DuplicatesCollapseHolds == ItemsSpec => []DuplicatesCollapse
<1>1. ExternalInv => DuplicatesCollapse
  <2> SUFFICES ASSUME ExternalInv, NEW d \in Deliveries
               PROVE  raw[d] <= IF d.id = NoId THEN Cardinality(Workers) ELSE 1
    BY DEF DuplicatesCollapse, ExternalInv, RowsInv, ItemInv
  <2>1. /\ raw[d] \in Nat
        /\ d.id # NoId => raw[d] <= 1
        /\ raw[d] + Cardinality(Pending(d)) <= Cardinality(Workers)
    BY DEF ExternalInv, ItemsTypeOK, RawInv
  <2> QED BY <2>1, PendingFinite
<1> QED BY <1>1, ExternalInvHolds, PTL

\* Every item has the raw payload that it was made from.
THEOREM ItemsTraceToRawHolds == ItemsSpec => []ItemsTraceToRaw
<1>1. ExternalInv => ItemsTraceToRaw
  BY DEF ExternalInv, RowsInv, ItemInv
<1> QED BY <1>1, ExternalInvHolds, PTL

\* An item has one classification, however often and from whatever it is processed.
THEOREM ClassificationsAgreeHolds == ItemsSpec => []ClassificationsAgree
<1>1. ExternalInv => ClassificationsAgree
  <2> SUFFICES ASSUME ExternalInv, NEW b \in classified, NEW c \in classified,
                      b.identity = c.identity
               PROVE  b = c
    BY DEF ClassificationsAgree
  <2>1. PICK x \in items : b = [identity |-> x.identity, result |-> Classification(x.of.title)]
    BY DEF ExternalInv, RowsInv, ClassInv
  <2>2. PICK y \in items : c = [identity |-> y.identity, result |-> Classification(y.of.title)]
    BY DEF ExternalInv, RowsInv, ClassInv
  <2>3. b.identity = x.identity /\ c.identity = y.identity
    BY <2>1, <2>2
  <2>4. x = y
    BY <2>3 DEF ExternalInv, RowsInv, ItemInv
  <2> QED BY <2>1, <2>2, <2>4
<1> QED BY <1>1, ExternalInvHolds, PTL

\* A link says the same whichever item is called the canonical one.
THEOREM LinksAgreeHolds == ItemsSpec => []LinksAgree
<1>1. ExternalInv => LinksAgree
  <2> SUFFICES ASSUME ExternalInv, NEW k \in linked
               PROVE  DetectRelationship(k.duplicate.of, k.canonical.of) = k.type
    BY DEF LinksAgree
  <2>1. k.duplicate.of \in Deliveries /\ k.canonical.of \in Deliveries
    BY DEF ExternalInv, ItemsTypeOK, Link, Item
  <2>2. k.type = DetectRelationship(k.canonical.of, k.duplicate.of)
    BY DEF ExternalInv, RowsInv, LinkInv
  <2> QED BY <2>1, <2>2, RelationshipSymmetric
<1> QED BY <1>1, ExternalInvHolds, PTL
=============================================================================
