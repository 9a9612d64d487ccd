----------------------------- MODULE ExternalItems -----------------------------
(***************************************************************************)
(* News items from external providers                                      *)
(* (apps/api/app/external_intelligence): process_item stores the raw       *)
(* payload, collapses it into a canonical item, and classifies the item.   *)
(* Each call is a transaction of its own at READ COMMITTED, and any number *)
(* of workers process what the providers deliver, again and in any order.  *)
(*                                                                         *)
(* Two unique keys guard the rows: (provider, provider_item_id, checksum)  *)
(* of a raw item, in which two NULLs are never equal, and the canonical    *)
(* identity of an item.                                                    *)
(***************************************************************************)
EXTENDS Naturals, FiniteSets

CONSTANTS
    Workers,
    Providers,
    Ids, NoId,              \* provider_item_id, which may be missing
    Pages, NoPage,          \* what canonical_url keeps of an address, which may be empty
    Trackers,               \* what it drops: utm_ parameters, the fragment
    Words,                  \* normalised words and phrases of titles
    Denials, Awards,        \* those that classify looks for
    Deliveries,             \* what is delivered
    NoDelivery,
    MaxLinks                \* bound of the model

Delivery == [provider : Providers, id : Ids \cup {NoId}, page : Pages,
             tracker : Trackers, title : SUBSET Words, published : Nat]

ASSUME DeliveryAssumption ==
    /\ Deliveries \subseteq Delivery
    /\ NoDelivery \notin Deliveries
    /\ NoId \notin Ids
    /\ NoPage \in Pages
    /\ Denials \subseteq Words
    /\ Awards \subseteq Words
    /\ IsFiniteSet(Workers)
    /\ MaxLinks \in Nat

VARIABLES
    raw,            \* how many rows in external_raw_items a delivery has
    items,          \* external_items, each with the delivery it was made from
    classified,     \* external_classifications, without the times
    linked,         \* external_duplicate_links, likewise
    calls              \* the call of each worker

itemVars == <<raw, items, classified, linked, calls>>

-----------------------------------------------------------------------------
(* The rules of engine.py *)

\* Identities of different providers are not kept apart.
CanonicalIdentity(d) ==
    CASE d.id # NoId -> <<"id", d.id>>
      [] d.id = NoId /\ d.page # NoPage -> <<"page", d.page>>
      [] OTHER -> <<"title", d.title, d.published>>

Classify(title) ==
    CASE title \cap Denials # {} ->
            [category |-> "rumour", impact |-> "unknown", confirmation |-> "denied"]
      [] title \cap Denials = {} /\ title \cap Awards # {} ->
            [category |-> "order_win", impact |-> "positive", confirmation |-> "reported"]
      [] OTHER ->
            [category |-> "unknown", impact |-> "unknown", confirmation |-> "unknown"]

\* persist_classification keeps "denied" and forgets "reported", as both providers
\* are aggregators; an item that is only mentioned is never of high importance.
Classification(title) ==
    LET c == Classify(title) IN
    [category |-> c.category, impact |-> c.impact,
     confirmation |-> IF c.confirmation = "denied" THEN "denied" ELSE "unknown",
     importance |-> IF c.category = "order_win" THEN "medium" ELSE "low"]

\* A faulty variant that asks how much of the first title is in the second.
SimilarToFirst(s, t, percent) ==
    \/ s \cup t = {}
    \/ 100 * Cardinality(s \cap t) >= percent * Cardinality(s)

\* title_similarity, the shared part of all words, against a threshold in percent.
Similar(s, t, percent) ==
    \/ s \cup t = {}
    \/ 100 * Cardinality(s \cap t) >= percent * Cardinality(s \cup t)

WithinADay(d, e) == d.published <= e.published + 1 /\ e.published <= d.published + 1

DetectRelationship(d, e) ==
    IF d.page = e.page THEN "exact_duplicate"
    ELSE IF d.provider = e.provider /\ Similar(d.title, e.title, 90) THEN "near_duplicate"
    ELSE IF Similar(d.title, e.title, 75) /\ WithinADay(d, e) THEN "syndicated_copy"
    ELSE "related_but_distinct"

-----------------------------------------------------------------------------
(* State *)

Item == [identity : {CanonicalIdentity(d) : d \in Deliveries}, of : Deliveries]
Link == [canonical : Item, duplicate : Item,
         type : {"exact_duplicate", "near_duplicate", "syndicated_copy",
                 "related_but_distinct"}]

\* keeps: the rows of the call that are not committed; of: the delivery that its
\* item was made from.
Call ==
    [phase : {"idle", "capturing", "new_raw", "captured", "new_item", "normalized"},
     delivery : Deliveries \cup {NoDelivery},
     of : Deliveries \cup {NoDelivery},
     keeps : SUBSET {"raw", "item"}]
IdleCall == [phase |-> "idle", delivery |-> NoDelivery, of |-> NoDelivery, keeps |-> {}]

ItemsTypeOK ==
    /\ raw \in [Deliveries -> Nat]
    /\ items \subseteq Item
    /\ \A c \in classified : c.identity \in {x.identity : x \in items}
    /\ linked \subseteq Link
    /\ calls \in [Workers -> Call]

ItemsInit ==
    /\ raw = [d \in Deliveries |-> 0]
    /\ items = {}
    /\ classified = {}
    /\ linked = {}
    /\ calls = [w \in Workers |-> IdleCall]

-----------------------------------------------------------------------------
(* process_item, one action per statement *)

Rows == <<raw, items, classified, linked>>
Identity(w) == CanonicalIdentity(calls[w].delivery)
Stored(identity) == {x \in items : x.identity = identity}

\* Workers with an uncommitted row that the next INSERT of w may repeat.
RawHolders(w) ==
    {v \in Workers \ {w} : /\ "raw" \in calls[v].keeps
                           /\ calls[v].delivery = calls[w].delivery
                           /\ calls[v].delivery.id # NoId}
ItemHolders(w) == {v \in Workers \ {w} : "item" \in calls[v].keeps /\ Identity(v) = Identity(w)}

DropCall(w) ==
    /\ calls' = [calls EXCEPT ![w] = IdleCall]
    /\ UNCHANGED Rows

ProcessItem(w, d) ==
    /\ calls[w].phase = "idle"
    /\ calls' = [calls EXCEPT ![w] = [IdleCall EXCEPT !.phase = "capturing", !.delivery = d]]
    /\ UNCHANGED Rows

\* A faulty variant that remembers what any worker has captured.
FindRawRemembered(w) ==
    LET remembered == \E v \in Workers : "raw" \in calls[v].keeps
                                          /\ calls[v].delivery = calls[w].delivery
    IN  /\ calls[w].phase = "capturing"
        /\ calls' = [calls EXCEPT ![w].phase =
                      IF raw[calls[w].delivery] > 0 \/ remembered THEN "captured" ELSE "new_raw"]
        /\ UNCHANGED Rows

\* capture_raw
FindRaw(w) ==
    /\ calls[w].phase = "capturing"
    /\ calls' = [calls EXCEPT ![w].phase = IF raw[calls[w].delivery] > 0 THEN "captured" ELSE "new_raw"]
    /\ UNCHANGED Rows

RawTaken(w) == raw[calls[w].delivery] > 0 /\ calls[w].delivery.id # NoId

InsertRaw(w) ==
    /\ calls[w].phase = "new_raw"
    /\ RawHolders(w) = {}
    /\ ~RawTaken(w)
    /\ calls' = [calls EXCEPT ![w].phase = "captured", ![w].keeps = {"raw"}]
    /\ UNCHANGED Rows

\* normalize_and_store: what was stored first stays, whatever is delivered later.
FindItem(w) ==
    /\ calls[w].phase = "captured"
    /\ \/ \E x \in Stored(Identity(w)) :
             calls' = [calls EXCEPT ![w].phase = "normalized", ![w].of = x.of]
       \/ /\ Stored(Identity(w)) = {}
          /\ calls' = [calls EXCEPT ![w].phase = "new_item"]
    /\ UNCHANGED Rows

\* A faulty variant without the unique canonical identity.
NeverTaken(w) == FALSE
IdentityTaken(w) == Stored(Identity(w)) # {}

InsertItem(w) ==
    /\ calls[w].phase = "new_item"
    /\ ItemHolders(w) = {}
    /\ ~IdentityTaken(w)
    /\ calls' = [calls EXCEPT ![w].phase = "normalized", ![w].of = calls[w].delivery,
                        ![w].keeps = @ \cup {"item"}]
    /\ UNCHANGED Rows

\* A faulty variant that sends the INSERT again.
KeyConflictRetried(w) ==
    /\ \/ calls[w].phase = "new_raw" /\ RawHolders(w) = {} /\ RawTaken(w)
       \/ calls[w].phase = "new_item" /\ ItemHolders(w) = {} /\ IdentityTaken(w)
    /\ UNCHANGED itemVars

\* IntegrityError from either key: the whole call is lost.
KeyConflict(w) ==
    /\ \/ calls[w].phase = "new_raw" /\ RawHolders(w) = {} /\ RawTaken(w)
       \/ calls[w].phase = "new_item" /\ ItemHolders(w) = {} /\ IdentityTaken(w)
    /\ DropCall(w)

\* persist_classification reads the title of the item, and the caller commits.
\* A faulty variant reads the title that was delivered.
DeliveredTitle(w) == calls[w].delivery.title
Classified(w) == calls[w].of.title

CommitCall(w) ==
    /\ calls[w].phase = "normalized"
    /\ raw' = [raw EXCEPT ![calls[w].delivery] = IF "raw" \in calls[w].keeps THEN @ + 1 ELSE @]
    /\ items' = IF "item" \in calls[w].keeps
                THEN items \cup {[identity |-> Identity(w), of |-> calls[w].of]}
                ELSE items
    /\ classified' = classified \cup
           {[identity |-> Identity(w), result |-> Classification(Classified(w))]}
    /\ calls' = [calls EXCEPT ![w] = IdleCall]
    /\ UNCHANGED linked

AbortCall(w) == calls[w].phase # "idle" /\ DropCall(w)

\* link_duplicate by a caller that has compared two items, in either order and
\* with any result.
LinkDuplicate(x, y) ==
    /\ Cardinality(linked) < MaxLinks
    /\ linked' = linked \cup
           {[canonical |-> x, duplicate |-> y, type |-> DetectRelationship(x.of, y.of)]}
    /\ UNCHANGED <<raw, items, classified, calls>>

-----------------------------------------------------------------------------

AdvanceCall(w) ==
    FindRaw(w) \/ InsertRaw(w) \/ FindItem(w) \/ InsertItem(w) \/ KeyConflict(w) \/ CommitCall(w)

ItemsNext ==
    \/ \E w \in Workers, d \in Deliveries : ProcessItem(w, d)
    \/ \E w \in Workers : AdvanceCall(w) \/ AbortCall(w)
    \/ \E x, y \in items : LinkDuplicate(x, y)

ItemsSpec == ItemsInit /\ [][ItemsNext]_itemVars

\* A call that is not waiting for a key goes on, and a waiting one is woken.
ItemsFairness == \A w \in Workers : SF_itemVars(AdvanceCall(w))

FairItemsSpec == ItemsSpec /\ ItemsFairness

-----------------------------------------------------------------------------
(* Properties *)

\* ARCHITECTURE_LAYER2_PROPOSAL.md: duplicates collapse, those of equal identity.
\* Deliveries with one identity come to one item, and payloads with a provider's id to
\* one raw row; without an id NULLs let workers that overlap store as many as they are.
\* The proposal would collapse any exact match.  The code does not: one address with an
\* id and without one, or under two ids, is two identities and stays two items.
DuplicatesCollapse ==
    /\ \A x, y \in items : x.identity = y.identity => x = y
    /\ \A d \in Deliveries : raw[d] <= IF d.id = NoId THEN Cardinality(Workers) ELSE 1

\* Every item has the raw payload that it was made from, also when the calls that
\* stored either were others, and others again were lost.
ItemsTraceToRaw ==
    \A x \in items : raw[x.of] > 0 /\ x.identity = CanonicalIdentity(x.of)

\* ... and classifications are reproducible: processing an item again, from
\* whichever delivery, never comes to another classification.
ClassificationsAgree ==
    \A b, c \in classified : b.identity = c.identity => b = c

\* A link says what comparing the two items the other way round would have said,
\* so which of them was called the canonical one does not matter.
LinksAgree ==
    \A k \in linked : DetectRelationship(k.duplicate.of, k.canonical.of) = k.type

\* Every call of process_item ends, although it may wait for a key that another holds.
DeliveriesReturn == \A w \in Workers : calls[w].phase # "idle" ~> calls[w].phase = "idle"
=============================================================================
