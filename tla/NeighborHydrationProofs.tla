----------------------- MODULE NeighborHydrationProofs -----------------------
(***************************************************************************)
(* For an index of any size, pages of any size and any number of writes of *)
(* other clients: a walk finds what stays, nothing twice, and a hydration  *)
(* returns its nodes in the order of the listing.                          *)
(***************************************************************************)
EXTENDS NeighborHydration, FiniteSetTheorems, TLAPS

USE ListingAssumption, HydrationAssumption

-----------------------------------------------------------------------------
(* What the server reads lies behind the cursor, and the entry it ends     *)
(* with has nothing unread before it.                                      *)
LEMMA ScannedFacts ==
  ASSUME NEW c \in 0 .. MaxPosition, NEW limit \in Nat
  PROVE  /\ Scanned(c, limit) \subseteq Behind(c)
         /\ \A p \in Behind(c) : p \in Positions /\ p > c
         /\ \A p \in Scanned(c, limit), q \in Behind(c) : q < p => q \in Scanned(c, limit)
<1>1. IsFiniteSet(Behind(c))
  <2>1. IsFiniteSet(Positions)
    BY FS_Interval DEF Positions
  <2>. QED BY <2>1, FS_Subset DEF Behind
<1>2. ASSUME NEW p \in Scanned(c, limit), NEW q \in Behind(c), q < p
      PROVE  q \in Scanned(c, limit)
  <2>. DEFINE Below(x) == {y \in Behind(c) : y < x}
  <2>1. Below(q) \subseteq Below(p)
    BY <1>2 DEF Behind, Scanned, Positions
  <2>2. IsFiniteSet(Below(p)) /\ IsFiniteSet(Below(q))
    BY <1>1, FS_Subset
  <2>3. Cardinality(Below(q)) <= Cardinality(Below(p))
    BY <2>1, <2>2, FS_Subset
  <2>4. Cardinality(Below(p)) \in Nat /\ Cardinality(Below(q)) \in Nat
    BY <2>2, FS_CardinalityType
  <2>5. Cardinality(Below(p)) < limit
    BY DEF Scanned
  <2>6. Cardinality(Below(q)) < limit
    BY <2>3, <2>4, <2>5
  <2>. QED BY <2>6 DEF Scanned
<1>. QED BY <1>2 DEF Scanned, Behind

(* No page is longer than the limit: no two of its entries have equally    *)
(* many before them.                                                       *)
LEMMA PageSize ==
  ASSUME NEW c \in 0 .. MaxPosition, NEW limit \in Nat
  PROVE  /\ IsFiniteSet(PageItems(c, limit))
         /\ Cardinality(PageItems(c, limit)) \in Nat
         /\ Cardinality(PageItems(c, limit)) <= limit
         /\ Cardinality(PageItems(c, limit)) <= MaxPosition
<1>. DEFINE S        == PageItems(c, limit)
            Below(p) == {q \in Behind(c) : q < p}
            before   == [p \in S |-> Cardinality(Below(p))]
<1>1. IsFiniteSet(Positions) /\ Cardinality(Positions) = MaxPosition
  BY FS_Interval DEF Positions
<1>2. S \subseteq Positions /\ S \subseteq Behind(c) /\ Behind(c) \subseteq Positions
  BY DEF PageItems, Scanned, Behind
<1>3. /\ IsFiniteSet(S) /\ IsFiniteSet(Behind(c))
      /\ Cardinality(S) \in Nat /\ Cardinality(S) <= MaxPosition
  BY <1>1, <1>2, FS_Subset, FS_CardinalityType
<1>4. ASSUME NEW p PROVE IsFiniteSet(Below(p)) /\ Cardinality(Below(p)) \in Nat
  BY <1>3, FS_Subset, FS_CardinalityType
<1>5. before \in [S -> 0 .. limit - 1]
  <2>1. \A p \in S : Cardinality(Below(p)) < limit
    BY DEF PageItems, Scanned
  <2>. HIDE DEF S, Below
  <2>. QED BY <1>4, <2>1
<1>6. ASSUME NEW p \in S, NEW q \in S, p < q PROVE Cardinality(Below(p)) # Cardinality(Below(q))
  <2>1. Below(p) \subseteq Below(q)
    BY <1>2, <1>6 DEF Positions
  <2>2. p \in Below(q) /\ p \notin Below(p)
    BY <1>2, <1>6 DEF Positions
  <2>. HIDE DEF Below
  <2>. QED BY <1>4, <2>1, <2>2, FS_Subset
<1>7. CASE limit < Cardinality(S)
  <2>1. IsFiniteSet(0 .. limit - 1) /\ Cardinality(0 .. limit - 1) = limit
    <3>1. 0 \in Int /\ limit - 1 \in Int
      OBVIOUS
    <3>2. /\ IsFiniteSet(0 .. limit - 1)
          /\ Cardinality(0 .. limit - 1) = IF 0 > limit - 1 THEN 0 ELSE limit - 1 - 0 + 1
      BY ONLY <3>1, FS_Interval
    <3>. QED BY <3>2
  <2>2. PICK p \in S, q \in S : p # q /\ before[p] = before[q]
    <3>. HIDE DEF S, before
    <3>. QED BY <1>3, <1>5, <1>7, <2>1, FS_PigeonHole
  <2>3. p < q \/ q < p
    BY <1>2, <2>2 DEF Positions
  <2>. QED BY <1>6, <2>2, <2>3
<1>. QED BY <1>3, <1>7

(* The limits that reach the server, and the cursors that come back.       *)
LEMMA ServedType == Served \subseteq Nat
<1>1. ASSUME NEW l \in Limits, ~LimitRejected(l) PROVE l \in Nat
  <2>1. l \in Int /\ ~(l <= 0)
    BY <1>1 DEF LimitRejected
  <2>. QED BY <2>1
<1>. QED BY <1>1 DEF Served, Asked

LEMMA NextCursorType ==
  ASSUME NEW c \in 0 .. MaxPosition, NEW limit \in Nat, NEW next \in NextCursors(c, limit)
  PROVE  /\ next \in 0 .. MaxPosition
         /\ next # None => next > c /\ next \in Scanned(c, limit)
                           /\ \A q \in Scanned(c, limit) : q <= next
         /\ next = None => Behind(c) = Scanned(c, limit)
  BY ScannedFacts DEF NextCursors, None, Positions

(* Appending a page: what was read, in order, joins the list.              *)
Ascends(l, h) == \A i, j \in l .. h : i < j => items[i] < items[j]
Ascending == Ascends(1, Len(items))
Upto(c) == \A i \in Slots : items[i] <= c

LEMMA PageJoins ==
  ASSUME items \in Seq(Positions), NEW c \in 0 .. MaxPosition,
         NEW limit \in Nat, NEW page \in InOrder(PageItems(c, limit)), items' = items \o page
  PROVE  /\ items' \in Seq(Positions)
         /\ Len(items) \in Nat /\ Len(items') \in Nat /\ Len(items) <= Len(items')
         /\ Len(items') - Len(items) <= limit /\ Len(items') - Len(items) <= MaxPosition
         /\ \A i \in Slots : items'[i] = items[i]
         /\ \A i, j \in Len(items) + 1 .. Len(items') : i < j => items'[i] < items'[j]
         /\ \A i \in Slots' : i \notin Slots => items'[i] \in PageItems(c, limit)
         /\ \A p \in PageItems(c, limit) : \E i \in Slots' : items'[i] = p
<1>. DEFINE S == PageItems(c, limit)
<1>1. S \subseteq Positions
  BY ScannedFacts DEF PageItems
<1>2. /\ IsFiniteSet(S) /\ Cardinality(S) \in Nat
      /\ Cardinality(S) <= limit /\ Cardinality(S) <= MaxPosition
  BY PageSize
<1>3. /\ page \in Seq(S) /\ Len(page) = Cardinality(S)
      /\ \A i, j \in 1 .. Len(page) : i < j => page[i] < page[j]
      /\ \A p \in S : \E i \in 1 .. Len(page) : page[i] = p
  <2>1. /\ page \in [1 .. Cardinality(S) -> S]
        /\ \A i, j \in DOMAIN page : i < j => page[i] < page[j]
        /\ \A p \in S : \E i \in DOMAIN page : page[i] = p
    BY DEF InOrder
  <2>2. DOMAIN page = 1 .. Cardinality(S)
    BY <2>1
  <2>3. page \in Seq(S) /\ Len(page) = Cardinality(S)
    <3>. DEFINE n == Cardinality(S)
    <3>1. n \in Nat /\ page \in [1 .. n -> S]
      BY <1>2, <2>1
    <3>. HIDE DEF S, n
    <3>2. page \in Seq(S) /\ Len(page) = n
      BY <3>1
    <3>. QED BY <3>2 DEF n
  <2>. QED BY <2>1, <2>2, <2>3
<1>. HIDE DEF S
<1>4. page \in Seq(Positions)
  BY <1>1, <1>3
<1>5. /\ items' \in Seq(Positions)
      /\ Len(items') = Len(items) + Len(page) /\ Len(items) \in Nat /\ Len(page) \in Nat
      /\ \A i \in Slots : items'[i] = items[i]
      /\ \A i \in 1 .. Len(page) : items'[Len(items) + i] = page[i]
  BY <1>4 DEF Slots
<1>6. \A i \in Len(items) + 1 .. Len(items') :
        i - Len(items) \in 1 .. Len(page) /\ items'[i] = page[i - Len(items)]
  BY <1>5
<1>7. \A i \in Slots' : i \notin Slots => items'[i] \in S
  <2>1. \A k \in 1 .. Len(page) : page[k] \in S
    BY <1>3
  <2>2. \A i \in Slots' : i \notin Slots => i \in Len(items) + 1 .. Len(items')
    BY <1>5 DEF Slots
  <2>. QED BY <1>6, <2>1, <2>2
<1>8. \A i, j \in Len(items) + 1 .. Len(items') : i < j => items'[i] < items'[j]
  <2>. SUFFICES ASSUME NEW i \in Len(items) + 1 .. Len(items'),
                       NEW j \in Len(items) + 1 .. Len(items'), i < j
                PROVE  items'[i] < items'[j]
    OBVIOUS
  <2>1. i - Len(items) < j - Len(items)
    BY <1>5
  <2>. QED BY <1>3, <1>6, <2>1
<1>9. ASSUME NEW p \in S PROVE \E i \in Slots' : items'[i] = p
  <2>1. PICK k \in 1 .. Len(page) : page[k] = p
    BY <1>3
  <2>2. Len(items) + k \in Slots' /\ items'[Len(items) + k] = p
    BY <1>5, <2>1 DEF Slots
  <2>. QED BY <2>2
<1>10. /\ Len(items) <= Len(items')
       /\ Len(items') - Len(items) <= limit /\ Len(items') - Len(items) <= MaxPosition
  BY <1>2, <1>3, <1>5
<1>11. /\ \A i \in Slots' : i \notin Slots => items'[i] \in PageItems(c, limit)
       /\ \A p \in PageItems(c, limit) : \E i \in Slots' : items'[i] = p
  BY <1>7, <1>9 DEF S
<1>12. Len(items') \in Nat
  BY <1>5
<1>. QED BY <1>5, <1>8, <1>10, <1>11, <1>12

(* An ascending list is never longer than the index: it is an injection    *)
(* into it.                                                                *)
LEMMA AscendingBounded ==
  ASSUME items \in Seq(Positions), Ascending PROVE Len(items) <= MaxPosition
<1>1. IsFiniteSet(Positions) /\ Cardinality(Positions) = MaxPosition
  BY FS_Interval DEF Positions
<1>2. IsFiniteSet(Slots) /\ Cardinality(Slots) = Len(items)
  BY FS_Interval DEF Slots
<1>3. CASE MaxPosition < Len(items)
  <2>1. items \in [Slots -> Positions]
    BY DEF Slots
  <2>2. PICK i \in Slots, j \in Slots : i # j /\ items[i] = items[j]
    BY <1>1, <1>2, <1>3, <2>1, FS_PigeonHole
  <2>3. /\ i \in Int /\ j \in Int /\ (i < j \/ j < i)
        /\ items[i] \in Int /\ items[j] \in Int
    BY <2>1, <2>2 DEF Slots, Positions
  <2>. QED BY <2>2, <2>3 DEF Ascending, Ascends, Slots
<1>. QED BY <1>3

(* A page from behind the cursor keeps a list ascending that ends there.   *)
LEMMA PageAppended ==
  ASSUME items \in Seq(Positions), Ascending, NEW c \in 0 .. MaxPosition, Upto(c),
         NEW limit \in Nat, NEW page \in InOrder(PageItems(c, limit)), items' = items \o page
  PROVE  /\ Ascending'
         /\ \A i \in Slots' : i \notin Slots => items'[i] \in Scanned(c, limit)
<1>. DEFINE S == PageItems(c, limit)
<1>1. S \subseteq Positions /\ S \subseteq Scanned(c, limit) /\ \A p \in S : p > c
  BY ScannedFacts DEF PageItems
<1>2. /\ items' \in Seq(Positions)
      /\ Len(items) \in Nat /\ Len(items') \in Nat /\ Len(items) <= Len(items')
      /\ \A i \in Slots : items'[i] = items[i]
      /\ \A i, j \in Len(items) + 1 .. Len(items') : i < j => items'[i] < items'[j]
      /\ \A i \in Slots' : i \notin Slots => items'[i] \in S
  BY PageJoins
<1>. HIDE DEF S
<1>3. ASSUME NEW i \in Slots', NEW j \in Slots', i < j PROVE items'[i] < items'[j]
  <2>1. CASE j \in Slots
    <3>1. i \in Slots
      BY <1>3, <2>1 DEF Slots
    <3>. QED BY <1>2, <1>3, <2>1, <3>1 DEF Ascending, Ascends, Slots
  <2>2. CASE i \in Slots /\ j \notin Slots
    <3>1. items[i] <= c /\ items[i] \in Int /\ c \in Int
      BY <2>2 DEF Upto, Slots, Positions
    <3>2. items'[j] \in S
      BY <1>2, <2>2
    <3>3. items'[i] = items[i]
      BY <1>2, <2>2
    <3>4. \A p \in S : items[i] < p
      <4>. TAKE p \in S
      <4>1. p > c /\ p \in Int
        BY <1>1 DEF Positions
      <4>. QED BY <3>1, <4>1
    <3>. QED BY <3>2, <3>3, <3>4
  <2>3. CASE i \notin Slots /\ j \notin Slots
    <3>1. i \in Len(items) + 1 .. Len(items') /\ j \in Len(items) + 1 .. Len(items')
      BY <1>2, <2>3 DEF Slots
    <3>. QED BY <1>2, <1>3, <3>1 DEF Ascends
  <2>4. CASE i \notin Slots /\ j \in Slots
    BY <1>2, <1>3, <2>4 DEF Slots
  <2>. QED BY <2>1, <2>2, <2>3, <2>4
<1>. QED BY <1>1, <1>2, <1>3 DEF Ascending, Ascends, Slots

-----------------------------------------------------------------------------
(* Up to the cursor everything that stayed was found; behind it nothing.   *)
Reached(c) == \A p \in steady : p <= c => \E i \in Slots : items[i] = p
AllFound == \A p \in steady : \E i \in Slots : items[i] = p
(* What was found is ascending; after a repeated cursor the last page is.  *)
LastPageAgain ==
  \E k \in 0 .. Len(items) :
    /\ Ascends(1, k) /\ Ascends(k + 1, Len(items))
    /\ k <= MaxPosition /\ Len(items) - k <= MaxPosition
    /\ Len(items) - k <= HydrationPageSize
Ordered == IF repeated THEN LastPageAgain ELSE Ascending

Walked == pc \in {"paging", "page_failed"} => Upto(cursor) /\ Reached(cursor)
Hydrated == /\ pc = "hydrating" => /\ walk = "hydration"
                                   /\ \A i \in Slots : results[i] \in {None, items[i]}
                                   /\ \A i \in calling : results[i] = None
            /\ pc = "page_failed" => walk # "hydration"
            /\ pc \in {"paging", "page_failed"} => calling = {} /\ ~repeated
WalkInv == Walked /\ SteadyFound /\ Hydrated /\ ResultsInOrder

(* One more page keeps that true of the next cursor, or of all there is.   *)
LEMMA PageFollowed ==
  ASSUME TypeOK, Ascending, Upto(cursor), Reached(cursor), UNCHANGED steady,
         NEW limit \in Nat, NEW c \in NextCursors(cursor, limit),
         NEW page \in InOrder(PageItems(cursor, limit)), items' = items \o page
  PROVE  /\ items' \in Seq(Positions)
         /\ Ascending'
         /\ Slots \subseteq Slots'
         /\ c # None => Upto(c)' /\ Reached(c)'
         /\ c = None => AllFound'
<1>1. /\ items' \in Seq(Positions)
      /\ Len(items) <= Len(items')
      /\ \A i \in Slots : items'[i] = items[i]
      /\ Ascending'
      /\ \A i \in Slots' : i \notin Slots => items'[i] \in Scanned(cursor, limit)
      /\ \A p \in PageItems(cursor, limit) : \E i \in Slots' : items'[i] = p
  BY PageAppended, PageJoins DEF TypeOK
<1>2. Slots \subseteq Slots'
  <2>1. Len(items) \in Nat /\ Len(items') \in Nat
    BY <1>1 DEF TypeOK
  <2>. QED BY <1>1, <2>1 DEF Slots
<1>3. ASSUME NEW p \in steady, p \in Scanned(cursor, limit) \/ p <= cursor
      PROVE  \E i \in Slots' : items'[i] = p
  <2>1. CASE p <= cursor
    <3>1. PICK i \in Slots : items[i] = p
      BY <2>1 DEF Reached
    <3>. QED BY <1>1, <1>2, <3>1
  <2>2. CASE p \in Scanned(cursor, limit)
    <3>1. p \in PageItems(cursor, limit)
      BY <2>2 DEF PageItems, TypeOK
    <3>. QED BY <1>1, <3>1
  <2>. QED BY <1>3, <2>1, <2>2
<1>4. ASSUME NEW p \in steady, p > cursor PROVE p \in Behind(cursor) /\ p \in Positions
  BY <1>4 DEF Behind, Present, TypeOK
<1>5. \A p \in steady : p \in Int /\ (p <= cursor \/ p > cursor)
  BY DEF TypeOK, Positions
<1>6. CASE c = None
  <2>1. Behind(cursor) = Scanned(cursor, limit)
    BY <1>6, NextCursorType DEF TypeOK
  <2>. QED BY <1>1, <1>2, <1>3, <1>4, <1>5, <1>6, <2>1 DEF AllFound
<1>7. CASE c # None
  <2>1. /\ c \in Int /\ c > cursor /\ c \in Scanned(cursor, limit)
        /\ \A q \in Scanned(cursor, limit) : q <= c
    BY <1>7, NextCursorType DEF TypeOK
  <2>2. Upto(c)'
    <3>1. ASSUME NEW i \in Slots PROVE items'[i] <= c
      <4>1. items[i] \in Int /\ items[i] <= cursor /\ cursor \in Int
        BY DEF TypeOK, Upto, Slots, Positions
      <4>2. items[i] <= c
        BY <2>1, <4>1
      <4>. QED BY <1>1, <4>2
    <3>. QED BY <1>1, <2>1, <3>1 DEF Upto
  <2>3. Reached(c)'
    <3>1. ASSUME NEW p \in steady, p <= c PROVE p \in Scanned(cursor, limit) \/ p <= cursor
      <4>1. CASE p > cursor /\ p < c
        <5>1. p \in Behind(cursor)
          BY <1>4, <4>1
        <5>. QED BY <2>1, <4>1, <5>1, ScannedFacts DEF TypeOK
      <4>2. p \in Int /\ cursor \in Int
        BY <1>5 DEF TypeOK
      <4>3. CASE p = c
        BY <2>1, <4>3
      <4>. QED BY <2>1, <3>1, <4>1, <4>2, <4>3
    <3>. QED BY <1>3, <3>1 DEF Reached
  <2>. QED BY <1>1, <1>2, <1>7, <2>2, <2>3
<1>. QED BY <1>6, <1>7

-----------------------------------------------------------------------------
Inv == TypeOK /\ Ordered /\ WalkInv

LEMMA OrderedKept == ASSUME Ordered, UNCHANGED <<items, repeated>> PROVE Ordered'
BY DEF Ordered, LastPageAgain, Ascending, Ascends

LEMMA InitInv == Init => Inv
<1>. SUFFICES ASSUME Init PROVE Inv
  OBVIOUS
<1>. USE DEF Init, ListingInit
<1>1. TypeOK
  <2>1. items \in Seq(Positions) /\ results \in Seq(0 .. MaxPosition) /\ calling \subseteq Slots
    BY DEF Slots
  <2>2. cursor \in 0 .. MaxPosition /\ writes \in 0 .. MaxWrites
    BY DEF None
  <2>. QED BY <2>1, <2>2 DEF TypeOK
<1>2. WalkInv
  <2>1. Upto(None) /\ Ascending
    BY DEF Upto, Ascending, Ascends, Slots
  <2>2. Reached(None)
    BY DEF Reached, None, Positions
  <2>. QED BY <2>1, <2>2 DEF WalkInv, Walked, SteadyFound, Hydrated, ResultsInOrder
<1>3. Ordered
  BY DEF Ordered, Ascending, Ascends
<1>. QED BY <1>1, <1>2, <1>3 DEF Inv

LEMMA ListPageInv ==
  ASSUME Inv, ListPage, UNCHANGED hydrationVars PROVE Inv'
<1>0. PICK limit \in Served :
        \E c \in NextCursors(cursor, limit) : \E page \in InOrder(PageItems(cursor, limit)) :
          /\ items' = items \o page
          /\ IF c = None
             THEN pc' = "returned" /\ UNCHANGED cursor
             ELSE cursor' = c /\ UNCHANGED pc
  BY DEF ListPage
<1>1. PICK c \in NextCursors(cursor, limit), page \in InOrder(PageItems(cursor, limit)) :
        /\ items' = items \o page
        /\ IF c = None
           THEN pc' = "returned" /\ UNCHANGED cursor
           ELSE cursor' = c /\ UNCHANGED pc
  BY <1>0
<1>2. /\ TypeOK /\ Ascending /\ Upto(cursor) /\ Reached(cursor) /\ limit \in Nat
      /\ pc = "paging" /\ walk \in Walks /\ c \in 0 .. MaxPosition /\ ~repeated
      /\ UNCHANGED <<walk, entry, writes, steady, repeated, calling, results>>
  BY ServedType, NextCursorType
     DEF Inv, Ordered, WalkInv, Walked, Hydrated, ListPage, hydrationVars, TypeOK
<1>3. /\ items' \in Seq(Positions) /\ Ascending' /\ Slots \subseteq Slots'
      /\ c # None => Upto(c)' /\ Reached(c)'
      /\ c = None => AllFound'
  BY <1>1, <1>2, PageFollowed
<1>4. walk # "hydration"
  BY <1>2 DEF Walks, DocumentListings, GraphListings, FileListings, TenantListings
<1>5. TypeOK'
  BY <1>1, <1>2, <1>3 DEF TypeOK, Present
<1>6. Ordered'
  BY <1>2, <1>3 DEF Ordered
<1>7. CASE c = None
  BY <1>1, <1>2, <1>3, <1>4, <1>5, <1>6, <1>7
     DEF Inv, WalkInv, Walked, SteadyFound, AllFound, Hydrated, ResultsInOrder
<1>8. CASE c # None
  <2>1. Walked'
    BY <1>1, <1>3, <1>8 DEF Walked, Upto, Reached
  <2>. QED BY <1>1, <1>2, <1>3, <1>4, <1>5, <1>6, <1>8, <2>1
           DEF Inv, WalkInv, SteadyFound, Hydrated, ResultsInOrder
<1>. QED BY <1>7, <1>8

LEMMA FollowPageInv ==
  ASSUME Inv, FollowPage PROVE Inv'
<1>. DEFINE n == HydrationPageSize
<1>1. PICK reply \in Replies :
        /\ \E page \in InOrder(PageItems(reply.from, n)) : items' = items \o page
        /\ repeated' = (repeated \/ (reply.next # None /\ reply.next = cursor))
        /\ cursor' = IF NextPaginationCursor(cursor, reply.next) = None
                     THEN cursor ELSE NextPaginationCursor(cursor, reply.next)
        /\ pc' = IF NextPaginationCursor(cursor, reply.next) = None THEN "hydrating" ELSE "paging"
  BY DEF FollowPage
<1>2. PICK page \in InOrder(PageItems(reply.from, n)) : items' = items \o page
  BY <1>1
<1>. DEFINE c == reply.next
<1>3. /\ TypeOK /\ ~repeated /\ Ascending /\ Upto(cursor) /\ Reached(cursor) /\ n \in Nat
      /\ pc = "paging" /\ walk = "hydration" /\ calling = {} /\ cursor \in 0 .. MaxPosition
      /\ UNCHANGED <<walk, entry, writes, steady, calling>>
      /\ results' = IF pc' = "hydrating" THEN [i \in Slots' |-> None] ELSE results
  BY DEF Inv, Ordered, WalkInv, Walked, Hydrated, FollowPage, TypeOK
<1>4. \/ reply.from = cursor /\ c \in NextCursors(cursor, n)
      \/ reply.from \in 0 .. cursor /\ c = cursor /\ cursor # None
  BY <1>1 DEF Replies
<1>5. /\ items' \in Seq(Positions)
      /\ Len(items) \in Nat /\ Len(items') \in Nat /\ Len(items) <= Len(items')
      /\ Len(items') - Len(items) <= n /\ Len(items') - Len(items) <= MaxPosition
      /\ \A i \in Slots : items'[i] = items[i]
      /\ \A i, j \in Len(items) + 1 .. Len(items') : i < j => items'[i] < items'[j]
  <2>1. reply.from \in 0 .. MaxPosition
    BY <1>3, <1>4
  <2>. QED BY <1>2, <1>3, <2>1, PageJoins DEF TypeOK
<1>6. TypeOK'
  <2>1. cursor' \in 0 .. MaxPosition
    BY <1>1, <1>3, <1>4, NextCursorType DEF NextPaginationCursor, None
  <2>2. pc' = "hydrating" => Len(results') = Len(items')
    BY <1>3, <1>5 DEF Slots
  <2>3. results' \in Seq(0 .. MaxPosition)
    <3>1. CASE pc' = "hydrating"
      <4>1. Len(items') \in Nat /\ None \in 0 .. MaxPosition
        BY <1>5 DEF None
      <4>. QED BY <1>3, <3>1, <4>1 DEF Slots
    <3>2. CASE pc' # "hydrating"
      BY <1>3, <3>2 DEF TypeOK
    <3>. QED BY <3>1, <3>2
  <2>4. repeated' \in BOOLEAN /\ pc' \in {"paging", "hydrating"}
    BY <1>1
  <2>. QED BY <1>3, <1>5, <2>1, <2>2, <2>3, <2>4 DEF TypeOK, Present
<1>7. CASE reply.from = cursor /\ c \in NextCursors(cursor, n)
  <2>1. /\ Ascending'
        /\ c # None => Upto(c)' /\ Reached(c)'
        /\ c = None => AllFound'
    BY <1>2, <1>3, <1>7, PageFollowed
  <2>2. ~repeated' /\ Ordered'
    <3>1. c = None \/ c # cursor
      BY <1>3, <1>7, NextCursorType
    <3>. QED BY <1>1, <1>3, <2>1, <3>1 DEF Ordered
  <2>3. Hydrated' /\ ResultsInOrder'
    BY <1>1, <1>3, <2>2 DEF Hydrated, ResultsInOrder
  <2>4. CASE c = None
    <3>1. pc' = "hydrating"
      BY <1>1, <2>4 DEF NextPaginationCursor
    <3>. QED BY <1>6, <2>1, <2>2, <2>3, <2>4, <3>1 DEF Inv, WalkInv, Walked, SteadyFound, AllFound
  <2>5. CASE c # None
    <3>1. c # cursor
      BY <1>3, <1>7, <2>5, NextCursorType
    <3>2. cursor' = c /\ pc' = "paging"
      BY <1>1, <2>5, <3>1 DEF NextPaginationCursor
    <3>3. Walked'
      BY <2>1, <2>5, <3>2 DEF Walked, Upto, Reached
    <3>. QED BY <1>6, <2>2, <2>3, <3>2, <3>3 DEF Inv, WalkInv, SteadyFound
  <2>. QED BY <2>4, <2>5
<1>8. CASE c = cursor /\ cursor # None
  <2>1. pc' = "hydrating" /\ repeated'
    BY <1>1, <1>8 DEF NextPaginationCursor
  <2>2. Len(items) <= MaxPosition
    BY <1>3, AscendingBounded DEF TypeOK
  <2>3. LastPageAgain'
    <3>1. \A i, j \in 1 .. Len(items) : i < j => items'[i] < items'[j]
      BY <1>3, <1>5 DEF Ascending, Ascends, Slots
    <3>2. Len(items) \in 0 .. Len(items')
      BY <1>5
    <3>. QED BY <1>5, <2>2, <3>1, <3>2 DEF LastPageAgain, Ascends
  <2>4. Hydrated' /\ ResultsInOrder'
    BY <1>1, <1>3, <2>1 DEF Hydrated, ResultsInOrder
  <2>. QED BY <1>6, <2>1, <2>3, <2>4 DEF Inv, Ordered, WalkInv, Walked, SteadyFound
<1>. QED BY <1>4, <1>7, <1>8

LEMMA OtherWritesInv ==
  ASSUME Inv, NEW p \in Positions, OtherWrites(p), UNCHANGED hydrationVars PROVE Inv'
<1>1. steady' \subseteq steady
  BY DEF OtherWrites
<1>2. UNCHANGED <<walk, cursor, items, pc, repeated, calling, results>>
  BY DEF OtherWrites, hydrationVars
<1>3. WalkInv'
  BY <1>1, <1>2 DEF Inv, WalkInv, Slots, Walked, Upto, Reached, SteadyFound,
                    Hydrated, ResultsInOrder
<1>4. TypeOK'
  <2>1. PICK e \in EntryState : entry' = [entry EXCEPT ![p] = e]
    BY DEF OtherWrites
  <2>2. steady' \subseteq {q \in Positions : Present(q)'}
    <3>1. ASSUME NEW q \in steady' PROVE q \in Positions /\ Present(q)'
      <4>1. q \in steady /\ q \in Positions /\ Present(q)
        BY <1>1 DEF Inv, TypeOK
      <4>2. CASE q = p
        BY <4>1, <4>2 DEF OtherWrites
      <4>3. CASE q # p
        BY <2>1, <4>1, <4>3 DEF Present, Inv, TypeOK
      <4>. QED BY <4>2, <4>3
    <3>. QED BY <3>1
  <2>. QED BY <1>2, <2>1, <2>2 DEF Inv, TypeOK, OtherWrites, Slots, Present
<1>. QED BY <1>2, <1>3, <1>4, OrderedKept DEF Inv

LEMMA InvInductive == Inv /\ [Next]_vars => Inv'
<1>. SUFFICES ASSUME Inv, [Next]_vars PROVE Inv'
  OBVIOUS
<1>0. UNCHANGED <<items, repeated>> => Ordered'
  BY OrderedKept DEF Inv
<1>1. CASE UNCHANGED vars
  BY <1>0, <1>1 DEF Inv, TypeOK, Present, Slots, WalkInv, Walked, Upto, Reached, SteadyFound,
              Hydrated, ResultsInOrder, vars, listingVars, hydrationVars
<1>2. CASE ListPage /\ UNCHANGED hydrationVars
  BY <1>2, ListPageInv
<1>3. ASSUME NEW p \in Positions, OtherWrites(p), UNCHANGED hydrationVars PROVE Inv'
  BY <1>3, OtherWritesInv
<1>4. CASE (PageFails \/ PageRetried) /\ UNCHANGED hydrationVars
  <2>1. walk # "hydration" \/ pc # "paging"
    BY <1>4 DEF PageFails, PageRetried, Walks, DocumentListings, GraphListings,
                FileListings, TenantListings
  <2>2. walk # "hydration"
    BY <1>4, <2>1 DEF PageFails, PageRetried, Inv, WalkInv, Hydrated
  <2>3. TypeOK'
    BY <1>4 DEF PageFails, PageRetried, Inv, TypeOK, Present, Slots, hydrationVars
  <2>4. /\ UNCHANGED <<walk, steady, cursor, items, repeated, calling, results>>
        /\ pc \in {"paging", "page_failed"} /\ pc' \in {"paging", "page_failed"}
    BY <1>4 DEF PageFails, PageRetried, hydrationVars
  <2>5. Ordered' /\ Walked'
    BY <2>4, OrderedKept DEF Inv, WalkInv, Slots, Walked, Upto, Reached
  <2>6. SteadyFound' /\ ResultsInOrder'
    BY <2>4 DEF SteadyFound, ResultsInOrder
  <2>7. Hydrated'
    BY <1>4, <2>2, <2>4 DEF PageFails, PageRetried, Inv, WalkInv, Hydrated, TypeOK
  <2>. QED BY <2>3, <2>5, <2>6, <2>7 DEF Inv, WalkInv
<1>5. CASE FollowPage
  BY <1>5, FollowPageInv
<1>6. CASE FollowFails \/ HydrationReturns
  <2>1. CASE FollowFails
    <3>1. TypeOK'
      BY <2>1 DEF FollowFails, Inv, TypeOK, Present, Slots, hydrationVars
    <3>2. WalkInv'
      BY <2>1 DEF FollowFails, Inv, Slots, WalkInv, Walked,
           Upto, Reached, SteadyFound, Hydrated, ResultsInOrder, hydrationVars
    <3>. QED BY <1>0, <2>1, <3>1, <3>2 DEF Inv, FollowFails, hydrationVars
  <2>2. CASE HydrationReturns
    <3>1. /\ TypeOK' /\ Walked' /\ SteadyFound' /\ Hydrated'
      BY <2>2 DEF HydrationReturns, Inv, TypeOK, Present, Slots, WalkInv, Walked,
           Upto, Reached, SteadyFound, Hydrated, hydrationVars
    <3>2. results = items
      <4>1. /\ results \in Seq(0 .. MaxPosition) /\ items \in Seq(Positions)
            /\ Len(results) = Len(items)
            /\ \A i \in 1 .. Len(items) : results[i] = items[i]
        BY <2>2 DEF HydrationReturns, Inv, TypeOK, WalkInv, Hydrated, Slots
      <4>. QED BY <4>1
    <3>3. ResultsInOrder'
      BY <2>2, <3>2 DEF HydrationReturns, hydrationVars, ResultsInOrder
    <3>. QED BY <1>0, <2>2, <3>1, <3>3 DEF Inv, WalkInv, HydrationReturns, hydrationVars
  <2>. QED BY <1>6, <2>1, <2>2
<1>7. ASSUME NEW i \in Slots, GetNode(i) \/ NodeFails(i) PROVE Inv'
  <2>1. CASE GetNode(i)
    <3>1. TypeOK'
      BY <2>1 DEF GetNode, Inv, TypeOK, Present, Slots, listingVars
    <3>2. WalkInv'
      BY <2>1 DEF GetNode, Inv, Slots, WalkInv, Walked,
           Upto, Reached, SteadyFound, Hydrated, ResultsInOrder, listingVars
    <3>. QED BY <1>0, <2>1, <3>1, <3>2 DEF Inv, GetNode, listingVars
  <2>2. CASE NodeFails(i)
    <3>1. TypeOK'
      BY <2>2 DEF NodeFails, Inv, TypeOK, Present, Slots
    <3>2. WalkInv'
      BY <2>2 DEF NodeFails, Inv, Slots, WalkInv, Walked,
           Upto, Reached, SteadyFound, Hydrated, ResultsInOrder
    <3>. QED BY <1>0, <2>2, <3>1, <3>2 DEF Inv, NodeFails
  <2>. QED BY <1>7, <2>1, <2>2
<1>8. ASSUME NEW i \in Slots, NodeAnswered(i) PROVE Inv'
  <2>1. /\ items[i] \in 0 .. MaxPosition /\ i \in 1 .. Len(results)
    BY <1>8 DEF NodeAnswered, Inv, TypeOK, Slots, Positions
  <2>2. /\ results' \in Seq(0 .. MaxPosition) /\ Len(results') = Len(results)
        /\ \A k \in Slots : results'[k] \in {None, items[k]}
    BY <1>8, <2>1 DEF NodeAnswered, Inv, TypeOK, WalkInv, Hydrated, Slots
  <2>. QED
    BY <1>0, <1>8, <2>2 DEF NodeAnswered, Inv, TypeOK, Present, Slots, WalkInv, Walked,
       Upto, Reached, SteadyFound, Hydrated, ResultsInOrder, listingVars
<1>. QED BY <1>1, <1>2, <1>3, <1>4, <1>5, <1>6, <1>7, <1>8 DEF Next, ListingStep

LEMMA WalksSafe == Spec => []Inv
BY InitInv, InvInductive, PTL DEF Spec

(* Walks of every kind stay well-typed.                                    *)
THEOREM WalksTyped == Spec => []TypeOK
<1>1. Inv => TypeOK
  BY DEF Inv
<1>. QED BY <1>1, WalksSafe, PTL

(* A walk that reached its end has found everything that was there         *)
(* throughout, for any index, pages of any size and any writes of others.  *)
THEOREM SteadyFoundHolds == Spec => []SteadyFound
<1>1. Inv => SteadyFound
  BY DEF Inv, WalkInv
<1>. QED BY <1>1, WalksSafe, PTL

(* Nothing is found twice, but what a server that repeats a cursor gives   *)
(* again with the last page, for any limits.                               *)
THEOREM FoundOnceHolds == Spec => []FoundOnce
<1>1. Inv => FoundOnce
  <2>. SUFFICES ASSUME Inv, NEW i \in Slots, NEW j \in Slots, i < j, items[i] = items[j]
                PROVE  repeated /\ j > Len(items) - HydrationPageSize
    BY DEF FoundOnce
  <2>1. Ordered /\ items[i] \in Int /\ i \in Int /\ j \in Int /\ Len(items) \in Nat
    BY DEF Inv, TypeOK, Slots, Positions
  <2>2. CASE ~repeated
    BY <2>1, <2>2 DEF Ordered, Ascending, Ascends, Slots
  <2>3. CASE repeated
    <3>1. PICK k \in 0 .. Len(items) :
            /\ Ascends(1, k) /\ Ascends(k + 1, Len(items))
            /\ Len(items) - k <= HydrationPageSize
      BY <2>1, <2>3 DEF Ordered, LastPageAgain
    <3>2. j > k
      BY <2>1, <3>1 DEF Ascends, Slots
    <3>. QED BY <2>1, <2>3, <3>1, <3>2
  <2>. QED BY <2>2, <2>3
<1>. QED BY <1>1, WalksSafe, PTL

(* A hydration returns its nodes in the order of the listing.              *)
THEOREM ResultsInOrderHolds == Spec => []ResultsInOrder
<1>1. Inv => ResultsInOrder
  BY DEF Inv, WalkInv
<1>. QED BY <1>1, WalksSafe, PTL

-----------------------------------------------------------------------------
(* A list is never longer than the index and one more page.  The fairness  *)
(* of the calls, which is stated for as many of them, leaves none out.     *)
LEMMA ItemsBounded == Inv => Len(items) \in Nat /\ Len(items) <= 2 * MaxPosition
<1>. SUFFICES ASSUME Inv PROVE Len(items) \in Nat /\ Len(items) <= 2 * MaxPosition
  OBVIOUS
<1>1. items \in Seq(Positions) /\ Len(items) \in Nat /\ Ordered
  BY DEF Inv, TypeOK
<1>2. CASE repeated
  BY <1>1, <1>2 DEF Ordered, LastPageAgain
<1>3. CASE ~repeated
  <2>1. Len(items) <= MaxPosition
    BY <1>1, <1>3, AscendingBounded DEF Ordered
  <2>. QED BY <1>1, <2>1
<1>. QED BY <1>1, <1>2, <1>3

(* What is counted is finite, and fits into the supply of the paging.      *)
BatchBounded ==
  /\ IsFiniteSet(Unanswered) /\ IsFiniteSet(Unanswered \ calling)
  /\ Cardinality(Unanswered) \in 0 .. 2 * MaxPosition
  /\ Cardinality(Unanswered \ calling) \in 0 .. 2 * MaxPosition
LeftIsNat == HydrationLeft \in Nat

LEMMA UnansweredBounded == Inv => BatchBounded
<1>. SUFFICES ASSUME Inv PROVE BatchBounded
  OBVIOUS
<1>1. Len(items) \in Nat /\ Len(items) <= 2 * MaxPosition
  BY ItemsBounded
<1>2. IsFiniteSet(Slots) /\ Cardinality(Slots) = Len(items)
  <2>. DEFINE n == Len(items)
  <2>1. IsFiniteSet(1 .. n) /\ Cardinality(1 .. n) = n
    <3>1. n \in Nat /\ 1 \in Int /\ n \in Int
      BY <1>1
    <3>2. IsFiniteSet(1 .. n) /\ Cardinality(1 .. n) = IF 1 > n THEN 0 ELSE n - 1 + 1
      BY ONLY <3>1, FS_Interval
    <3>. HIDE DEF n
    <3>. QED BY <3>1, <3>2
  <2>. QED BY <2>1 DEF Slots
<1>3. ASSUME NEW S \in SUBSET Slots
      PROVE  IsFiniteSet(S) /\ Cardinality(S) \in 0 .. 2 * MaxPosition
  <2>1. IsFiniteSet(S) /\ Cardinality(S) <= Cardinality(Slots)
    BY <1>2, FS_Subset
  <2>2. Cardinality(S) \in Nat
    BY <2>1, FS_CardinalityType
  <2>. QED BY <1>1, <1>2, <2>1, <2>2
<1>4. Unanswered \subseteq Slots /\ Unanswered \ calling \subseteq Slots
  BY DEF Unanswered
<1>. QED BY <1>3, <1>4 DEF BatchBounded

LEMMA HydrationLeftIsNat == Inv => LeftIsNat
<1>. SUFFICES ASSUME Inv PROVE LeftIsNat
  OBVIOUS
<1>. DEFINE u == Cardinality(Unanswered)   o == Cardinality(Unanswered \ calling)
<1>1. u \in Nat /\ o \in Nat
  BY UnansweredBounded DEF BatchBounded
<1>2. cursor \in 0 .. MaxPosition /\ (MaxPosition - cursor) + 4 * MaxPosition + 2 \in Nat
  BY DEF Inv, TypeOK
<1>3. u + o + 1 \in Nat
  <2>. HIDE DEF u, o
  <2>. QED BY <1>1
<1>. QED BY <1>2, <1>3 DEF HydrationLeft, LeftIsNat

(* A turn of the loop: the cursor moves on, or the supply of the batch,    *)
(* for which the paging has kept four times the index, is what is left.    *)
LEMMA FollowPageUsesUp ==
  ASSUME Inv, Inv', HydrationLeft' \in Nat, FollowPage PROVE HydrationLeft' < HydrationLeft
<1>. DEFINE M == MaxPosition
<1>1. PICK reply \in Replies :
        /\ cursor' = IF NextPaginationCursor(cursor, reply.next) = None
                     THEN cursor ELSE NextPaginationCursor(cursor, reply.next)
        /\ pc' = IF NextPaginationCursor(cursor, reply.next) = None THEN "hydrating" ELSE "paging"
  BY DEF FollowPage
<1>. DEFINE c == reply.next
<1>2. /\ cursor \in 0 .. M /\ M \in Nat /\ cursor' \in 0 .. M
      /\ HydrationLeft = (M - cursor) + 4 * M + 2
  BY DEF FollowPage, Inv, TypeOK, HydrationLeft
<1>3. CASE NextPaginationCursor(cursor, c) # None
  <2>1. c \in NextCursors(cursor, HydrationPageSize) /\ c # None /\ cursor' = c
    BY <1>1, <1>3 DEF NextPaginationCursor, Replies
  <2>2. cursor < cursor'
    BY <1>2, <2>1, NextCursorType
  <2>3. HydrationLeft' = (M - cursor') + 4 * M + 2
    BY <1>1, <1>3 DEF HydrationLeft
  <2>. DEFINE a == cursor   b == cursor'   l == HydrationLeft   r == HydrationLeft'
  <2>4. a \in 0 .. M /\ b \in 0 .. M /\ a < b /\ M \in Nat
        /\ l = (M - a) + 4 * M + 2 /\ r = (M - b) + 4 * M + 2
    BY <1>2, <2>2, <2>3
  <2>5. r < l
    <3>. HIDE DEF a, b, l, r, M
    <3>. QED BY <2>4
  <2>. QED BY <2>5
<1>4. CASE NextPaginationCursor(cursor, c) = None
  <2>. DEFINE u == Cardinality(Unanswered')   o == Cardinality(Unanswered' \ calling')
              a == cursor   l == HydrationLeft   r == HydrationLeft'
  <2>1. u \in 0 .. 2 * M /\ o \in 0 .. 2 * M
    <3>1. Inv' => BatchBounded'
      BY UnansweredBounded, PTL
    <3>. QED BY <3>1 DEF BatchBounded
  <2>2. r = u + o + 1
    BY <1>1, <1>4 DEF HydrationLeft
  <2>3. M \in Nat /\ a \in 0 .. M /\ l = (M - a) + 4 * M + 2
    BY <1>2
  <2>4. r < l
    <3>. HIDE DEF a, u, o, l, r, M
    <3>. QED BY <2>1, <2>2, <2>3
  <2>. QED BY <2>4
<1>. QED BY <1>3, <1>4

(* The batch: a call takes its neighbor from those not yet called, an      *)
(* answer takes it from those not yet answered.                            *)
LEMMA BatchUsesUp ==
  ASSUME Inv, NEW i \in Slots, GetNode(i) \/ NodeAnswered(i)
  PROVE  HydrationLeft' < HydrationLeft
<1>. DEFINE u == Cardinality(Unanswered)    o == Cardinality(Unanswered \ calling)
            v == Cardinality(Unanswered')   q == Cardinality(Unanswered' \ calling')
<1>0. /\ pc = "hydrating" /\ pc' = "hydrating" /\ Slots' = Slots /\ Len(results) = Len(items)
      /\ results \in Seq(0 .. MaxPosition) /\ \A k \in calling : results[k] = None
  BY DEF GetNode, NodeAnswered, listingVars, Slots, Inv, TypeOK, WalkInv, Hydrated
<1>1. HydrationLeft = u + o + 1 /\ HydrationLeft' = v + q + 1
  BY <1>0 DEF HydrationLeft
<1>2. u \in Nat /\ o \in Nat /\ IsFiniteSet(Unanswered) /\ IsFiniteSet(Unanswered \ calling)
  BY UnansweredBounded, FS_CardinalityType DEF BatchBounded
<1>3. CASE GetNode(i)
  <2>1. Unanswered' = Unanswered /\ calling' = calling \cup {i} /\ i \in Unanswered \ calling
    BY <1>0, <1>3 DEF GetNode, Unanswered
  <2>2. Unanswered' \ calling' = (Unanswered \ calling) \ {i}
    BY <2>1
  <2>3. v = u /\ q = o - 1
    <3>1. Cardinality((Unanswered \ calling) \ {i}) = Cardinality(Unanswered \ calling) - 1
      BY <1>2, <2>1, FS_RemoveElement
    <3>. QED BY <2>1, <2>2, <3>1
  <2>. HIDE DEF u, o, v, q
  <2>. QED BY <1>1, <1>2, <2>3
<1>4. CASE NodeAnswered(i)
  <2>1. i \in Unanswered /\ i \in calling /\ calling' = calling \ {i}
    BY <1>0, <1>4 DEF NodeAnswered, Unanswered
  <2>2. items[i] # None /\ results' = [results EXCEPT ![i] = items[i]]
    BY <1>4 DEF NodeAnswered, Inv, TypeOK, Slots, Positions, None
  <2>3. Unanswered' = Unanswered \ {i}
    <3>1. i \in DOMAIN results /\ Slots = DOMAIN results
      BY <1>0 DEF Slots
    <3>. QED BY <1>0, <2>2, <3>1 DEF Unanswered
  <2>4. Unanswered' \ calling' = Unanswered \ calling
    BY <2>1, <2>3
  <2>5. v = u - 1 /\ q = o
    BY <1>2, <2>1, <2>3, <2>4, FS_RemoveElement
  <2>. HIDE DEF u, o, v, q
  <2>. QED BY <1>1, <1>2, <2>5
<1>. QED BY <1>3, <1>4

(* Every step of a hydration but the writes of others takes from a supply  *)
(* that is finite when it starts and that nobody refills: no server and no *)
(* order of answers can keep the call going.                               *)
THEOREM HydrationUsesUpHolds == Spec => HydrationUsesUp
<1>. DEFINE Less == walk = "hydration" =>
                      /\ HydrationLeft' \in Nat
                      /\ \/ HydrationLeft' < HydrationLeft
                         \/ /\ \E p \in Positions : OtherWrites(p)
                            /\ HydrationLeft' = HydrationLeft
<1>0. Inv' => LeftIsNat'
  BY HydrationLeftIsNat, PTL
<1>1. Inv /\ Inv' /\ [Next]_vars => [Less]_vars
  <2>. SUFFICES ASSUME Inv, Inv', Next, walk = "hydration" PROVE Less
    OBVIOUS
  <2>1. HydrationLeft' \in Nat /\ HydrationLeft \in Nat
    BY <1>0, HydrationLeftIsNat DEF LeftIsNat
  <2>2. walk \notin Walks
    BY DEF Walks, DocumentListings, GraphListings, FileListings, TenantListings
  <2>3. CASE FollowPage
    BY <2>1, <2>3, FollowPageUsesUp
  <2>4. ASSUME NEW i \in Slots, GetNode(i) \/ NodeAnswered(i) PROVE Less
    BY <2>1, <2>4, BatchUsesUp
  <2>5. ASSUME FollowFails \/ HydrationReturns \/ \E i \in Slots : NodeFails(i) PROVE Less
    <3>1. HydrationLeft' = 0
      BY <2>5 DEF FollowFails, HydrationReturns, NodeFails, HydrationLeft
    <3>2. pc \in {"paging", "hydrating"}
      BY <2>5 DEF FollowFails, HydrationReturns, NodeFails
    <3>3. HydrationLeft # 0
      <4>. DEFINE u == Cardinality(Unanswered)   o == Cardinality(Unanswered \ calling)
      <4>1. u \in Nat /\ o \in Nat
        BY UnansweredBounded DEF BatchBounded
      <4>2. u + o + 1 # 0
        <5>. HIDE DEF u, o
        <5>. QED BY <4>1
      <4>3. cursor \in 0 .. MaxPosition /\ (MaxPosition - cursor) + 4 * MaxPosition + 2 # 0
        BY DEF Inv, TypeOK
      <4>. QED BY <3>2, <4>2, <4>3 DEF HydrationLeft
    <3>. QED BY <2>1, <3>1, <3>3
  <2>6. ASSUME NEW p \in Positions, OtherWrites(p), UNCHANGED hydrationVars PROVE Less
    <3>1. UNCHANGED <<pc, cursor, Unanswered, calling>>
      BY <2>6 DEF OtherWrites, hydrationVars, Unanswered, Slots
    <3>2. HydrationLeft' = HydrationLeft
      BY <3>1 DEF HydrationLeft
    <3>. QED BY <2>1, <2>6, <3>2
  <2>7. ~(ListPage \/ PageFails \/ PageRetried)
    BY <2>2 DEF ListPage, PageFails, PageRetried, Inv, WalkInv, Hydrated
  <2>. QED BY <2>3, <2>4, <2>5, <2>6, <2>7 DEF Next, ListingStep
<1>. QED BY <1>1, WalksSafe, PTL DEF Spec, HydrationUsesUp

(* A page that arrives takes the walk past its cursor or ends it.          *)
LEMMA ListPageUsesUp ==
  ASSUME Inv, ListPage PROVE PagesLeft' \in Nat /\ PagesLeft' < PagesLeft
<1>. DEFINE M == MaxPosition
<1>1. cursor \in 0 .. M /\ M \in Nat /\ pc = "paging"
  BY DEF ListPage, Inv, TypeOK
<1>2. PICK limit \in Served : \E c \in NextCursors(cursor, limit) :
        IF c = None THEN pc' = "returned" /\ UNCHANGED cursor ELSE cursor' = c /\ UNCHANGED pc
  BY DEF ListPage
<1>3. PICK c \in NextCursors(cursor, limit) :
        IF c = None THEN pc' = "returned" /\ UNCHANGED cursor ELSE cursor' = c /\ UNCHANGED pc
  BY <1>2
<1>4. c \in 0 .. M /\ (c # None => c > cursor)
  BY <1>1, ServedType, NextCursorType
<1>5. PagesLeft = M + 1 - cursor
  BY <1>1 DEF PagesLeft
<1>6. PagesLeft' = IF c = None THEN 0 ELSE M + 1 - c
  BY <1>1, <1>3 DEF PagesLeft
<1>. HIDE DEF M, PagesLeft
<1>. QED BY <1>1, <1>4, <1>5, <1>6

(* A caller that follows next_cursor is through after as many pages as     *)
(* there are entries, and one: no page is asked for without end, whatever  *)
(* fails and is written in between.                                        *)
THEOREM WalkUsesUpHolds == Spec => WalkUsesUp
<1>. DEFINE Less == walk \in Walks =>
                      /\ PagesLeft' \in Nat
                      /\ \/ ListPage /\ PagesLeft' < PagesLeft
                         \/ ~ListPage /\ PagesLeft' = PagesLeft
<1>1. Inv /\ [Next]_vars => [Less]_vars
  <2>. SUFFICES ASSUME Inv, Next, walk \in Walks, ~ListPage
                PROVE  PagesLeft' \in Nat /\ PagesLeft' = PagesLeft
    BY ListPageUsesUp
  <2>1. walk # "hydration"
    BY DEF Walks, DocumentListings, GraphListings, FileListings, TenantListings
  <2>2. pc # "hydrating" /\ cursor \in 0 .. MaxPosition /\ MaxPosition \in Nat
    BY <2>1 DEF Inv, WalkInv, Hydrated, TypeOK
  <2>3. PageFails \/ PageRetried \/ \E p \in Positions : OtherWrites(p)
    BY <2>1, <2>2 DEF Next, ListingStep, FollowPage, FollowFails, HydrationReturns, GetNode,
                      NodeAnswered, NodeFails
  <2>4. cursor' = cursor /\ (pc' = "returned" <=> pc = "returned")
    BY <2>3 DEF PageFails, PageRetried, OtherWrites
  <2>5. PagesLeft' = PagesLeft
    BY <2>4 DEF PagesLeft
  <2>6. PagesLeft \in Nat
    BY <2>2 DEF PagesLeft
  <2>. QED BY <2>5, <2>6
<1>. QED BY <1>1, WalksSafe, PTL DEF Spec, WalkUsesUp
=============================================================================
