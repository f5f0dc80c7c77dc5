---------------------------- MODULE PagedListing ----------------------------
(***************************************************************************)
(* The listings of src/rociadb_sdk and the walks over their pages, with    *)
(* the cursor rules of _pagination.py, while other clients add and delete  *)
(* what is listed.  A caller's walk is the loop of README.md: it asks for  *)
(* pages of any size until next_cursor is None, and asks again from the    *)
(* same cursor for a page that failed.                                     *)
(*                                                                         *)
(* The server is outside src/: it keeps an index, reads up to the limit    *)
(* from where the cursor points, passes over entries whose object is gone, *)
(* and need not know whether there are more.                               *)
(***************************************************************************)
EXTENDS Integers, Sequences, FiniteSets

CONSTANTS
  MaxPosition,        \* size of the server's index
  Limits,             \* what callers pass as limit
  DEFAULT_PAGE_SIZE,  \* what is asked for when they pass none
  MaxPageSize,        \* the server's ceiling
  MaxWrites           \* bound on the writes of other clients

ASSUME ListingAssumption ==
  /\ MaxPosition \in Nat
  /\ Limits \subseteq Int
  /\ DEFAULT_PAGE_SIZE \in Nat \ {0}
  /\ MaxPageSize \in Nat \ {0}
  /\ MaxWrites \in Nat

Positions == 1 .. MaxPosition

(* No cursor, and the protobuf default "" that stands for it.              *)
None == 0

VARIABLES
  walk,    \* what the pages are read for
  entry,   \* the index: no entry, a live object, one that does not decode, one deleted
  writes,  \* writes of other clients so far
  steady,  \* objects that have been there since the walk began
  cursor,  \* the local of that name
  items,   \* what the pages brought, by position in the index
  pc       \* where the walk is, or how it ended

listingVars == <<walk, entry, writes, steady, cursor, items, pc>>

Slots == 1 .. Len(items)
EntryState == {"none", "live", "garbled", "stale"}
Present(p) == entry[p] \in {"live", "garbled"}

-----------------------------------------------------------------------------
(* What each listing makes of an item: JSON that may fail to decode, or a  *)
(* name taken as it is.                                                    *)
DocumentListings ==
  [find_documents_by_field |-> "decoding", list_documents |-> "decoding",
   query_documents |-> "decoding", list_collections |-> "plain"]
GraphListings ==
  [neighbors_out |-> "plain", neighbors_in |-> "plain",
   list_graphs |-> "plain", list_nodes |-> "plain"]
FileListings == [list_buckets |-> "plain", list_files |-> "plain"]
TenantListings == [list_tenants |-> "plain"]

Walks == UNION {{t[l] : l \in DOMAIN t} : t \in
                 {DocumentListings, GraphListings, FileListings, TenantListings}}

ListingInit(walks) ==
  /\ walk \in walks
  /\ entry \in [Positions -> EntryState]
  /\ writes = 0
  /\ steady = {p \in Positions : Present(p)}
  /\ cursor = None
  /\ items = <<>>
  /\ pc = "paging"

(* What the server reads for a cursor and a limit, and the cursors it may  *)
(* hand out: the last entry read, or none when there is nothing behind it. *)
Behind(c) == {p \in Positions : p > c /\ entry[p] # "none"}
Scanned(c, limit) == {p \in Behind(c) : Cardinality({q \in Behind(c) : q < p}) < limit}
NextCursors(c, limit) ==
  {p \in Scanned(c, limit) : \A q \in Scanned(c, limit) : q <= p}
    \cup (IF Behind(c) = Scanned(c, limit) THEN {None} ELSE {})

(* The page: the objects read that are there, in index order.              *)
InOrder(S) ==
  {s \in [1 .. Cardinality(S) -> S] : /\ \A i, j \in DOMAIN s : i < j => s[i] < s[j]
                                      /\ \A p \in S : \E i \in DOMAIN s : s[i] = p}
PageItems(c, limit) == {p \in Scanned(c, limit) : Present(p)}

-----------------------------------------------------------------------------
(* _page_request() refuses a limit below one.                              *)
LimitRejected(limit) == limit <= 0

Asked == {DEFAULT_PAGE_SIZE} \cup {l \in Limits : ~LimitRejected(l)}

(* Limits above the ceiling are forwarded, and the server rejects them.    *)
Served == {limit \in Asked : limit <= MaxPageSize}

(* One item that does not decode, or whose decoder raises, fails the page. *)
Decodes(page) == walk = "decoding" => \A p \in page : entry[p] # "garbled"

(* Altered forms: an empty page ends the walk; a page that fails half way  *)
(* leaves its items behind.                                                *)
ListPageUntilEmpty ==
  /\ pc = "paging" /\ walk \in Walks
  /\ \E limit \in Served : \E c \in NextCursors(cursor, limit) :
       \E page \in InOrder(PageItems(cursor, limit)) :
         /\ Decodes(PageItems(cursor, limit))
         /\ items' = items \o page
         /\ IF c = None \/ page = <<>>
            THEN pc' = "returned" /\ UNCHANGED cursor
            ELSE cursor' = c /\ UNCHANGED pc
  /\ UNCHANGED <<walk, entry, writes, steady>>

PageFailsHalfWay ==
  /\ pc = "paging" /\ walk \in Walks
  /\ \E limit \in Served : \E page \in InOrder(PageItems(cursor, limit)) :
       items' = items \o page
  /\ pc' = "page_failed"
  /\ UNCHANGED <<walk, entry, writes, steady, cursor>>

(* A page arrives, and its next_cursor, None for "", is followed.          *)
ListPage ==
  /\ pc = "paging" /\ walk \in Walks
  /\ \E limit \in Served : \E c \in NextCursors(cursor, limit) :
       \E page \in InOrder(PageItems(cursor, limit)) :
         /\ Decodes(PageItems(cursor, limit))
         /\ items' = items \o page
         /\ IF c = None
            THEN pc' = "returned" /\ UNCHANGED cursor
            ELSE cursor' = c /\ UNCHANGED pc
  /\ UNCHANGED <<walk, entry, writes, steady>>

(* A limit that is refused, here or by the server, a search value that is  *)
(* no JSON, a status, an item that does not decode: the call raises, and   *)
(* neither the items nor the cursor of the page are known.                 *)
PageFails ==
  /\ pc = "paging" /\ walk \in Walks
  /\ pc' = "page_failed"
  /\ UNCHANGED <<walk, entry, writes, steady, cursor, items>>

PageRetried ==
  /\ pc = "page_failed"
  /\ pc' = "paging"
  /\ UNCHANGED <<walk, entry, writes, steady, cursor, items>>

(* Other clients create, replace and delete objects; the entry of one that *)
(* was deleted may stay in the index for a while.                          *)
OtherWrites(p) ==
  /\ writes < MaxWrites
  /\ writes' = writes + 1
  /\ \E e \in EntryState \ {entry[p]} : entry' = [entry EXCEPT ![p] = e]
  /\ steady' = IF Present(p)' THEN steady ELSE steady \ {p}
  /\ UNCHANGED <<walk, cursor, items, pc>>

ListingStep == \/ ListPage \/ PageFails \/ PageRetried
               \/ \E p \in Positions : OtherWrites(p)
=============================================================================
