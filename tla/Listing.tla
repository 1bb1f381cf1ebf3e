---- MODULE Listing ----
(* How a client of the plugin pages through a listing (internal/catalog and     *)
(* internal/bookwarehouse/client.go): cursors are BookWarehouse's page numbers, *)
(* the end of a list is inferred from a page that is not full, and the list may *)
(* change between two pages. The plugin keeps nothing from page to page; the    *)
(* client, which follows next_cursor, and BookWarehouse are external.           *)
EXTENDS Integers, SequencesExt

CONSTANTS
  Items,         \* books, or authors, series, narrators
  Lists,         \* what BookWarehouse may have when the client begins
  Limits,        \* ?limit of clients; 0 where it is absent, not a number or not positive
  MaxLimit,      \* maxCatalogLimit
  DefaultSize,   \* BookWarehouse's page size when it is sent no limit
  None,          \* no cursor
  MaxPages,      \* bound: the client does not follow a cursor past this page
  MaxInserts, MaxRemoves,   \* bounds: changes of the list
  MaxFaults      \* bound: upstream calls that fail

ASSUME ListingAssumption ==
  /\ Lists \subseteq {l \in Seq(Items) : IsInjective(l)}
  /\ Limits \subseteq Nat
  /\ MaxLimit \in Nat \ {0} /\ DefaultSize \in Nat \ {0} /\ MaxPages \in Nat \ {0}
  /\ None \notin Nat
  /\ MaxInserts \in Nat /\ MaxRemoves \in Nat /\ MaxFaults \in Nat

VARIABLES
  list,          \* BookWarehouse's list now
  route,         \* "catalog" (list and search) or "browse" (the three facets)
  asked,         \* the client's ?limit
  advertises,    \* BookWarehouse's catalogue pages name their successor
  cursor,        \* the cursor the client holds
  sent,          \* the limit BookWarehouse was last sent
  seen,          \* what the client has received
  kept,          \* history: the items that were on the list all the time
  pc,            \* "listing" or "done"
  inserts, removes, faults

client == <<route, asked, advertises, cursor, sent, seen, pc>>
vars == <<list, client, kept, inserts, removes, faults>>

TypeOK ==
  /\ list \in Seq(Items)
  /\ route \in {"catalog", "browse"}
  /\ asked \in Limits
  /\ advertises \in BOOLEAN
  /\ cursor \in (Nat \ {0}) \cup {None}
  /\ sent \in 0..MaxLimit
  /\ seen \in Seq(Items)
  /\ kept \subseteq Items
  /\ pc \in {"listing", "done"}
  /\ inserts \in Nat /\ removes \in Nat /\ faults \in Nat

Init ==
  /\ list \in Lists
  /\ route \in {"catalog", "browse"}
  /\ asked \in Limits
  /\ advertises \in BOOLEAN
  /\ cursor = None
  /\ sent = 0
  /\ seen = <<>>
  /\ kept = ToSet(list)
  /\ pc = "listing"
  /\ inserts = 0 /\ removes = 0 /\ faults = 0

Least(m, n) == IF m <= n THEN m ELSE n

----
(* One page                                                                     *)

(* Mutant: the limit is not clamped. *)
ParseLimitUnclamped(limit) == limit

ParseLimit(limit) == Least(limit, MaxLimit)

(* The page a query asks BookWarehouse for; without one it is the first.        *)
Page(p) == IF p.cursor = None THEN 1 ELSE p.cursor

Size(p) == IF p.limit = 0 THEN DefaultSize ELSE p.limit

(* BookWarehouse's answer: the items of that page, the last one being shorter.  *)
UpstreamPage(p) == SubSeq(list, (Page(p) - 1) * Size(p) + 1, Least(Page(p) * Size(p), Len(list)))

(* Its own next_cursor, where it gives one: the next page, if there is one.     *)
Advertised(p) ==
  IF advertises /\ Page(p) * Size(p) < Len(list) THEN Page(p) + 1 ELSE None

(* Mutant: a page that is full is taken for the last. *)
NextCursorNotFull(p, returned) ==
  IF p.limit = 0 \/ returned <= p.limit THEN None ELSE Page(p) + 1

(* Mutant: the next page is the page itself. *)
NextCursorSame(p, returned) ==
  IF p.limit = 0 \/ returned < p.limit THEN None ELSE Page(p)

(* Mutant: a page that is not full does not end the list. *)
NextCursorAlways(p, returned) == IF p.limit = 0 THEN None ELSE Page(p) + 1

(* nextCursorFromPage: a full page may have a successor, any other is the last, *)
(* and so is every page of a client that gives no limit.                        *)
NextCursorFromPage(p, returned) ==
  IF p.limit = 0 \/ returned < p.limit THEN None ELSE Page(p) + 1

(* ListBooks prefers BookWarehouse's own cursor to the one it would infer.      *)
ListBooks(p) ==
  LET items == UpstreamPage(p) IN
  [items |-> items,
   next |-> IF Advertised(p) # None THEN Advertised(p) ELSE NextCursorFromPage(p, Len(items))]

(* ListAuthors, ListSeries and ListNarrators always infer.                      *)
ListFacets(p) ==
  LET items == UpstreamPage(p) IN
  [items |-> items, next |-> NextCursorFromPage(p, Len(items))]

----
(* The client and the handlers                                                  *)

ReadListParams == [cursor |-> cursor, limit |-> ParseLimit(asked)]

(* The envelope, or a 502 after which the client asks for the same page again.  *)
Reply(page) ==
  /\ pc = "listing"
  /\ cursor # None => cursor <= MaxPages
  /\ sent' = ParseLimit(asked)
  /\ \/ /\ seen' = seen \o page.items
        /\ cursor' = page.next
        /\ pc' = IF page.next = None THEN "done" ELSE "listing"
        /\ UNCHANGED faults
     \/ /\ faults < MaxFaults
        /\ faults' = faults + 1
        /\ UNCHANGED <<seen, cursor, pc>>
  /\ UNCHANGED <<list, route, asked, advertises, kept, inserts, removes>>

(* GET /catalog and /catalog/search *)
List == route = "catalog" /\ Reply(ListBooks(ReadListParams))

(* GET /browse/authors, /browse/series and /browse/narrators *)
Browse == route = "browse" /\ Reply(ListFacets(ReadListParams))

(* BookWarehouse adds an item wherever the order it lists in puts it.           *)
Insert ==
  /\ inserts < MaxInserts
  /\ inserts' = inserts + 1
  /\ \E x \in Items \ ToSet(list), i \in 1..(Len(list) + 1) : list' = InsertAt(list, i, x)
  /\ UNCHANGED <<client, kept, removes, faults>>

Withdraw ==
  /\ removes < MaxRemoves
  /\ removes' = removes + 1
  /\ \E i \in 1..Len(list) :
       /\ list' = RemoveAt(list, i)
       /\ kept' = kept \ {list[i]}
  /\ UNCHANGED <<client, inserts, faults>>

Next == List \/ Browse \/ Insert \/ Withdraw

Spec == Init /\ [][Next]_vars

(* The client follows every cursor it is given and each call is answered. *)
FairSpec == Spec /\ WF_vars(List \/ Browse)

----
(* Properties                                                                   *)

(* Somebody says where the list goes on: the client's limit, or BookWarehouse.  *)
Continued == asked # 0 \/ (route = "catalog" /\ advertises)

(* A client that came to the end missed none of the items that were there all   *)
(* the time, but for one per item that was removed meanwhile and moved the rest *)
(* forward by one: inferring the end from a page that is not full               *)
(* (bookwarehouse/client.go:233-236) never ends a list early, and neither does  *)
(* the limit the handler silently lowers.                                       *)
MissedOnlyByRemoves ==
  (pc = "done" /\ Continued) => Cardinality(kept \ ToSet(seen)) <= removes

(* No item is received again but for one per item that was inserted meanwhile:  *)
(* the cursor moves on by exactly the page that was returned, over 502s too.    *)
RepeatedOnlyByInserts == Len(seen) - Cardinality(ToSet(seen)) <= inserts

(* Every listing comes to its end, though the last page may be exactly full and *)
(* be followed by an empty one.                                                 *)
ListingEnds == <>(pc = "done")
====
