---- MODULE Listing_proofs ----
(* Theorems about Listing, for any lists, limits, page sizes and any number of  *)
(* changes: what a client misses and what it is given twice.                    *)
EXTENDS Listing, SequenceTheorems, FiniteSetTheorems, TLAPS

----
(* The library's operators on lists                                             *)

LEMMA Inserted ==
  ASSUME NEW s \in Seq(Items), NEW i \in 1..(Len(s) + 1), NEW x \in Items
  PROVE  LET t == InsertAt(s, i, x) IN
         /\ t \in Seq(Items) /\ Len(t) = Len(s) + 1
         /\ \A j \in 1..(Len(s) + 1) :
              t[j] = IF j < i THEN s[j] ELSE IF j = i THEN x ELSE s[j - 1]
<1> DEFINE before == SubSeq(s, 1, i - 1)
           after == SubSeq(s, i, Len(s))
           upTo == before \o <<x>>
<1>1. /\ before \in Seq(Items) /\ Len(before) = i - 1
      /\ \A j \in 1..(i - 1) : before[j] = s[j]
  <2>1. \A j \in 1..(i - 1) : s[j] \in Items
    OBVIOUS
  <2>2. 1 <= i - 1 \/ i - 1 = 0
    OBVIOUS
  <2> QED BY <2>1, <2>2, SubSeqProperties
<1>2. /\ after \in Seq(Items) /\ Len(after) = Len(s) - i + 1
      /\ \A j \in 1..(Len(s) - i + 1) : after[j] = s[i + j - 1]
  <2>1. \A j \in i..Len(s) : s[j] \in Items
    OBVIOUS
  <2>2. i <= Len(s) \/ (i > Len(s) /\ Len(s) - i + 1 = 0)
    OBVIOUS
  <2> QED BY <2>1, <2>2, SubSeqProperties
<1>3. InsertAt(s, i, x) = upTo \o after
  BY DEF InsertAt
<1> HIDE DEF before, after
<1>4. /\ upTo \in Seq(Items) /\ Len(upTo) = i
      /\ \A j \in 1..i : upTo[j] = IF j < i THEN s[j] ELSE x
  BY <1>1
<1> HIDE DEF upTo
<1>5. /\ upTo \o after \in Seq(Items) /\ Len(upTo \o after) = Len(upTo) + Len(after)
      /\ \A j \in 1..(Len(upTo) + Len(after)) :
           (upTo \o after)[j] = IF j <= Len(upTo) THEN upTo[j] ELSE after[j - Len(upTo)]
  BY <1>2, <1>4, ConcatProperties
<1>6. ASSUME NEW j \in 1..(Len(s) + 1)
      PROVE  (upTo \o after)[j] = IF j < i THEN s[j] ELSE IF j = i THEN x ELSE s[j - 1]
  <2>1. CASE j <= i
    BY <1>2, <1>4, <1>5, <2>1
  <2>2. CASE j > i
    <3>1. j - i \in 1..(Len(s) - i + 1) /\ i + (j - i) - 1 = j - 1
      BY <2>2
    <3>2. after[j - i] = s[j - 1]
      BY <1>2, <3>1
    <3>3. (upTo \o after)[j] = after[j - i]
      <4>1. j \in 1..(Len(upTo) + Len(after)) /\ ~(j <= Len(upTo)) /\ Len(upTo) = i
        BY <1>2, <1>4, <2>2
      <4> QED BY <1>5, <4>1
    <3> QED BY <2>2, <3>2, <3>3
  <2>3. j <= i \/ j > i
    OBVIOUS
  <2> QED BY <2>1, <2>2, <2>3, Zenon
<1> QED BY <1>2, <1>3, <1>4, <1>5, <1>6

LEMMA Removed ==
  ASSUME NEW s \in Seq(Items), NEW i \in 1..Len(s)
  PROVE  LET t == RemoveAt(s, i) IN
         /\ t \in Seq(Items) /\ Len(t) = Len(s) - 1
         /\ \A j \in 1..(Len(s) - 1) : t[j] = IF j < i THEN s[j] ELSE s[j + 1]
<1> DEFINE before == SubSeq(s, 1, i - 1)
           after == SubSeq(s, i + 1, Len(s))
<1>1. /\ before \in Seq(Items) /\ Len(before) = i - 1
      /\ \A j \in 1..(i - 1) : before[j] = s[j]
  <2>1. \A j \in 1..(i - 1) : s[j] \in Items
    OBVIOUS
  <2>2. 1 <= i - 1 \/ i - 1 = 0
    OBVIOUS
  <2> QED BY <2>1, <2>2, SubSeqProperties
<1>2. /\ after \in Seq(Items) /\ Len(after) = Len(s) - i
      /\ \A j \in 1..(Len(s) - i) : after[j] = s[i + j]
  <2>1. /\ \A j \in (i + 1)..Len(s) : s[j] \in Items
        /\ Len(s) - (i + 1) + 1 = Len(s) - i
        /\ \A j \in 1..(Len(s) - i) : (i + 1) + j - 1 = i + j
    OBVIOUS
  <2>2. i + 1 <= Len(s) \/ (i + 1 > Len(s) /\ Len(s) - i = 0)
    OBVIOUS
  <2>3. /\ after \in Seq(Items)
        /\ Len(after) = IF i + 1 <= Len(s) THEN Len(s) - (i + 1) + 1 ELSE 0
        /\ \A j \in 1..(Len(s) - (i + 1) + 1) : after[j] = s[(i + 1) + j - 1]
    BY <2>1, SubSeqProperties
  <2> QED BY <2>1, <2>2, <2>3
<1>3. RemoveAt(s, i) = before \o after
  BY DEF RemoveAt
<1> HIDE DEF before, after
<1>4. /\ before \o after \in Seq(Items) /\ Len(before \o after) = Len(before) + Len(after)
      /\ \A j \in 1..(Len(before) + Len(after)) :
           (before \o after)[j] = IF j <= Len(before) THEN before[j] ELSE after[j - Len(before)]
  BY <1>1, <1>2, ConcatProperties
<1>5. ASSUME NEW j \in 1..(Len(s) - 1)
      PROVE  (before \o after)[j] = IF j < i THEN s[j] ELSE s[j + 1]
  <2>1. CASE j < i
    BY <1>1, <1>2, <1>4, <2>1
  <2>2. CASE j >= i
    <3>1. j - (i - 1) \in 1..(Len(s) - i) /\ i + (j - (i - 1)) = j + 1
      BY <2>2
    <3>2. after[j - (i - 1)] = s[j + 1]
      BY <1>2, <3>1
    <3>3. (before \o after)[j] = after[j - (i - 1)]
      <4>1. j \in 1..(Len(before) + Len(after)) /\ ~(j <= Len(before)) /\ Len(before) = i - 1
        BY <1>1, <1>2, <2>2
      <4> QED BY <1>4, <4>1
    <3> QED BY <2>2, <3>2, <3>3
  <2>3. j < i \/ j >= i
    OBVIOUS
  <2> QED BY <2>1, <2>2, <2>3, Zenon
<1> QED BY <1>1, <1>2, <1>3, <1>4, <1>5

(* The items of a list are its elements. *)
LEMMA ItemsOf ==
  ASSUME NEW s \in Seq(Items)
  PROVE  /\ ToSet(s) = {s[i] : i \in 1..Len(s)} /\ ToSet(s) \subseteq Items
         /\ IsFiniteSet(ToSet(s))
<1>1. ToSet(s) = {s[i] : i \in 1..Len(s)} /\ ToSet(s) \subseteq Items
  BY DEF ToSet
<1>2. s \in Surjection(1..Len(s), ToSet(s))
  BY <1>1 DEF Surjection
<1>3. IsFiniteSet(1..Len(s))
  BY FS_Interval
<1> QED BY <1>1, <1>2, <1>3, FS_Surjection

----
(* Type correctness                                                             *)

(* The client's query, the size of its pages and how far it has come. *)
Query == ReadListParams
PageSize == Size(Query)
Passed == (Page(Query) - 1) * PageSize

PageOf == IF route = "catalog" THEN ListBooks(Query) ELSE ListFacets(Query)

LEMMA QueryType ==
  ASSUME TypeOK
  PROVE  /\ ParseLimit(asked) \in 0..MaxLimit /\ (ParseLimit(asked) = 0 <=> asked = 0)
         /\ Query.limit = ParseLimit(asked) /\ Query.cursor = cursor
         /\ PageSize \in Nat \ {0} /\ (asked # 0 => PageSize = ParseLimit(asked))
         /\ Page(Query) \in Nat \ {0}
         /\ Passed \in Nat /\ Page(Query) * PageSize = Passed + PageSize
<1>1. asked \in Nat /\ MaxLimit \in Nat \ {0} /\ DefaultSize \in Nat \ {0}
      /\ cursor \in (Nat \ {0}) \cup {None}
  BY ListingAssumption DEF TypeOK
<1>2. ParseLimit(asked) \in 0..MaxLimit /\ (ParseLimit(asked) = 0 <=> asked = 0)
  BY <1>1 DEF ParseLimit, Least
<1>3. Query.limit = ParseLimit(asked) /\ Query.cursor = cursor
  BY DEF Query, ReadListParams
<1>4. PageSize \in Nat \ {0} /\ (asked # 0 => PageSize = ParseLimit(asked))
  BY <1>1, <1>2, <1>3 DEF PageSize, Size
<1>5. Page(Query) \in Nat \ {0}
  BY <1>1, <1>3 DEF Page
<1>6. \A n, m \in Nat \ {0} : (n - 1) * m \in Nat /\ n * m = (n - 1) * m + m
  OBVIOUS
<1> QED BY <1>2, <1>3, <1>4, <1>5, <1>6 DEF Passed

(* A page has the items from where the client is to the page's size further, or *)
(* to the end of the list.                                                      *)
LEMMA PageItems ==
  ASSUME TypeOK
  PROVE  LET items == UpstreamPage(Query)
             end == Least(Passed + PageSize, Len(list)) IN
         /\ items \in Seq(Items)
         /\ Len(items) = IF Passed < end THEN end - Passed ELSE 0
         /\ \A i \in 1..Len(items) : Passed + i \in 1..Len(list) /\ items[i] = list[Passed + i]
<1> DEFINE p == Passed
           end == Least(p + PageSize, Len(list))
           items == SubSeq(list, p + 1, end)
<1>1. list \in Seq(Items) /\ Len(list) \in Nat /\ p \in Nat /\ PageSize \in Nat
  BY QueryType DEF TypeOK
<1>2. UpstreamPage(Query) = items
  BY QueryType DEF UpstreamPage, Passed, PageSize
<1>3. end \in Nat /\ end <= Len(list)
  BY <1>1 DEF Least
<1> HIDE DEF p, end
<1>4. \A i \in (p + 1)..end : list[i] \in Items
  BY <1>1, <1>3
<1>5. /\ items \in Seq(Items)
      /\ Len(items) = IF p + 1 <= end THEN end - (p + 1) + 1 ELSE 0
      /\ \A i \in 1..(end - (p + 1) + 1) : items[i] = list[(p + 1) + i - 1]
  BY <1>1, <1>3, <1>4, SubSeqProperties
<1>6. Len(items) = IF p < end THEN end - p ELSE 0
  BY <1>1, <1>3, <1>5
<1>7. ASSUME NEW i \in 1..Len(items)
      PROVE  p + i \in 1..Len(list) /\ items[i] = list[p + i]
  <2>1. i \in 1..(end - (p + 1) + 1) /\ (p + 1) + i - 1 = p + i
    BY <1>1, <1>3, <1>6
  <2> QED BY <1>1, <1>3, <1>5, <2>1
<1> QED BY <1>2, <1>5, <1>6, <1>7 DEF p, end

(* It names the next page or none, and one where the list goes on and somebody  *)
(* says so (bookwarehouse/client.go:183-195, 233-250).                          *)
LEMMA PageNext ==
  ASSUME TypeOK
  PROVE  /\ PageOf.items = UpstreamPage(Query)
         /\ PageOf.next \in {None, Page(Query) + 1}
         /\ Continued /\ Passed + PageSize < Len(list) => PageOf.next # None
<1> DEFINE items == UpstreamPage(Query)
<1>1. /\ Page(Query) \in Nat \ {0} /\ PageSize \in Nat \ {0} /\ Passed \in Nat
      /\ Page(Query) * PageSize = Passed + PageSize
      /\ Query.limit = ParseLimit(asked) /\ (ParseLimit(asked) = 0 <=> asked = 0)
      /\ (asked # 0 => PageSize = ParseLimit(asked))
      /\ Len(list) \in Nat /\ route \in {"catalog", "browse"}
  BY QueryType DEF TypeOK
<1>2. /\ PageOf.items = items
      /\ PageOf.next = IF route = "catalog" /\ Advertised(Query) # None THEN Advertised(Query)
                       ELSE NextCursorFromPage(Query, Len(items))
  BY <1>1 DEF PageOf, ListBooks, ListFacets
<1>3. /\ Advertised(Query) \in {None, Page(Query) + 1}
      /\ NextCursorFromPage(Query, Len(items)) \in {None, Page(Query) + 1}
  BY DEF Advertised, NextCursorFromPage
<1>4. Page(Query) + 1 # None
  BY <1>1, ListingAssumption
<1>5. ASSUME Continued, Passed + PageSize < Len(list)
      PROVE  PageOf.next # None
  <2>1. CASE route = "catalog" /\ advertises
    <3>1. Advertised(Query) = Page(Query) + 1
      BY <1>1, <1>5, <2>1 DEF Advertised, PageSize
    <3> QED BY <1>2, <1>4, <2>1, <3>1
  <2>2. CASE asked # 0
    <3>1. Len(items) = PageSize
      <4>1. Least(Passed + PageSize, Len(list)) = Passed + PageSize
        BY <1>1, <1>5 DEF Least
      <4>2. Passed < Passed + PageSize /\ (Passed + PageSize) - Passed = PageSize
        BY <1>1
      <4> QED BY <4>1, <4>2, PageItems
    <3>2. NextCursorFromPage(Query, Len(items)) = Page(Query) + 1
      BY <1>1, <2>2, <3>1 DEF NextCursorFromPage
    <3> QED BY <1>2, <1>4, <3>2
  <2> QED BY <1>5, <2>1, <2>2 DEF Continued
<1> QED BY <1>2, <1>3, <1>5

(* What an answer changes: nothing on a failure. *)
LEMMA Answer ==
  ASSUME TypeOK, List \/ Browse
  PROVE  /\ pc = "listing" /\ sent' = ParseLimit(asked)
         /\ UNCHANGED <<list, route, asked, advertises, kept, inserts, removes>>
         /\ \/ /\ seen' = seen \o UpstreamPage(Query)
               /\ cursor' = PageOf.next
               /\ pc' = IF PageOf.next = None THEN "done" ELSE "listing"
               /\ UNCHANGED faults
            \/ UNCHANGED <<seen, cursor, pc>> /\ faults' = faults + 1
<1>1. Reply(PageOf)
  BY DEF List, Browse, PageOf, Query
<1>2. PageOf.items = UpstreamPage(Query)
  BY PageNext
<1> QED BY <1>1, <1>2 DEF Reply

LEMMA TypeInit == Init => TypeOK
<1> SUFFICES ASSUME Init PROVE TypeOK
  OBVIOUS
<1>1. list \in Seq(Items) /\ seen \in Seq(Items) /\ kept \subseteq Items
  BY ItemsOf, ListingAssumption DEF Init
<1> QED BY <1>1, ListingAssumption DEF Init, TypeOK

LEMMA TypeAnswer ==
  ASSUME TypeOK, List \/ Browse
  PROVE  TypeOK'
<1>1. cursor' \in (Nat \ {0}) \cup {None} /\ pc' \in {"listing", "done"} /\ faults' \in Nat
  <2>1. PageOf.next \in (Nat \ {0}) \cup {None}
    <3>1. Page(Query) + 1 \in Nat \ {0}
      BY QueryType
    <3> QED BY <3>1, PageNext
  <2>2. cursor \in (Nat \ {0}) \cup {None} /\ pc \in {"listing", "done"} /\ faults \in Nat
    BY DEF TypeOK
  <2>3. \/ /\ cursor' = PageOf.next /\ pc' \in {"listing", "done"} /\ faults' = faults
        \/ cursor' = cursor /\ pc' = pc /\ faults' = faults + 1
    BY Answer
  <2> QED BY <2>1, <2>2, <2>3
<1>2. seen' \in Seq(Items)
  <2>1. UpstreamPage(Query) \in Seq(Items)
    BY PageItems
  <2>2. seen \in Seq(Items)
    BY DEF TypeOK
  <2>3. seen \o UpstreamPage(Query) \in Seq(Items)
    BY <2>1, <2>2, ConcatProperties
  <2> QED BY <2>2, <2>3, Answer
<1>3. sent' \in 0..MaxLimit
  BY Answer, QueryType
<1> QED BY <1>1, <1>2, <1>3, Answer DEF TypeOK

LEMMA TypeInsert ==
  ASSUME TypeOK, Insert
  PROVE  TypeOK'
<1>1. list' \in Seq(Items)
  BY Inserted DEF Insert, TypeOK
<1> QED BY <1>1 DEF Insert, TypeOK, client

LEMMA TypeWithdraw ==
  ASSUME TypeOK, Withdraw
  PROVE  TypeOK'
<1>1. list' \in Seq(Items)
  BY Removed DEF Withdraw, TypeOK
<1> QED BY <1>1 DEF Withdraw, TypeOK, client

LEMMA TypeNext == TypeOK /\ [Next]_vars => TypeOK'
<1> SUFFICES ASSUME TypeOK, [Next]_vars PROVE TypeOK'
  OBVIOUS
<1>1. CASE UNCHANGED vars
  BY <1>1 DEF vars, client, TypeOK
<1> QED BY <1>1, TypeAnswer, TypeInsert, TypeWithdraw DEF Next

(* Every list, limit and cursor stays what it is, for any lists and limits.     *)
THEOREM TypeCorrect == Spec => []TypeOK
BY TypeInit, TypeNext, PTL DEF Spec

----
(* What is missed and what comes again                                          *)

Behind == {list[i] : i \in {j \in 1..Len(list) : j <= Passed}}
Ahead == {list[i] : i \in {j \in 1..Len(list) : j > Passed}}

(* An item that was there all the time and slipped past the client was moved by *)
(* a removal.                                                                   *)
MissInv ==
  /\ kept \subseteq ToSet(list)
  /\ pc = "listing" => Cardinality((kept \cap Behind) \ ToSet(seen)) <= removes
  /\ pc = "done" /\ Continued => Cardinality(kept \ ToSet(seen)) <= removes

(* An item that came again, or will come again, was moved back by an insertion, *)
(* or inserted itself.                                                          *)
RepeatInv ==
  /\ IsInjective(list)
  /\ LET again == Len(seen) - Cardinality(ToSet(seen)) IN
     /\ pc = "listing" => again + Cardinality(Ahead \cap ToSet(seen)) <= inserts
     /\ pc = "done" => again <= inserts

(* A sequence has as many items as places at most, and as many if none is twice. *)
LEMMA CountItems ==
  ASSUME NEW s \in Seq(Items)
  PROVE  /\ Cardinality(ToSet(s)) \in Nat /\ Cardinality(ToSet(s)) <= Len(s)
         /\ IsInjective(s) => Cardinality(ToSet(s)) = Len(s)
<1>1. s \in Surjection(1..Len(s), ToSet(s))
  BY ItemsOf DEF Surjection
<1>2. IsFiniteSet(1..Len(s)) /\ Cardinality(1..Len(s)) = Len(s)
  <2>1. PICK n \in Nat : n = Len(s)
    OBVIOUS
  <2>2. IsFiniteSet(1..n) /\ Cardinality(1..n) = IF 1 > n THEN 0 ELSE n - 1 + 1
    BY FS_Interval
  <2> QED BY <2>1, <2>2
<1>3. IsInjective(s) => s \in Injection(1..Len(s), ToSet(s))
  BY <1>1 DEF Injection, Surjection
<1>4. Cardinality(ToSet(s)) \in Nat
  BY ItemsOf, FS_CardinalityType
<1> QED BY <1>1, <1>2, <1>3, <1>4, FS_Surjection

(* What the page at which the client is has on it now. *)
Due == {list[i] : i \in {j \in 1..Len(list) : j > Passed /\ j <= Passed + PageSize}}

LEMMA PageIsDue ==
  ASSUME TypeOK
  PROVE  LET items == UpstreamPage(Query) IN
         /\ items \in Seq(Items) /\ ToSet(items) = Due
         /\ IsInjective(list) => Len(items) = Cardinality(Due)
<1> DEFINE items == UpstreamPage(Query)
           end == Least(Passed + PageSize, Len(list))
<1>1. /\ items \in Seq(Items)
      /\ Len(items) = IF Passed < end THEN end - Passed ELSE 0
      /\ \A i \in 1..Len(items) : Passed + i \in 1..Len(list) /\ items[i] = list[Passed + i]
  BY PageItems
<1>2. /\ list \in Seq(Items) /\ Len(list) \in Nat /\ Passed \in Nat /\ PageSize \in Nat
      /\ end \in Nat /\ end <= Len(list) /\ end <= Passed + PageSize
      /\ \A j \in 1..Len(list) : j <= Passed + PageSize => j <= end
  BY QueryType, SMTT(30) DEF TypeOK, Least
<1> HIDE DEF items, end
<1>3. ToSet(items) = {items[i] : i \in 1..Len(items)}
  BY <1>1, ItemsOf
<1>4. ASSUME NEW i \in 1..Len(items)
      PROVE  items[i] \in Due
  <2>1. /\ Passed + i \in 1..Len(list) /\ items[i] = list[Passed + i]
        /\ Passed + i > Passed /\ Passed + i <= Passed + PageSize
    BY <1>1, <1>2
  <2> QED BY <2>1 DEF Due
<1>5. ASSUME NEW j \in 1..Len(list), j > Passed, j <= Passed + PageSize
      PROVE  \E i \in 1..Len(items) : items[i] = list[j]
  <2>1. j - Passed \in 1..Len(items) /\ Passed + (j - Passed) = j
    BY <1>1, <1>2, <1>5
  <2> QED BY <1>1, <2>1
<1>6. ToSet(items) = Due
  BY <1>3, <1>4, <1>5 DEF Due
<1>7. ASSUME IsInjective(list)
      PROVE  IsInjective(items)
  <2> SUFFICES ASSUME NEW a \in 1..Len(items), NEW b \in 1..Len(items), items[a] = items[b]
               PROVE  a = b
    BY <1>1 DEF IsInjective
  <2>1. list[Passed + a] = list[Passed + b] /\ Passed + a \in DOMAIN list /\ Passed + b \in DOMAIN list
    BY <1>1, <1>2, SMTT(30)
  <2>2. Passed + a = Passed + b
    BY <1>7, <2>1 DEF IsInjective
  <2> QED BY <1>2, <2>2
<1> QED BY <1>1, <1>6, <1>7, CountItems DEF items

(* An answer either adds what is due and moves the client on by a page, unless  *)
(* it is the last, or leaves the client where it was.                           *)
LEMMA Received ==
  ASSUME TypeOK, List \/ Browse
  PROVE  \/ /\ seen' = seen \o UpstreamPage(Query)
            /\ ToSet(seen') = ToSet(seen) \cup Due
            /\ \/ pc' = "listing" /\ Passed' = Passed + PageSize
               \/ pc' = "done" /\ (Continued => Len(list) <= Passed + PageSize)
         \/ UNCHANGED <<seen, pc>> /\ Passed' = Passed
<1>1. CASE /\ seen' = seen \o UpstreamPage(Query) /\ cursor' = PageOf.next
           /\ pc' = IF PageOf.next = None THEN "done" ELSE "listing"
  <2>1. ToSet(seen') = ToSet(seen) \cup Due
    <3>1. seen \in Seq(Items) /\ UpstreamPage(Query) \in Seq(Items) /\ ToSet(UpstreamPage(Query)) = Due
      BY PageIsDue DEF TypeOK
    <3>2. Range(seen \o UpstreamPage(Query)) = Range(seen) \cup Range(UpstreamPage(Query))
      BY <3>1, RangeConcatenation
    <3>3. \A s : ToSet(s) = Range(s)
      BY DEF ToSet, Range
    <3> QED BY <1>1, <3>1, <3>2, <3>3
  <2>2. CASE PageOf.next = None
    <3>1. Continued => ~(Passed + PageSize < Len(list))
      BY <2>2, PageNext
    <3>2. Passed \in Nat /\ PageSize \in Nat /\ Len(list) \in Nat
      BY QueryType DEF TypeOK
    <3>3. ~(Passed + PageSize < Len(list)) => Len(list) <= Passed + PageSize
      BY <3>2
    <3> QED BY <1>1, <2>1, <2>2, <3>1, <3>3
  <2>3. CASE PageOf.next # None
    <3>1. cursor' = Page(Query) + 1 /\ cursor' # None /\ asked' = asked
      BY <1>1, <2>3, PageNext, Answer
    <3>2. Passed' = (cursor' - 1) * PageSize
      BY <3>1 DEF Query, ReadListParams, Page, PageSize, Size, Passed
    <3>3. cursor' - 1 = Page(Query)
      BY <3>1, QueryType
    <3>4. Passed' = Page(Query) * PageSize
      BY <3>2, <3>3, Zenon
    <3>5. Passed' = Passed + PageSize
      BY <3>4, QueryType
    <3> QED BY <1>1, <2>1, <2>3, <3>5
  <2> QED BY <2>2, <2>3
<1>2. CASE UNCHANGED <<seen, cursor, pc>>
  <2>1. asked' = asked /\ cursor' = cursor
    BY <1>2, Answer
  <2>2. Passed' = Passed
    BY <2>1 DEF Passed, PageSize, Query, ReadListParams
  <2> QED BY <1>2, <2>2
<1> QED BY <1>1, <1>2, Answer

----
(* Nothing is missed but for removals                                           *)

(* A set does not have more members for having fewer, nor more than one more    *)
(* for one more.                                                                *)
LEMMA NoMore ==
  ASSUME NEW T, IsFiniteSet(T), NEW n \in Int, Cardinality(T) <= n, NEW S, S \subseteq T
  PROVE  IsFiniteSet(S) /\ Cardinality(S) \in Nat /\ Cardinality(S) <= n
<1>1. Cardinality(T) \in Nat
  BY FS_CardinalityType
<1>2. IsFiniteSet(S) /\ Cardinality(S) <= Cardinality(T)
  BY FS_Subset
<1>3. Cardinality(S) \in Nat
  BY <1>2, FS_CardinalityType
<1> QED BY <1>1, <1>2, <1>3

LEMMA OneMore ==
  ASSUME NEW T, IsFiniteSet(T), NEW n \in Int, Cardinality(T) <= n,
         NEW x, NEW S, S \subseteq T \cup {x}
  PROVE  IsFiniteSet(S) /\ Cardinality(S) \in Nat /\ Cardinality(S) <= n + 1
<1>1. Cardinality(T) \in Nat
  BY FS_CardinalityType
<1>2. /\ IsFiniteSet(T \cup {x})
      /\ Cardinality(T \cup {x}) = IF x \in T THEN Cardinality(T) ELSE Cardinality(T) + 1
  BY FS_AddElement
<1>3. n + 1 \in Int /\ Cardinality(T \cup {x}) <= n + 1
  BY <1>1, <1>2
<1> QED BY <1>2, <1>3, NoMore

LEMMA MissAnswer ==
  ASSUME TypeOK, MissInv, List \/ Browse
  PROVE  MissInv'
<1> DEFINE missed == (kept \cap Behind) \ ToSet(seen)
<1>1. /\ pc = "listing" /\ removes' = removes /\ removes \in Nat
      /\ list' = list /\ kept' = kept /\ Continued' = Continued
      /\ Passed \in Nat /\ PageSize \in Nat /\ Len(list) \in Nat
  BY Answer, QueryType, SMTT(30) DEF TypeOK, Continued
<1>2. kept \subseteq ToSet(list) /\ IsFiniteSet(kept) /\ ToSet(list) = {list[i] : i \in 1..Len(list)}
  BY ItemsOf, FS_Subset DEF MissInv, TypeOK
<1>3. IsFiniteSet(missed) /\ Cardinality(missed) <= removes
  BY <1>1, <1>2, FS_Subset DEF MissInv
<1>4. kept' \subseteq ToSet(list')
  BY <1>1, <1>2
<1> HIDE DEF missed
<1>5. CASE /\ ToSet(seen') = ToSet(seen) \cup Due
           /\ pc' = "listing" /\ Passed' = Passed + PageSize
  <2>1. (kept' \cap Behind') \ ToSet(seen') \subseteq missed
    <3> SUFFICES ASSUME NEW x \in (kept' \cap Behind') \ ToSet(seen')
                 PROVE  x \in missed
      OBVIOUS
    <3>1. PICK i \in 1..Len(list) : i <= Passed + PageSize /\ x = list[i]
      BY <1>1, <1>5 DEF Behind
    <3>2. i <= Passed
      <4>1. ~(i > Passed)
        BY <1>5, <3>1 DEF Due
      <4> QED BY <1>1, <4>1
    <3>3. x \in kept /\ x \in Behind /\ x \notin ToSet(seen)
      <4>1. x \in Behind
        BY <3>1, <3>2 DEF Behind
      <4>2. kept' = kept /\ ToSet(seen') = ToSet(seen) \cup Due
        BY <1>1, <1>5
      <4> QED BY <4>1, <4>2
    <3> QED BY <3>3 DEF missed
  <2>2. Cardinality((kept' \cap Behind') \ ToSet(seen')) <= removes
    BY <1>1, <1>3, <2>1, NoMore
  <2> QED BY <1>1, <1>4, <1>5, <2>2 DEF MissInv
<1>6. CASE /\ ToSet(seen') = ToSet(seen) \cup Due
           /\ pc' = "done" /\ (Continued => Len(list) <= Passed + PageSize)
  <2>1. ASSUME Continued
        PROVE  kept \ ToSet(seen') \subseteq missed
    <3> SUFFICES ASSUME NEW x \in kept \ ToSet(seen')
                 PROVE  x \in missed
      OBVIOUS
    <3>1. PICK i \in 1..Len(list) : x = list[i]
      BY <1>2
    <3>2. i <= Passed + PageSize
      BY <1>1, <1>6, <2>1
    <3>3. i <= Passed
      <4>1. ~(i > Passed)
        BY <1>6, <3>1, <3>2 DEF Due
      <4> QED BY <1>1, <4>1
    <3>4. x \in kept /\ x \in Behind /\ x \notin ToSet(seen)
      <4>1. x \in Behind
        BY <3>1, <3>3 DEF Behind
      <4>2. ToSet(seen') = ToSet(seen) \cup Due
        BY <1>6
      <4> QED BY <4>1, <4>2
    <3> QED BY <3>4 DEF missed
  <2>2. Continued => Cardinality(kept \ ToSet(seen')) <= removes
    BY <1>1, <1>3, <2>1, NoMore
  <2> QED BY <1>1, <1>4, <1>6, <2>2 DEF MissInv
<1>7. CASE UNCHANGED <<seen, pc>> /\ Passed' = Passed
  <2>1. Behind' = Behind
    BY <1>1, <1>7 DEF Behind
  <2> QED BY <1>1, <1>4, <1>7, <2>1 DEF MissInv
<1> QED BY <1>5, <1>6, <1>7, Received

LEMMA MissInsert ==
  ASSUME TypeOK, MissInv, Insert
  PROVE  MissInv'
<1>1. PICK x \in Items \ ToSet(list), i \in 1..(Len(list) + 1) : list' = InsertAt(list, i, x)
  BY DEF Insert
<1>2. /\ list \in Seq(Items) /\ Len(list) \in Nat /\ Len(list') = Len(list) + 1
      /\ list' \in Seq(Items)
      /\ \A j \in 1..(Len(list) + 1) :
           list'[j] = IF j < i THEN list[j] ELSE IF j = i THEN x ELSE list[j - 1]
  <2>1. list \in Seq(Items) /\ x \in Items
    BY DEF TypeOK
  <2> DEFINE t == InsertAt(list, i, x)
  <2>2. /\ t \in Seq(Items) /\ Len(t) = Len(list) + 1
        /\ \A j \in 1..(Len(list) + 1) :
             t[j] = IF j < i THEN list[j] ELSE IF j = i THEN x ELSE list[j - 1]
    BY <2>1, Inserted
  <2> HIDE DEF t
  <2>3. list' = t /\ Len(list) \in Nat
    BY <1>1, <2>1 DEF t
  <2> QED BY <2>1, <2>2, <2>3
<1>3. /\ UNCHANGED <<seen, kept, pc, removes>> /\ Passed' = Passed /\ Continued' = Continued
      /\ Passed \in Nat
  BY QueryType DEF Insert, client, Passed, PageSize, Query, ReadListParams, Continued
<1>4. /\ ToSet(list) = {list[j] : j \in 1..Len(list)}
      /\ ToSet(list') = {list'[j] : j \in 1..Len(list')}
      /\ kept \subseteq ToSet(list) /\ IsFiniteSet(kept)
  BY <1>2, ItemsOf, FS_Subset DEF MissInv
<1>5. kept \subseteq ToSet(list')
  <2> SUFFICES ASSUME NEW y \in kept PROVE y \in ToSet(list')
    OBVIOUS
  <2>1. PICK j \in 1..Len(list) : y = list[j]
    BY <1>4
  <2>2. CASE j < i
    <3>1. j \in 1..Len(list') /\ list'[j] = y
      BY <1>2, <2>1, <2>2
    <3> QED BY <1>4, <3>1
  <2>3. CASE ~(j < i)
    <3>1. j + 1 \in 1..Len(list') /\ ~(j + 1 < i) /\ j + 1 # i /\ (j + 1) - 1 = j
      BY <1>2, <2>3
    <3>2. list'[j + 1] = y
      BY <1>2, <2>1, <3>1
    <3> QED BY <1>4, <3>1, <3>2
  <2> QED BY <2>2, <2>3
<1>6. (kept \cap Behind') \ ToSet(seen) \subseteq (kept \cap Behind) \ ToSet(seen)
  <2> SUFFICES ASSUME NEW y \in kept \cap Behind' PROVE y \in Behind
    OBVIOUS
  <2>1. PICK j \in 1..(Len(list) + 1) : j <= Passed /\ y = list'[j]
    BY <1>2, <1>3 DEF Behind
  <2>2. y # x
    BY <1>1, <1>4
  <2>3. CASE j < i
    <3>1. j \in 1..Len(list) /\ y = list[j]
      BY <1>2, <2>1, <2>3
    <3> QED BY <2>1, <3>1 DEF Behind
  <2>4. CASE j > i
    <3>1. j - 1 \in 1..Len(list) /\ j - 1 <= Passed /\ ~(j < i) /\ j # i
      BY <1>2, <1>3, <2>1, <2>4
    <3>2. y = list[j - 1]
      BY <1>2, <2>1, <3>1
    <3> QED BY <3>1, <3>2 DEF Behind
  <2>5. j # i
    BY <1>2, <2>1, <2>2
  <2>6. j < i \/ j > i
    BY <2>5
  <2> QED BY <2>3, <2>4, <2>6
<1>7. pc = "listing" => Cardinality((kept \cap Behind') \ ToSet(seen)) <= removes
  <2> DEFINE T == (kept \cap Behind) \ ToSet(seen)
             S == (kept \cap Behind') \ ToSet(seen)
  <2>1. IsFiniteSet(T) /\ S \subseteq T /\ removes \in Int
    BY <1>4, <1>6, FS_Subset DEF TypeOK
  <2>2. pc = "listing" => Cardinality(T) <= removes
    BY DEF MissInv
  <2> HIDE DEF T, S
  <2>3. pc = "listing" => Cardinality(S) <= removes
    BY <2>1, <2>2, NoMore
  <2> QED BY <2>3 DEF S
<1> QED BY <1>3, <1>5, <1>7 DEF MissInv

LEMMA MissWithdraw ==
  ASSUME TypeOK, MissInv, Withdraw
  PROVE  MissInv'
<1>1. PICK i \in 1..Len(list) : list' = RemoveAt(list, i) /\ kept' = kept \ {list[i]}
  BY DEF Withdraw
<1>2. /\ list \in Seq(Items) /\ Len(list) \in Nat /\ Len(list') = Len(list) - 1
      /\ list' \in Seq(Items)
      /\ \A j \in 1..(Len(list) - 1) : list'[j] = IF j < i THEN list[j] ELSE list[j + 1]
  <2>1. list \in Seq(Items)
    BY DEF TypeOK
  <2> DEFINE t == RemoveAt(list, i)
  <2>2. /\ t \in Seq(Items) /\ Len(t) = Len(list) - 1
        /\ \A j \in 1..(Len(list) - 1) : t[j] = IF j < i THEN list[j] ELSE list[j + 1]
    BY <2>1, Removed
  <2> HIDE DEF t
  <2>3. list' = t /\ Len(list) \in Nat
    BY <1>1, <2>1 DEF t
  <2> QED BY <2>1, <2>2, <2>3
<1>3. /\ UNCHANGED <<seen, pc>> /\ Passed' = Passed /\ Continued' = Continued
      /\ Passed \in Nat /\ removes' = removes + 1 /\ removes \in Nat
  BY QueryType DEF Withdraw, client, Passed, PageSize, Query, ReadListParams, Continued, TypeOK
<1>4. /\ ToSet(list) = {list[j] : j \in 1..Len(list)}
      /\ ToSet(list') = {list'[j] : j \in 1..Len(list')}
      /\ kept \subseteq ToSet(list) /\ IsFiniteSet(kept)
  BY <1>2, ItemsOf, FS_Subset DEF MissInv
<1>5. kept' \subseteq ToSet(list')
  <2> SUFFICES ASSUME NEW y \in kept' PROVE y \in ToSet(list')
    OBVIOUS
  <2>1. PICK j \in 1..Len(list) : y = list[j]
    BY <1>1, <1>4
  <2>2. CASE j < i
    <3>1. j \in 1..Len(list') /\ list'[j] = y
      BY <1>2, <2>1, <2>2
    <3> QED BY <1>4, <3>1
  <2>3. CASE j > i
    <3>1. j - 1 \in 1..Len(list') /\ ~(j - 1 < i) /\ (j - 1) + 1 = j
      BY <1>2, <2>3
    <3>2. list'[j - 1] = y
      BY <1>2, <2>1, <3>1
    <3> QED BY <1>4, <3>1, <3>2
  <2>4. j < i \/ j > i
    BY <1>1, <2>1
  <2> QED BY <2>2, <2>3, <2>4
<1>6. (kept' \cap Behind') \ ToSet(seen) \subseteq ((kept \cap Behind) \ ToSet(seen)) \cup {list[Passed + 1]}
  <2> SUFFICES ASSUME NEW y \in kept' \cap Behind' PROVE y \in Behind \/ y = list[Passed + 1]
    BY <1>1
  <2>1. PICK j \in 1..(Len(list) - 1) : j <= Passed /\ y = list'[j]
    BY <1>2, <1>3 DEF Behind
  <2>2. CASE j < i
    <3>1. j \in 1..Len(list) /\ y = list[j]
      BY <1>2, <2>1, <2>2
    <3> QED BY <2>1, <3>1 DEF Behind
  <2>3. CASE ~(j < i)
    <3>1. j + 1 \in 1..Len(list) /\ y = list[j + 1] /\ (j + 1 <= Passed \/ j + 1 = Passed + 1)
      BY <1>2, <1>3, <2>1, <2>3
    <3> QED BY <3>1 DEF Behind
  <2> QED BY <2>2, <2>3
<1>7. pc = "listing" => Cardinality((kept' \cap Behind') \ ToSet(seen)) <= removes + 1
  <2> DEFINE T == (kept \cap Behind) \ ToSet(seen)
             S == (kept' \cap Behind') \ ToSet(seen)
  <2>1. IsFiniteSet(T) /\ S \subseteq T \cup {list[Passed + 1]} /\ removes \in Int
    BY <1>3, <1>4, <1>6, FS_Subset
  <2>2. pc = "listing" => Cardinality(T) <= removes
    BY DEF MissInv
  <2> HIDE DEF T, S
  <2>3. pc = "listing" => Cardinality(S) <= removes + 1
    BY <2>1, <2>2, OneMore
  <2> QED BY <2>3 DEF S
<1>8. pc = "done" /\ Continued => Cardinality(kept' \ ToSet(seen)) <= removes + 1
  <2> DEFINE T == kept \ ToSet(seen)
             S == kept' \ ToSet(seen)
  <2>1. IsFiniteSet(T) /\ S \subseteq T \cup {list[i]} /\ removes \in Int
    BY <1>1, <1>3, <1>4, FS_Subset
  <2>2. pc = "done" /\ Continued => Cardinality(T) <= removes
    BY DEF MissInv
  <2> HIDE DEF T, S
  <2>3. pc = "done" /\ Continued => Cardinality(S) <= removes + 1
    BY <2>1, <2>2, OneMore
  <2> QED BY <2>3 DEF S
<1> QED BY <1>3, <1>5, <1>7, <1>8 DEF MissInv

LEMMA MissInit == Init => MissInv
<1> SUFFICES ASSUME Init PROVE MissInv
  OBVIOUS
<1>1. Behind = {}
  <2>1. Page(Query) = 1
    BY DEF Init, Page, Query, ReadListParams
  <2>2. Passed = 0
    BY <2>1, TypeInit, QueryType DEF Passed
  <2> QED BY <2>2 DEF Behind
<1>2. Cardinality((kept \cap Behind) \ ToSet(seen)) = 0
  BY <1>1, FS_EmptySet
<1> QED BY <1>2 DEF Init, MissInv

(* For any lists, limits and page sizes, and any number of changes between two  *)
(* pages, a client that is told where the list goes on misses no more of what   *)
(* was there all the time than was removed.                                     *)
THEOREM MissesNothingKept == Spec => []MissedOnlyByRemoves
<1>1. TypeOK /\ MissInv /\ [Next]_vars => MissInv'
  <2> SUFFICES ASSUME TypeOK, MissInv, [Next]_vars PROVE MissInv'
    OBVIOUS
  <2>1. CASE UNCHANGED vars
    BY <2>1 DEF vars, client, MissInv, Behind, Passed, PageSize, Query, ReadListParams, Continued
  <2> QED BY <2>1, MissAnswer, MissInsert, MissWithdraw DEF Next
<1>2. MissInv => MissedOnlyByRemoves
  BY DEF MissInv, MissedOnlyByRemoves
<1> QED BY <1>1, <1>2, MissInit, TypeCorrect, PTL DEF Spec

----
(* Nothing comes again but for insertions                                       *)

LEMMA RepeatAnswer ==
  ASSUME TypeOK, RepeatInv, List \/ Browse
  PROVE  RepeatInv'
<1> DEFINE T == ToSet(seen)
           D == Due
           rest == {list[i] : i \in {j \in 1..Len(list) : j > Passed + PageSize}}
<1>1. /\ pc = "listing" /\ inserts' = inserts /\ inserts \in Nat /\ list' = list
      /\ Passed \in Nat /\ PageSize \in Nat /\ list \in Seq(Items) /\ seen \in Seq(Items)
      /\ IsInjective(list)
  BY Answer, QueryType DEF TypeOK, RepeatInv
<1>2. /\ IsFiniteSet(T) /\ IsFiniteSet(ToSet(list))
      /\ ToSet(list) = {list[i] : i \in 1..Len(list)}
  BY <1>1, ItemsOf
<1>3. Ahead = D \cup rest /\ D \cap rest = {}
  <2>1. \A j \in 1..Len(list) :
          j > Passed <=> (j > Passed /\ j <= Passed + PageSize) \/ j > Passed + PageSize
    BY <1>1
  <2>2. Ahead = D \cup rest
    BY <2>1 DEF Ahead, Due
  <2>3. ASSUME NEW y \in D, y \in rest
        PROVE  FALSE
    <3>1. PICK a \in 1..Len(list) : a <= Passed + PageSize /\ y = list[a]
      BY DEF Due
    <3>2. PICK b \in 1..Len(list) : b > Passed + PageSize /\ y = list[b]
      BY <2>3
    <3>3. a \in DOMAIN list /\ b \in DOMAIN list /\ a # b
      BY <1>1, <3>1, <3>2
    <3> QED BY <1>1, <3>1, <3>2, <3>3 DEF IsInjective
  <2> QED BY <2>2, <2>3
<1>4. D \subseteq ToSet(list) /\ rest \subseteq ToSet(list)
  BY <1>2 DEF Due
<1>5. (Len(seen) - Cardinality(T)) + Cardinality(Ahead \cap T) <= inserts
  BY <1>1 DEF RepeatInv
<1>6. CASE /\ seen' = seen \o UpstreamPage(Query)
           /\ ToSet(seen') = ToSet(seen) \cup Due
           /\ \/ pc' = "listing" /\ Passed' = Passed + PageSize
              \/ pc' = "done" /\ (Continued => Len(list) <= Passed + PageSize)
  <2>1. Len(seen') = Len(seen) + Cardinality(D)
    <3>1. UpstreamPage(Query) \in Seq(Items) /\ Len(UpstreamPage(Query)) = Cardinality(D)
      BY <1>1, PageIsDue
    <3>2. Len(seen \o UpstreamPage(Query)) = Len(seen) + Len(UpstreamPage(Query))
      BY <1>1, <3>1, ConcatProperties
    <3> QED BY <1>6, <3>1, <3>2
  <2>2. ToSet(seen') = T \cup D
    BY <1>6
  <2>3. pc' = "listing" => Ahead' = rest
    BY <1>1, <1>6 DEF Ahead
  <2>4. pc' \in {"listing", "done"}
    BY <1>6
  <2> HIDE DEF T, D, rest
  <2>5. /\ IsFiniteSet(D) /\ IsFiniteSet(rest)
        /\ IsFiniteSet(T \cap D) /\ IsFiniteSet(rest \cap T) /\ IsFiniteSet(D \cap T)
    BY <1>2, <1>4, FS_Subset, FS_Intersection
  <2>6. Cardinality(T \cup D) = Cardinality(T) + Cardinality(D) - Cardinality(T \cap D)
    BY <1>2, <2>5, FS_Union
  <2>7. Cardinality(Ahead \cap T) = Cardinality(T \cap D) + Cardinality(rest \cap T)
    <3>1. /\ Ahead \cap T = (D \cap T) \cup (rest \cap T)
          /\ (D \cap T) \cap (rest \cap T) = {} /\ D \cap T = T \cap D
      BY <1>3
    <3>2. Cardinality((D \cap T) \cup (rest \cap T)) =
            Cardinality(D \cap T) + Cardinality(rest \cap T)
              - Cardinality((D \cap T) \cap (rest \cap T))
      BY <2>5, FS_Union
    <3>3. /\ Cardinality({}) = 0 /\ Cardinality(T \cap D) \in Nat
          /\ Cardinality(rest \cap T) \in Nat
      BY <2>5, FS_EmptySet, FS_CardinalityType
    <3>4. Cardinality(Ahead \cap T) = Cardinality(T \cap D) + Cardinality(rest \cap T) - 0
      BY <3>1, <3>2, <3>3, Zenon
    <3> QED BY <3>3, <3>4
  <2>8. rest \cap ToSet(seen') = rest \cap T
    BY <1>3, <2>2
  <2>9. /\ Len(seen) \in Nat /\ Cardinality(T) \in Nat /\ Cardinality(D) \in Nat
        /\ Cardinality(T \cap D) \in Nat /\ Cardinality(rest \cap T) \in Nat
    BY <1>1, <1>2, <2>5, FS_CardinalityType
  <2>10. /\ (Len(seen') - Cardinality(ToSet(seen'))) + Cardinality(rest \cap ToSet(seen')) <= inserts
         /\ Len(seen') - Cardinality(ToSet(seen')) <= inserts
    <3>1. /\ Cardinality(ToSet(seen')) = Cardinality(T) + Cardinality(D) - Cardinality(T \cap D)
          /\ Cardinality(rest \cap ToSet(seen')) = Cardinality(rest \cap T)
      BY <2>2, <2>6, <2>8, Zenon
    <3>2. (Len(seen) - Cardinality(T)) + (Cardinality(T \cap D) + Cardinality(rest \cap T)) <= inserts
      BY <1>5, <2>7, Zenon
    <3> QED BY <1>1, <2>1, <2>9, <3>1, <3>2, SMTT(30)
  <2> QED BY <1>1, <2>3, <2>4, <2>10 DEF RepeatInv
<1>7. CASE UNCHANGED <<seen, pc>> /\ Passed' = Passed
  <2>1. Ahead' = Ahead
    BY <1>1, <1>7 DEF Ahead
  <2> QED BY <1>1, <1>7, <2>1 DEF RepeatInv
<1> QED BY <1>6, <1>7, Received

LEMMA RepeatInsert ==
  ASSUME TypeOK, RepeatInv, Insert
  PROVE  RepeatInv'
<1>1. PICK x \in Items \ ToSet(list), i \in 1..(Len(list) + 1) : list' = InsertAt(list, i, x)
  BY DEF Insert
<1>2. /\ list \in Seq(Items) /\ Len(list) \in Nat /\ Len(list') = Len(list) + 1
      /\ list' \in Seq(Items)
      /\ \A j \in 1..(Len(list) + 1) :
           list'[j] = IF j < i THEN list[j] ELSE IF j = i THEN x ELSE list[j - 1]
  <2>1. list \in Seq(Items) /\ x \in Items
    BY DEF TypeOK
  <2> DEFINE t == InsertAt(list, i, x)
  <2>2. /\ t \in Seq(Items) /\ Len(t) = Len(list) + 1
        /\ \A j \in 1..(Len(list) + 1) :
             t[j] = IF j < i THEN list[j] ELSE IF j = i THEN x ELSE list[j - 1]
    BY <2>1, Inserted
  <2> HIDE DEF t
  <2>3. list' = t /\ Len(list) \in Nat
    BY <1>1, <2>1 DEF t
  <2> QED BY <2>1, <2>2, <2>3
<1>3. /\ UNCHANGED <<seen, pc>> /\ Passed' = Passed /\ Passed \in Nat
      /\ inserts' = inserts + 1 /\ inserts \in Nat /\ seen \in Seq(Items)
      /\ IsInjective(list)
  BY QueryType DEF Insert, client, Passed, PageSize, Query, ReadListParams, TypeOK, RepeatInv
<1>4. ToSet(list) = {list[j] : j \in 1..Len(list)} /\ IsFiniteSet(ToSet(seen))
  BY <1>2, <1>3, ItemsOf
<1>5. IsInjective(list')
  <2> SUFFICES ASSUME NEW a \in 1..(Len(list) + 1), NEW b \in 1..(Len(list) + 1),
                      list'[a] = list'[b]
               PROVE  a = b
    BY <1>2 DEF IsInjective
  <2>1. \A j \in 1..(Len(list) + 1) :
          \/ j < i /\ j \in DOMAIN list /\ list'[j] = list[j]
          \/ j = i /\ list'[j] = x
          \/ j > i /\ j - 1 \in DOMAIN list /\ list'[j] = list[j - 1]
    BY <1>2
  <2>2. \A j \in DOMAIN list : list[j] # x
    BY <1>1, <1>2, <1>4
  <2>3. \A j, k \in DOMAIN list : list[j] = list[k] => j = k
    BY <1>3 DEF IsInjective
  <2> QED BY <2>1, <2>2, <2>3
<1> DEFINE e == IF i <= Passed THEN list[Passed] ELSE x
<1>6. Ahead' \subseteq Ahead \cup {e}
  <2> SUFFICES ASSUME NEW y \in Ahead' PROVE y \in Ahead \/ y = e
    OBVIOUS
  <2>1. PICK j \in 1..(Len(list) + 1) : j > Passed /\ y = list'[j]
    BY <1>2, <1>3 DEF Ahead
  <2>2. CASE j < i
    <3>1. j \in 1..Len(list) /\ y = list[j]
      BY <1>2, <2>1, <2>2
    <3> QED BY <2>1, <3>1 DEF Ahead
  <2>3. CASE j = i
    <3>1. y = x /\ ~(i <= Passed)
      BY <1>2, <1>3, <2>1, <2>3
    <3> QED BY <3>1
  <2>4. CASE j > i
    <3>1. j - 1 \in 1..Len(list) /\ y = list[j - 1]
      BY <1>2, <2>1, <2>4
    <3>2. CASE j - 1 > Passed
      BY <3>1, <3>2 DEF Ahead
    <3>3. CASE j - 1 = Passed
      <4>1. i <= Passed
        BY <2>4, <3>3
      <4> QED BY <3>1, <3>3, <4>1
    <3>4. j - 1 > Passed \/ j - 1 = Passed
      BY <1>3, <2>1
    <3> QED BY <3>2, <3>3, <3>4
  <2> QED BY <2>2, <2>3, <2>4
<1> HIDE DEF e
<1>7. /\ Len(seen) - Cardinality(ToSet(seen)) \in Int
      /\ pc = "listing" => Cardinality(Ahead' \cap ToSet(seen)) <= Cardinality(Ahead \cap ToSet(seen)) + 1
      /\ Cardinality(Ahead' \cap ToSet(seen)) \in Nat /\ Cardinality(Ahead \cap ToSet(seen)) \in Nat
  <2> DEFINE S == Ahead' \cap ToSet(seen)
             T == Ahead \cap ToSet(seen)
  <2>1. IsFiniteSet(T) /\ S \subseteq T \cup {e}
    BY <1>4, <1>6, FS_Intersection
  <2>2. Cardinality(ToSet(seen)) \in Nat /\ Len(seen) \in Nat /\ Cardinality(T) \in Nat
    BY <1>3, <1>4, <2>1, FS_CardinalityType
  <2> HIDE DEF S, T
  <2>3. Cardinality(S) \in Nat /\ Cardinality(S) <= Cardinality(T) + 1
    <3>1. Cardinality(T) <= Cardinality(T) /\ Cardinality(T) \in Int
      BY <2>2
    <3> QED BY <2>1, <3>1, OneMore
  <2> QED BY <2>2, <2>3 DEF S, T
<1> QED BY <1>3, <1>5, <1>7 DEF RepeatInv

LEMMA RepeatWithdraw ==
  ASSUME TypeOK, RepeatInv, Withdraw
  PROVE  RepeatInv'
<1>1. PICK i \in 1..Len(list) : list' = RemoveAt(list, i)
  BY DEF Withdraw
<1>2. /\ list \in Seq(Items) /\ Len(list) \in Nat /\ Len(list') = Len(list) - 1
      /\ list' \in Seq(Items)
      /\ \A j \in 1..(Len(list) - 1) : list'[j] = IF j < i THEN list[j] ELSE list[j + 1]
  <2>1. list \in Seq(Items)
    BY DEF TypeOK
  <2> DEFINE t == RemoveAt(list, i)
  <2>2. /\ t \in Seq(Items) /\ Len(t) = Len(list) - 1
        /\ \A j \in 1..(Len(list) - 1) : t[j] = IF j < i THEN list[j] ELSE list[j + 1]
    BY <2>1, Removed
  <2> HIDE DEF t
  <2>3. list' = t /\ Len(list) \in Nat
    BY <1>1, <2>1 DEF t
  <2> QED BY <2>1, <2>2, <2>3
<1>3. /\ UNCHANGED <<seen, pc, inserts>> /\ Passed' = Passed /\ Passed \in Nat
      /\ inserts \in Nat /\ seen \in Seq(Items) /\ IsInjective(list)
  BY QueryType DEF Withdraw, client, Passed, PageSize, Query, ReadListParams, TypeOK, RepeatInv
<1>4. \A j \in 1..(Len(list) - 1) :
        \/ j < i /\ j \in 1..Len(list) /\ list'[j] = list[j]
        \/ j >= i /\ j + 1 \in 1..Len(list) /\ list'[j] = list[j + 1]
  BY <1>2
<1>5. IsInjective(list')
  <2> SUFFICES ASSUME NEW a \in 1..(Len(list) - 1), NEW b \in 1..(Len(list) - 1),
                      list'[a] = list'[b]
               PROVE  a = b
    BY <1>2 DEF IsInjective
  <2>1. \A j, k \in 1..Len(list) : list[j] = list[k] => j = k
    BY <1>2, <1>3 DEF IsInjective
  <2> QED BY <1>4, <2>1
<1>6. Ahead' \subseteq Ahead
  <2> SUFFICES ASSUME NEW y \in Ahead' PROVE y \in Ahead
    OBVIOUS
  <2>1. PICK j \in 1..(Len(list) - 1) : j > Passed /\ y = list'[j]
    BY <1>2, <1>3 DEF Ahead
  <2>2. PICK k \in 1..Len(list) : k > Passed /\ y = list[k]
    <3>1. j + 1 > Passed
      BY <1>3, <2>1
    <3> QED BY <1>4, <2>1, <3>1
  <2> QED BY <2>2 DEF Ahead
<1>7. /\ Len(seen) - Cardinality(ToSet(seen)) \in Int
      /\ Cardinality(Ahead' \cap ToSet(seen)) <= Cardinality(Ahead \cap ToSet(seen))
      /\ Cardinality(Ahead' \cap ToSet(seen)) \in Nat /\ Cardinality(Ahead \cap ToSet(seen)) \in Nat
  <2> DEFINE S == Ahead' \cap ToSet(seen)
             T == Ahead \cap ToSet(seen)
  <2>1. IsFiniteSet(T) /\ S \subseteq T /\ IsFiniteSet(ToSet(seen))
    BY <1>3, <1>6, ItemsOf, FS_Intersection
  <2>2. Cardinality(ToSet(seen)) \in Nat /\ Len(seen) \in Nat /\ Cardinality(T) \in Nat
    BY <1>3, <2>1, FS_CardinalityType
  <2> HIDE DEF S, T
  <2>3. Cardinality(S) \in Nat /\ Cardinality(S) <= Cardinality(T)
    <3>1. Cardinality(T) <= Cardinality(T) /\ Cardinality(T) \in Int
      BY <2>2
    <3> QED BY <2>1, <3>1, NoMore
  <2> QED BY <2>2, <2>3 DEF S, T
<1> QED BY <1>3, <1>5, <1>7 DEF RepeatInv

LEMMA RepeatInit == Init => RepeatInv
<1> SUFFICES ASSUME Init PROVE RepeatInv
  OBVIOUS
<1>1. IsInjective(list)
  BY ListingAssumption DEF Init
<1>2. Len(seen) = 0 /\ ToSet(seen) = {} /\ Ahead \cap ToSet(seen) = {}
  BY DEF Init, ToSet
<1>3. Cardinality({}) = 0
  BY FS_EmptySet
<1>4. /\ Cardinality(ToSet(seen)) = 0 /\ Cardinality(Ahead \cap ToSet(seen)) = 0
      /\ inserts = 0 /\ pc # "done"
  BY <1>2, <1>3 DEF Init
<1> QED BY <1>1, <1>2, <1>4 DEF RepeatInv

(* For any lists, limits and page sizes, and any number of changes between two  *)
(* pages, a client gets no more items twice than were inserted.                 *)
THEOREM RepeatsNothingUnmoved == Spec => []RepeatedOnlyByInserts
<1>1. TypeOK /\ RepeatInv /\ [Next]_vars => RepeatInv'
  <2> SUFFICES ASSUME TypeOK, RepeatInv, [Next]_vars PROVE RepeatInv'
    OBVIOUS
  <2>1. CASE UNCHANGED vars
    BY <2>1 DEF vars, client, RepeatInv, Ahead, Passed, PageSize, Query, ReadListParams
  <2> QED BY <2>1, RepeatAnswer, RepeatInsert, RepeatWithdraw DEF Next
<1>2. TypeOK /\ RepeatInv => RepeatedOnlyByInserts
  <2> SUFFICES ASSUME TypeOK, RepeatInv PROVE RepeatedOnlyByInserts
    OBVIOUS
  <2>1. /\ seen \in Seq(Items) /\ inserts \in Nat /\ pc \in {"listing", "done"}
        /\ IsFiniteSet(ToSet(seen))
    BY ItemsOf DEF TypeOK
  <2>2. /\ Len(seen) \in Nat /\ Cardinality(ToSet(seen)) \in Nat
        /\ Cardinality(Ahead \cap ToSet(seen)) \in Nat
    <3>1. IsFiniteSet(Ahead \cap ToSet(seen))
      BY <2>1, FS_Intersection, Zenon
    <3>2. Len(seen) \in Nat
      BY <2>1
    <3> QED BY <2>1, <3>1, <3>2, FS_CardinalityType, Zenon
  <2> QED BY <2>1, <2>2 DEF RepeatInv, RepeatedOnlyByInserts
<1> QED BY <1>1, <1>2, RepeatInit, TypeCorrect, PTL DEF Spec
====
