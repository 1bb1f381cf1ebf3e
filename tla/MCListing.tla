---- MODULE MCListing ----
(* Listings of up to four items, to which one is added and from which two go.   *)
EXTENDS Listing

CONSTANTS x1, x2, x3, x4, x5

MCItems == {x1, x2, x3, x4, x5}

(* No two items differ in anything but their place.                             *)
MCLists == {SubSeq(<<x1, x2, x3, x4>>, 1, n) : n \in 0..4}
====
