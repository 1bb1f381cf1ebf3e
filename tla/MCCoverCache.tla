---- MODULE MCCoverCache ----
(* CoverCache on small instances.                                               *)
EXTENDS CoverCache

(* Three requests of one Service, or two of it and one of its successor: all    *)
(* other assignments to two Services rename the requests or the Services of     *)
(* these.                                                                       *)
CONSTANTS v1, v2, r1, r2, r3

Assignments == {[r \in Requests |-> v1], [r \in Requests |-> IF r = r3 THEN v2 ELSE v1]}

SharedInit == Init /\ svc \in Assignments

SharedSpec == SharedInit /\ [][Next]_vars /\ Fairness
====
