---- MODULE CoverStore ----
(* What the cover cache is meant to look like from outside: a store of covers   *)
(* that come into being whole, in one step, and stay, and requests each of      *)
(* which receives the cover it asked for out of it or dies with the process.    *)
CONSTANTS Requests, Keys, None

VARIABLES
  store,     \* [Keys -> {"absent", "part", "whole"}]
  wants,     \* the key each request asks for, None when it asks for nothing
  answer     \* [Requests -> {"none", "cover", "torn", "error"}]

vars == <<store, wants, answer>>

Init ==
  /\ store = [k \in Keys |-> "absent"]
  /\ wants = [r \in Requests |-> None]
  /\ answer = [r \in Requests |-> "none"]

Ask(r, k) ==
  /\ wants[r] = None
  /\ wants' = [wants EXCEPT ![r] = k]
  /\ UNCHANGED <<store, answer>>

(* A cover is stored because somebody asks for it. *)
Keep(k) ==
  /\ store[k] = "absent"
  /\ \E r \in Requests : wants[r] = k /\ answer[r] = "none"
  /\ store' = [store EXCEPT ![k] = "whole"]
  /\ UNCHANGED <<wants, answer>>

Answer(r) ==
  /\ wants[r] # None
  /\ answer[r] = "none"
  /\ store[wants[r]] = "whole"
  /\ answer' = [answer EXCEPT ![r] = "cover"]
  /\ UNCHANGED <<store, wants>>

Restart ==
  /\ wants' = [r \in Requests |-> IF answer[r] = "none" THEN None ELSE wants[r]]
  /\ UNCHANGED <<store, answer>>

Next ==
  \/ \E r \in Requests : Answer(r) \/ \E k \in Keys : Ask(r, k)
  \/ \E k \in Keys : Keep(k)
  \/ Restart

Spec == Init /\ [][Next]_vars
====
