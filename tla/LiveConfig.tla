---- MODULE LiveConfig ----
(* What the plugin promises about its configuration: a store whose versions only *)
(* grow, a server that runs one of them and never goes back, and acknowledgements *)
(* that hold from the moment they are given, across restarts.                    *)
EXTENDS Naturals

CONSTANT Nothing     \* no configuration is being served

VARIABLES
  stored,      \* the version in the database
  serving,     \* the version requests are answered with, or Nothing
  promised     \* the versions whose save has been acknowledged

vars == <<stored, serving, promised>>

TypeOK ==
  /\ stored \in Nat
  /\ serving \in Nat \cup {Nothing}
  /\ promised \subseteq Nat

Init ==
  /\ stored = 0
  /\ serving = Nothing
  /\ promised = {}

Store ==
  /\ stored' = stored + 1
  /\ UNCHANGED <<serving, promised>>

(* Start to serve v, which was stored, and acknowledge at most one save by it.   *)
Serve(v) ==
  /\ serving # Nothing => v >= serving
  /\ \A a \in promised : v >= a
  /\ serving' = v
  /\ \/ UNCHANGED promised
     \/ \E a \in 0..v : promised' = promised \cup {a}
  /\ UNCHANGED stored

Restart ==
  /\ serving' = Nothing
  /\ UNCHANGED <<stored, promised>>

Next == Store \/ (\E v \in 0..stored : Serve(v)) \/ Restart

Spec == Init /\ [][Next]_vars
====
