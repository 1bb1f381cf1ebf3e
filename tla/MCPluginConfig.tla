---- MODULE MCPluginConfig ----
(* PluginConfig on small instances.                                             *)
EXTENDS PluginConfig

CONSTANTS u0, u1, uBad, k1, k2, s1, r1, rRelative

Config(u, k, s, r) == [url |-> u, key |-> k, secret |-> s, root |-> r]

MCUrls == {Blank, u0, u1, uBad}
MCKeys == {Blank, k1, k2}
MCSecrets == {Blank, s1}
MCRoots == {Blank, r1, rRelative}

(* The host either knows nothing but the database, or has a full legacy         *)
(* configuration to import, or sends one the runtime refuses.                   *)
MCHostBodies ==
  {Config(Blank, Blank, Blank, Blank), Config(u0, k1, s1, r1), Config(uBad, k1, s1, r1)}

(* A full body of the API, one of the admin page that leaves the key empty and  *)
(* never carries a secret, and one whose url is refused.                        *)
MCSaveBodies ==
  {Config(u1, k2, s1, r1), Config(u1, Blank, Blank, r1), Config(uBad, k2, s1, r1)}

(* Bodies that all succeed, for the runs about overlapping calls.               *)
GoodHostBodies == {Config(Blank, Blank, Blank, Blank), Config(u0, k1, s1, r1)}
GoodSaveBodies == {Config(u1, k2, s1, r1), Config(u1, Blank, Blank, r1)}

(* Bodies with a library root that is not absolute.                             *)
RelativeBodies == {Config(u1, k2, s1, rRelative), Config(u1, k2, s1, r1)}
====
