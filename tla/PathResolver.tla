---- MODULE PathResolver ----
(* internal/localfs: how a storage key of BookWarehouse becomes a path of a     *)
(* file tree that has symbolic links. A path is the sequence of its names below *)
(* "/"; a tree gives each path its node: [type, ...] with type "none", "dir",   *)
(* "file" or "link", and a link the path it leads to. A resolver is a record    *)
(* with a root, and with rules that rewrite a source to a target.               *)
EXTENDS Naturals, SequencesExt

CONSTANTS
  Up,          \* the name ".."
  DotNames,    \* other names that begin with two dots
  Nowhere,     \* a root, source or target that is not set; a path that is none
  NoKey,       \* an empty storage key
  MaxSteps     \* filepath.EvalSymlinks gives up after so many names

ASSUME PathAssumption == MaxSteps \in Nat

----
(* Lexical cleaning and symbolic links (path/filepath)                          *)

(* filepath.Clean of an absolute path: ".." takes back the name before it.      *)
Clean(path) ==
  LET cleaned[n \in 0..Len(path)] ==
        IF n = 0 THEN <<>>
        ELSE IF path[n] # Up THEN Append(cleaned[n - 1], path[n])
        ELSE IF cleaned[n - 1] = <<>> THEN <<>> ELSE Front(cleaned[n - 1])
  IN cleaned[Len(path)]

Node(fs, path) ==
  IF path = <<>> THEN [type |-> "dir"]
  ELSE IF path \in DOMAIN fs THEN fs[path] ELSE [type |-> "none"]

(* A walk goes down by a name, or to where the link of that name leads, or it   *)
(* stays where it is for ever.                                                  *)
Walk(fs, w) ==
  IF w.left = <<>> THEN w
  ELSE LET next == Append(w.at, Head(w.left))
           node == Node(fs, next)
       IN CASE node.type \in {"dir", "file"} -> [at |-> next, left |-> Tail(w.left)]
            [] node.type = "link" -> [at |-> <<>>, left |-> node.to \o Tail(w.left)]
            [] node.type = "none" -> w

(* filepath.EvalSymlinks: the path without links, if it exists.                 *)
Real(fs, path) ==
  LET walk[n \in 0..MaxSteps] ==
        IF n = 0 THEN [at |-> <<>>, left |-> path] ELSE Walk(fs, walk[n - 1])
      end == walk[MaxSteps]
  IN IF end.left = <<>> THEN end.at ELSE Nowhere

----
(* Resolver                                                                     *)

Configured(resolver) == resolver.root # Nowhere \/ resolver.rules # <<>>

Below(path, source) == SubSeq(path, Len(source) + 1, Len(path))

(* A rule applies to its source and to what has the prefix <source>/, which     *)
(* nothing has where the source is "/"; rel must not begin with two dots.       *)
Applies(rule, path) ==
  /\ rule.source # Nowhere /\ rule.target # Nowhere
  /\ \/ path = rule.source
     \/ /\ rule.source # <<>>
        /\ IsStrictPrefix(rule.source, path)
        /\ Below(path, rule.source)[1] \notin DotNames

(* The candidates of a key: an absolute one has one for every rule, by the      *)
(* rule's place, and any key has one below the root, after the last rule.       *)
(* (Without a root an absolute key is tried below the working directory too,    *)
(* where nothing passes but the key "/", which no file has.)                    *)
Applicable(resolver, key) ==
  IF key = NoKey THEN {}
  ELSE {i \in 1..Len(resolver.rules) :
          key.abs /\ Applies(resolver.rules[i], Clean(key.path))}
       \cup {i \in {Len(resolver.rules) + 1} : resolver.root # Nowhere}

(* A candidate and the root or target it must stay under. A key that is not     *)
(* absolute may go up from the root.                                            *)
Candidate(resolver, key, i) ==
  IF i \in 1..Len(resolver.rules)
  THEN [root |-> resolver.rules[i].target,
        path |-> resolver.rules[i].target \o Below(Clean(key.path), resolver.rules[i].source)]
  ELSE [root |-> resolver.root,
        path |-> IF key.abs THEN resolver.root \o Clean(key.path)
                 ELSE Clean(resolver.root \o key.path)]

(* Mutant: a path need only exist. *)
WithinAnything(fs, candidate) == Real(fs, candidate.path) # Nowhere

(* resolveWithin: both exist, and the one is the other or has it as its prefix  *)
(* and a separator, which nothing has where the real root is "/".               *)
Within(fs, candidate) ==
  LET root == Real(fs, candidate.root)
      path == Real(fs, candidate.path)
  IN /\ root # Nowhere /\ path # Nowhere
     /\ path = root \/ (root # <<>> /\ IsStrictPrefix(root, path))

(* Mutant: a later rule overrides an earlier one. *)
ResolveLast(fs, resolver, key) ==
  LET found == {i \in Applicable(resolver, key) : Within(fs, Candidate(resolver, key, i))}
  IN {Real(fs, Candidate(resolver, key, i).path) :
        i \in {j \in found : \A k \in found : k <= j}}

(* Mutant: the path is returned as the rule made it, with its links. *)
ResolveWithLinks(fs, resolver, key) ==
  LET found == {i \in Applicable(resolver, key) : Within(fs, Candidate(resolver, key, i))}
  IN {Candidate(resolver, key, i).path : i \in {j \in found : \A k \in found : j <= k}}

(* Resolver.Resolve, as the set of the one path it returns, empty for an error: *)
(* the first candidate that is within its root, though it be a later rule's.    *)
Resolve(fs, resolver, key) ==
  LET found == {i \in Applicable(resolver, key) : Within(fs, Candidate(resolver, key, i))}
  IN {Real(fs, Candidate(resolver, key, i).path) :
        i \in {j \in found : \A k \in found : j <= k}}
====
