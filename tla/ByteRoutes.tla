---- MODULE ByteRoutes ----
(* The two routes that serve bytes, GET /stream/{book_id}/{file_idx} and        *)
(* GET /cover/{book_id}/{size}, from their token to their answer: stream's      *)
(* Stream, catalog's Cover and covers' Get over tokens and localfs. Requests    *)
(* overlap; meanwhile files are replaced, removed and remounted, the admin      *)
(* saves a configuration (which builds new handlers), and the portal changes    *)
(* the secret it signs with. Cover bytes are cached whole (CoverCache has how). *)
EXTENDS BookFiles, PathResolver, Tokens

CONSTANTS
  Requests,
  Asks,          \* [book, idx, size]: what a URL names; a cover has CoverFileIdx
  FilesOf,       \* of each book, BookWarehouse's file list: [index, storage, name]
  Sidecars,      \* sidecarFilenames, in their order
  Configs,       \* [secret, root, rules]: configurations an admin may save
  Portals,       \* secrets the portal may have
  TokenForms,    \* [alg, aud, exp, sub]: tokens of any portal, at any age
  Trees,         \* the file system in the beginning
  Changes,       \* of each path that changes, the nodes it may come to have
  MaxEvents      \* bound: files changed, secrets and configurations saved, failures
                 \*   of BookWarehouse and images that cannot be decoded, together

Paths == UNION {DOMAIN t : t \in Trees}
Books == DOMAIN FilesOf
Kinds == {"none", "dir", "file", "link"}

ASSUME RoutesAssumption ==
  /\ \A t \in Trees : \A p \in DOMAIN t :
       t[p].type \in Kinds /\ (t[p].type = "file" => t[p].stamp = 0)
  /\ \A p \in DOMAIN Changes : \A node \in Changes[p] : node.type \in Kinds
  /\ Asks # {}
  /\ \A a \in Asks : a.book \in Books /\ a.idx \in Nat \cup {CoverFileIdx}
  /\ \A c \in Configs : Len(c.rules) \in Nat
  /\ \A b \in Books : Len(FilesOf[b]) \in Nat
  /\ Len(Sidecars) \in Nat
  /\ \A form \in TokenForms : form.sub \in BOOLEAN
  /\ Portals \cap Blanks = {}
  /\ MaxEvents \in Nat

(* What may stand at a path: what did in the beginning, or a change puts there. *)
NodesAt(p) ==
  {t[p] : t \in {u \in Trees : p \in DOMAIN u}}
  \cup (IF p \in DOMAIN Changes THEN Changes[p] ELSE {})

(* Files, folders and links come and go and links are led elsewhere, but where  *)
(* there is a link at one time there is never a file or a folder.               *)
LinksStay ==
  \A p \in Paths \cup DOMAIN Changes : \A m, n \in NodesAt(p) :
    m.type = "link" => n.type \in {"link", "none"}

(* Besides, neither takes the place of the other.                               *)
KindsStay ==
  \A p \in Paths \cup DOMAIN Changes : \A m, n \in NodesAt(p) :
    m.type # "none" /\ n.type # "none" => m.type = n.type

(* What has the name of a sidecar is no link.                                   *)
SidecarsArePlain ==
  \A p \in Paths \cup DOMAIN Changes : \A n \in NodesAt(p), i \in 1..Len(Sidecars) :
    p # <<>> /\ p[Len(p)] = Sidecars[i] => n.type # "link"

VARIABLES
  fs,            \* the file tree; a file is [type, picture, stamp]
  cache,         \* the cover cache: of each key the time of its source, and its size
  live,          \* the configuration whose handlers are live
  portal,        \* the portal's secret
  minted,        \* history: all it has had
  req,           \* each request's record
  past,          \* history: the trees there have been since a request arrived
  clock,         \* the time of the last change of a file
  events

ends == <<live, portal, minted>>
vars == <<fs, cache, ends, req, past, clock, events>>

Phases == {"idle", "resolve", "open", "find", "stat", "read", "extract", "resize", "done"}

Running(r) == req[r].pc \notin {"idle", "done"}

(* An answer: the source it was made of, as its path was known, and the file    *)
(* that os.Open found there, when that is what is sent.                         *)
NoAnswer ==
  [status |-> 0, at |-> "idle", path |-> Nowhere, opened |-> Nowhere, stamp |-> 0, size |-> "none"]

TypeOK ==
  /\ DOMAIN fs \subseteq Paths
  /\ live \in Configs
  /\ portal \in Portals /\ minted \subseteq Portals
  /\ \A r \in Requests :
       /\ req[r].pc \in Phases
       /\ req[r].cfg \in Configs
       /\ req[r].ask \in Asks
       /\ req[r].looked \in 1..(Len(Sidecars) + 1)
       /\ req[r].stat \in 0..clock
       /\ req[r].out.status \in {0, 200, 401, 404, 500, 502, 503}
       /\ req[r].out.size \in {"none", "thumb", "medium", "original"}
  /\ \A k \in DOMAIN cache : k.stat <= cache[k].stamp /\ cache[k].stamp \in 0..clock
  /\ clock \in Nat /\ events \in 0..MaxEvents

Init ==
  /\ fs \in Trees
  /\ cache = <<>>
  /\ live \in Configs
  /\ portal \in Portals
  /\ minted = {portal}
  /\ req = [r \in Requests |->
              [pc |-> "idle", cfg |-> live, ask |-> CHOOSE a \in Asks : TRUE,
               deserved |-> FALSE, keys |-> <<>>, path |-> Nowhere, looked |-> 1,
               stat |-> 0, out |-> NoAnswer]]
  /\ past = [r \in Requests |-> {}]
  /\ clock = 0
  /\ events = 0

----
(* Building blocks                                                              *)

IsCover(r) == req[r].ask.idx = CoverFileIdx

(* catalog's normalizeSize: the names of the older API too, the original else.  *)
NormalizeSize(raw) ==
  CASE raw \in {"thumb", "thumbnail", "small"} -> "thumb"
    [] raw = "medium" -> "medium"
    [] raw \notin {"thumb", "thumbnail", "small", "medium"} -> "original"

Size(r) == NormalizeSize(req[r].ask.size)

Become(r, to) == req' = [req EXCEPT ![r] = to]

At(r, pc) == [req[r] EXCEPT !.pc = pc]

(* The request ends, with an answer that has bytes, or with a status alone, and *)
(* forgets what it no longer needs.                                             *)
Ended(r, status) ==
  [req[r] EXCEPT !.pc = "done", !.keys = <<>>, !.looked = 1, !.stat = 0,
     !.out = [NoAnswer EXCEPT !.status = status, !.at = req[r].pc]]

Served(r, path, opened, stamp, size) ==
  [Ended(r, 200) EXCEPT !.out.path = path, !.out.opened = opened,
                        !.out.stamp = stamp, !.out.size = size]

Event == events < MaxEvents /\ events' = events + 1

(* What os.Stat and os.Open find at a path.                                     *)
FileAt(f, path) ==
  LET real == Real(f, path) IN IF real = Nowhere THEN [type |-> "none"] ELSE Node(f, real)

IsFile(f, path) == FileAt(f, path).type = "file"

StampAt(f, path) == IF IsFile(f, path) THEN FileAt(f, path).stamp ELSE 0

(* The request ends with the file that the path leads to by now.                *)
Opened(r, path, size) == Served(r, path, Real(fs, path), StampAt(fs, path), size)

----
(* The tokens                                                                   *)

(* The key the portal signs with: it keeps its secret as base64, or raw.        *)
SigningKey(secret) ==
  <<IF secret \in Padded \cup Unpadded THEN "decoded" ELSE "as it is", secret>>

(* What a browser may hold: nothing, or a token of a secret the portal has or   *)
(* had, in any of TokenForms, for any URL the portal made.                      *)
Held ==
  {NoToken} \cup
  {[alg |-> form.alg, aud |-> form.aud, exp |-> form.exp, sub |-> form.sub,
    key |-> SigningKey(secret), secret |-> secret, book |-> a.book, file_idx |-> a.idx] :
      form \in TokenForms, secret \in minted, a \in Asks}

(* The token was made for this URL, with the secret that the plugin has been    *)
(* given too, and is whole and in its time.                                     *)
Deserves(t, ask, cfg) ==
  /\ t # NoToken
  /\ t.secret = cfg.secret /\ <<t.book, t.file_idx>> = <<ask.book, ask.idx>>
  /\ t.alg = "HS256" /\ t.aud = "audiobook_backend" /\ t.exp = "ahead" /\ t.sub

(* The keys of a file, in the order they are tried: the stream takes the name   *)
(* where there is no storage key, the cover tries it after one that failed.     *)
KeysOf(ask, file) ==
  IF ask.idx = CoverFileIdx
  THEN IF file.name = NoKey THEN <<file.storage>> ELSE <<file.storage, file.name>>
  ELSE <<IF file.storage = NoKey THEN file.name ELSE file.storage>>

(* The file that is asked for, or the book's first for its cover.               *)
FileOf(ask) ==
  LET files == Normalise(FilesOf[ask.book])
      found == IF ask.idx = CoverFileIdx THEN 1..Len(files) \cap {1}
               ELSE FindFile(files, ask.idx)
  IN {files[i] : i \in found}

(* A request that has come to the live handler; one that is refused is known by *)
(* its status only, one that is let in has BookWarehouse's detail of the book,  *)
(* or fails for want of it.                                                     *)
Come(r, ask, t) == [req[r] EXCEPT !.cfg = live, !.deserved = Deserves(t, ask, live)]

Refused(come, status) ==
  [come EXCEPT !.pc = "done", !.out = [NoAnswer EXCEPT !.status = status]]

LetIn(come, ask, file) ==
  [come EXCEPT !.pc = "resolve", !.ask = ask, !.keys = KeysOf(ask, file)]

(* What becomes of a request: the handler is configured or answers 503.         *)
Arrived(r, ask, t) ==
  IF ~Configured(live) \/ Unconfigured(live.secret) THEN {Refused(Come(r, ask, t), 503)}
  ELSE IF ~Verified(live.secret, t, ask.book, ask.idx) THEN {Refused(Come(r, ask, t), 401)}
  ELSE IF FileOf(ask) = {} THEN {Refused(Come(r, ask, t), 404)}
  ELSE {LetIn(Come(r, ask, t), ask, file) : file \in FileOf(ask)}

Arrive(r) ==
  /\ req[r].pc = "idle"
  /\ \E arrived \in UNION {Arrived(r, ask, t) : ask \in Asks, t \in Held} :
       \/ Become(r, arrived) /\ UNCHANGED events
       \/ arrived.pc = "resolve" /\ Become(r, Refused(arrived, 502)) /\ Event
  /\ past' = [past EXCEPT ![r] = {fs}]
  /\ UNCHANGED <<fs, cache, ends, clock>>

----
(* The file                                                                     *)

(* The resolver is the one of the handler the request came to.                  *)
ResolveKey(r) ==
  LET keys == req[r].keys
      found == Resolve(fs, req[r].cfg, Head(keys))
  IN /\ req[r].pc = "resolve"
     /\ \/ \E path \in found :
             Become(r, [At(r, IF IsCover(r) THEN "find" ELSE "open") EXCEPT !.path = path])
        \/ /\ found = {} /\ Len(keys) > 1
           /\ Become(r, [At(r, "resolve") EXCEPT !.keys = Tail(keys)])
        \/ /\ found = {} /\ Len(keys) = 1
           /\ Become(r, Ended(r, 502))
     /\ UNCHANGED <<fs, cache, ends, past, clock, events>>

(* The stream opens the path it resolved, which may lead elsewhere by now, and  *)
(* serves what it has open.                                                     *)
Open(r) ==
  LET path == req[r].path
  IN /\ req[r].pc = "open"
     /\ Become(r, IF IsFile(fs, path) THEN Opened(r, path, "none") ELSE Ended(r, 500))
     /\ UNCHANGED <<fs, cache, ends, past, clock, events>>

----
(* The cover                                                                    *)

Dir(path) == Front(path)

(* Mutant: the names are looked for from the last to the first. *)
SidecarAtReversed(r) == Dir(req[r].path) \o <<Sidecars[Len(Sidecars) + 1 - req[r].looked]>>

(* The file that is looked for next in the book's directory.                    *)
SidecarAt(r) == Dir(req[r].path) \o <<Sidecars[req[r].looked]>>

Embedded(r) == req[r].looked > Len(Sidecars)

Source(r) == IF Embedded(r) THEN req[r].path ELSE SidecarAt(r)

(* findSidecar, one name at a time: a file of that name, or the next name.      *)
Find(r) ==
  /\ req[r].pc = "find"
  /\ Become(r, CASE Embedded(r) -> At(r, "stat")
            [] ~Embedded(r) /\ IsFile(fs, SidecarAt(r)) -> At(r, "stat")
            [] ~Embedded(r) /\ ~IsFile(fs, SidecarAt(r)) ->
                 [req[r] EXCEPT !.looked = req[r].looked + 1])
  /\ UNCHANGED <<fs, cache, ends, past, clock, events>>

(* serveSidecar and serveEmbedded take the source's size and time.              *)
Stat(r) ==
  LET next == CASE Embedded(r) -> "extract"
                [] ~Embedded(r) /\ Size(r) = "original" -> "read"
                [] ~Embedded(r) /\ Size(r) # "original" -> "resize"
  IN /\ req[r].pc = "stat"
     /\ Become(r, IF FileAt(fs, Source(r)).type = "none" THEN Ended(r, 502)
             ELSE [At(r, next) EXCEPT !.stat = StampAt(fs, Source(r))])
     /\ UNCHANGED <<fs, cache, ends, past, clock, events>>

(* A sidecar in its original size is opened and served.                         *)
Read(r) ==
  LET path == Source(r)
  IN /\ req[r].pc = "read"
     /\ Become(r, IF IsFile(fs, path) THEN Opened(r, path, "original") ELSE Ended(r, 502))
     /\ UNCHANGED <<fs, cache, ends, past, clock, events>>

(* Mutant: the time and size of the source are left out. *)
CacheKeyByPath(path, stat, size) == [path |-> path, stat |-> 0, size |-> size]

(* Mutant: both sizes are kept under one key. *)
CacheKeyAnySize(path, stat, size) == [path |-> path, stat |-> stat, size |-> "any"]

(* cacheKey: the source, its size and time as they were, and the size. The key  *)
(* of a resized embedded picture has the cached original for its source, which  *)
(* stands for the audio file, its time and the time it was extracted.           *)
CacheKey(path, stat, size) == [path |-> path, stat |-> stat, size |-> size]

(* The cache with a picture of the source as it is now.                         *)
With(key, stamp) ==
  [k \in DOMAIN cache \cup {key} |->
     IF k = key THEN [stamp |-> stamp, size |-> key.size] ELSE cache[k]]

(* openResult of what the cache has by now.                                     *)
ServedFrom(r, key) == Served(r, Source(r), Nowhere, cache'[key].stamp, cache'[key].size)

(* extractEmbedded, unless the cache has the file: the picture of the audio     *)
(* file as it is by now, or 404 without one.                                    *)
Extract(r) ==
  LET key == CacheKey(req[r].path, req[r].stat, "original")
      file == FileAt(fs, req[r].path)
      next == IF Size(r) = "original" THEN ServedFrom(r, key) ELSE At(r, "resize")
  IN /\ req[r].pc = "extract"
     /\ \/ /\ key \in DOMAIN cache
           /\ UNCHANGED <<cache, events>>
           /\ Become(r, next)
        \/ /\ key \notin DOMAIN cache
           /\ file.type = "file" => ~file.picture
           /\ Become(r, Ended(r, IF file.type = "file" THEN 404 ELSE 502))
           /\ UNCHANGED <<cache, events>>
        \/ /\ key \notin DOMAIN cache
           /\ Become(r, Ended(r, 502))
           /\ Event
           /\ UNCHANGED cache
        \/ /\ key \notin DOMAIN cache
           /\ file.type = "file" /\ file.picture
           /\ cache' = With(key, file.stamp)
           /\ Become(r, next)
           /\ UNCHANGED events
     /\ UNCHANGED <<fs, ends, past, clock>>

(* resizedFrom, unless the cache has it: the sidecar as it is by now, or the    *)
(* extracted original.                                                          *)
Resize(r) ==
  LET path == Source(r)
      key == CacheKey(path, req[r].stat, Size(r))
      there == Embedded(r) \/ IsFile(fs, path)
      stamp == IF Embedded(r) THEN cache[CacheKey(path, req[r].stat, "original")].stamp
               ELSE StampAt(fs, path)
  IN /\ req[r].pc = "resize"
     /\ \/ /\ key \in DOMAIN cache
           /\ UNCHANGED <<cache, events>>
           /\ Become(r, ServedFrom(r, key))
        \/ /\ key \notin DOMAIN cache /\ ~there
           /\ Become(r, Ended(r, 502))
           /\ UNCHANGED <<cache, events>>
        \/ /\ key \notin DOMAIN cache /\ there
           /\ Become(r, Ended(r, 502))
           /\ Event
           /\ UNCHANGED cache
        \/ /\ key \notin DOMAIN cache /\ there
           /\ cache' = With(key, stamp)
           /\ Become(r, ServedFrom(r, key))
           /\ UNCHANGED events
     /\ UNCHANGED <<fs, ends, past, clock>>

----
(* The world                                                                    *)

(* A file is replaced, removed or added, or a mount is moved: a file that is    *)
(* new has a time no file had before it.                                        *)
Change ==
  /\ Event
  /\ \E path \in DOMAIN Changes : \E node \in Changes[path] :
       fs' = [fs EXCEPT ![path] =
                IF node.type = "file"
                THEN [type |-> "file", picture |-> node.picture, stamp |-> clock + 1]
                ELSE node]
  /\ fs' # fs
  /\ past' = [r \in Requests |-> IF Running(r) THEN past[r] \cup {fs'} ELSE past[r]]
  /\ clock' = clock + 1
  /\ UNCHANGED <<cache, ends, req>>

(* A saved configuration is live with the handlers that are built of it; the    *)
(* handlers of the one before go on with the requests they have.                *)
Save ==
  /\ Event
  /\ live' \in Configs \ {live}
  /\ UNCHANGED <<fs, cache, portal, minted, req, past, clock>>

(* The portal is given another secret.                                          *)
Rotate ==
  /\ Event
  /\ portal' \in Portals \ {portal}
  /\ minted' = minted \cup {portal'}
  /\ UNCHANGED <<fs, cache, live, req, past, clock>>

Next ==
  \/ \E r \in Requests :
       \/ Arrive(r) \/ ResolveKey(r) \/ Open(r)
       \/ Find(r) \/ Stat(r) \/ Read(r) \/ Extract(r) \/ Resize(r)
  \/ Change \/ Save \/ Rotate

Spec == Init /\ [][Next]_vars

----
(* Safety                                                                       *)

(* The gate lets in those whose token deserves it and no others, whatever the   *)
(* secrets of portal and plugin have been: with the new secret saved in both    *)
(* places the portal's tokens count at once, and its older ones no more. No     *)
(* token of another file, book or size of URL opens this one.                   *)
GateIsExact ==
  \A r \in Requests : req[r].pc # "idle" /\ req[r].out.status # 503 =>
    (req[r].deserved <=> req[r].out.status # 401)

(* What is served as a file, or as the cover of one, is what that file held at  *)
(* some moment of the request, and a cover has the size that was asked for:     *)
(* nothing a touched file held before comes out of the cache, though another    *)
(* request may have filled it from what came after it had looked.               *)
AnswerOfItsTime ==
  \A r \in Requests : req[r].out.status = 200 =>
    LET out == req[r].out
    IN /\ \E f \in past[r] : IsFile(f, out.path) /\ StampAt(f, out.path) = out.stamp
       /\ IsCover(r) => out.size = Size(r)

(* A cover comes from the first sidecar there is, from the audio file if there  *)
(* is none, and is missing only if there is no picture in that either: each of  *)
(* what goes before was not there at some moment of the request.                *)
SourcesInOrder ==
  \A r \in Requests : IsCover(r) /\ req[r].out.at \in {"read", "extract", "resize"} =>
    LET out == req[r].out
        beside == [i \in 1..Len(Sidecars) |-> Dir(req[r].path) \o <<Sidecars[i]>>]
        before == {i \in DOMAIN beside : \A j \in 1..i : beside[j] # out.path}
    IN out.status \in {200, 404} =>
         /\ \A i \in before : \E f \in past[r] : ~IsFile(f, beside[i])
         /\ out.status = 404 =>
              \E f \in past[r] : IsFile(f, req[r].path) /\ ~FileAt(f, req[r].path).picture

Roots(cfg) ==
  ({cfg.root} \cup {cfg.rules[i].target : i \in 1..Len(cfg.rules)}) \ {Nowhere}

InsideOf(f, root, path) == path = Real(f, root) \/ IsStrictPrefix(Real(f, root), path)

(* The audio file that os.Open found, with the links as they were by then, lies *)
(* below the real path that a root or a target of the handler's configuration   *)
(* had at some moment of the request: the check of resolveWithin still counts   *)
(* when its answer is used.                                                     *)
ServedInside ==
  \A r \in Requests : req[r].out.status = 200 /\ req[r].out.at = "open" =>
    \E f \in past[r], root \in Roots(req[r].cfg) :
      Real(f, root) # Nowhere /\ InsideOf(f, root, req[r].out.opened)

(* Every place the keys may stand for: each has the number of its key and the   *)
(* number of its rule, or of the root, and is tried in that order.              *)
Tried(cfg, keys) == UNION {{k} \X Applicable(cfg, keys[k]) : k \in DOMAIN keys}

Place(cfg, keys, t) == Candidate(cfg, keys[t[1]], t[2])

TriedBefore(s, t) == s[1] < t[1] \/ (s[1] = t[1] /\ s[2] < t[2])

(* A request goes on with the first of these that is there and within its root, *)
(* and gives up only if none is: each one it went past would not do at some     *)
(* moment of the request, though a mount came back while it looked at others.   *)
(* (This is the order of resolve.go; FirstMatchDecides is the documented one.)  *)
FirstThatWillDo ==
  \A r \in Requests : req[r].pc \in {"open", "find"} \/ req[r].out.at = "resolve" =>
    LET keys == KeysOf(req[r].ask, CHOOSE file \in FileOf(req[r].ask) : TRUE)
        tried == Tried(req[r].cfg, keys)
        place(t) == Place(req[r].cfg, keys, t)
        wouldNot(t) == \E f \in past[r] : ~Within(f, place(t))
        would(t) == \E f \in past[r] : Within(f, place(t)) /\ Real(f, place(t).path) = req[r].path
    IN IF req[r].path = Nowhere THEN \A t \in tried : wouldNot(t)
       ELSE \E t \in tried : would(t) /\ \A s \in tried : TriedBefore(s, t) => wouldNot(s)

(* What the documentation says instead (docs/debugging.md:175-182, 206-208):    *)
(* the first rule that matches the key decides, the root only if none does, and *)
(* a path that escapes there is not looked for anywhere else.                   *)
FirstMatchDecides ==
  \A r \in Requests : req[r].pc \in {"open", "find"} =>
    LET key == Head(req[r].keys)
        matches == Applicable(req[r].cfg, key)
        first == Candidate(req[r].cfg, key, CHOOSE i \in matches : \A j \in matches : i <= j)
    IN \E f \in past[r] : Within(f, first) /\ Real(f, first.path) = req[r].path
====
