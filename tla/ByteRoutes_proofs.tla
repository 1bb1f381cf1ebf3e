---- MODULE ByteRoutes_proofs ----
(* What TLAPS proves of the byte routes for any configurations, secrets, books, *)
(* file trees and number of requests: the gate is exact, keys and sidecars are  *)
(* tried in their order, the audio file that is opened lies within a root while *)
(* links stay links, and what is served is what the file held in the time of    *)
(* the request while the layout of the library stays.                           *)
EXTENDS ByteRoutes, BookFiles_proofs, SequenceTheorems

----
(* The resolver                                                                 *)

(* A path that Resolve returns is the real path of a place that is within a     *)
(* root or target of the resolver (localfs/resolve.go:160-173).                 *)
LEMMA ResolveIsWithin ==
  ASSUME NEW f, NEW resolver, Len(resolver.rules) \in Nat,
         NEW key, NEW path \in Resolve(f, resolver, key)
  PROVE  \E root \in Roots(resolver) :
           Real(f, root) # Nowhere /\ InsideOf(f, root, path)
<1>1. PICK i \in Applicable(resolver, key) :
        /\ Within(f, Candidate(resolver, key, i))
        /\ path = Real(f, Candidate(resolver, key, i).path)
  BY Zenon DEF Resolve
<1> DEFINE root == Candidate(resolver, key, i).root
<1>2. root \in Roots(resolver)
  <2>1. CASE i \in 1..Len(resolver.rules)
    <3>1. root = resolver.rules[i].target
      BY <2>1 DEF Candidate
    <3>2. Applies(resolver.rules[i], Clean(key.path))
      BY <1>1, <2>1 DEF Applicable
    <3>3. root # Nowhere
      BY <3>1, <3>2 DEF Applies
    <3>. QED  BY <2>1, <3>1, <3>3 DEF Roots
  <2>2. CASE i \notin 1..Len(resolver.rules)
    <3>1. root = resolver.root
      BY <2>2 DEF Candidate
    <3>2. resolver.root # Nowhere
      BY <1>1, <2>2 DEF Applicable
    <3>. QED  BY <3>1, <3>2 DEF Roots
  <2>. QED  BY <2>1, <2>2
<1>3. Real(f, root) # Nowhere /\ InsideOf(f, root, path)
  BY <1>1 DEF Within, InsideOf
<1>. QED  BY <1>2, <1>3, Zenon

----
(* The inductive invariant                                                      *)

(* The fields of a request's record, and of its answer.                         *)
Shaped(x) ==
  /\ {"pc", "cfg", "ask", "deserved", "keys", "path", "looked", "stat", "out"} \subseteq DOMAIN x
  /\ {"status", "at", "path", "opened", "stamp", "size"} \subseteq DOMAIN x.out

Inside(cfg, seen, path) ==
  \E f \in seen, root \in Roots(cfg) :
    Real(f, root) # Nowhere /\ InsideOf(f, root, path)

(* A request that is let in has a token that deserves it and sees the tree of   *)
(* every moment; the path it is about to open was inside when it was resolved.  *)
Good(x, seen, now) ==
  /\ Shaped(x)
  /\ x.cfg \in Configs
  /\ x.pc # "done" => x.out.status = 0 /\ x.out.at = "idle"
  /\ x.pc \notin {"idle", "done"} => x.deserved /\ now \in seen
  /\ x.pc = "open" => Inside(x.cfg, seen, x.path)
  /\ x.out.status = 401 => ~x.deserved
  /\ x.out.status \notin {0, 401, 503} => x.deserved
  /\ x.pc = "done" => x.out.status # 0
  /\ x.out.status = 200 /\ x.out.at = "open" => Inside(x.cfg, seen, x.out.path)

IInv ==
  /\ req = [r \in Requests |-> req[r]]
  /\ past = [r \in Requests |-> past[r]]
  /\ live \in Configs
  /\ \A r \in Requests : Good(req[r], past[r], fs)

LEMMA InitGood == Init => IInv
<1> SUFFICES ASSUME Init PROVE IInv
  OBVIOUS
<1>1. /\ req = [r \in Requests |-> req[r]]
      /\ past = [r \in Requests |-> past[r]]
      /\ live \in Configs
  BY DEF Init
<1>2. ASSUME NEW r \in Requests PROVE Good(req[r], past[r], fs)
  BY DEF Init, Good, Shaped, NoAnswer
<1>. QED  BY <1>1, <1>2 DEF IInv

(* What a request does leaves the others good.                                  *)
LEMMA OnlyOne ==
  ASSUME IInv, NEW r \in Requests, NEW to, Become(r, to),
         Good(to, past[r], fs), UNCHANGED <<fs, live, past>>
  PROVE  IInv'
BY DEF IInv, Become

(* What the record of a request that ends keeps, and its answer.                *)
LEMMA EndedFields ==
  ASSUME NEW r, Shaped(req[r]), NEW status
  PROVE  LET x == Ended(r, status)
         IN /\ Shaped(x) /\ x.pc = "done" /\ x.cfg = req[r].cfg
            /\ x.deserved = req[r].deserved
            /\ x.out.status = status /\ x.out.at = req[r].pc
BY DEF Shaped, Ended, NoAnswer

LEMMA ServedFields ==
  ASSUME NEW r, Shaped(req[r]), NEW path, NEW opened, NEW stamp, NEW size
  PROVE  LET x == Served(r, path, opened, stamp, size)
         IN /\ Shaped(x) /\ x.pc = "done" /\ x.cfg = req[r].cfg
            /\ x.deserved = req[r].deserved
            /\ x.out.status = 200 /\ x.out.at = req[r].pc
            /\ x.out.path = path /\ x.out.opened = opened
<1> DEFINE e == Ended(r, 200)
<1>1. /\ Shaped(e) /\ e.pc = "done" /\ e.cfg = req[r].cfg
      /\ e.deserved = req[r].deserved
      /\ e.out.status = 200 /\ e.out.at = req[r].pc
  BY EndedFields
<1> HIDE DEF e
<1> DEFINE x == [e EXCEPT !.out.path = path, !.out.opened = opened,
                           !.out.stamp = stamp, !.out.size = size]
<1>2. /\ Shaped(x) /\ x.pc = "done" /\ x.cfg = req[r].cfg
      /\ x.deserved = req[r].deserved
  BY <1>1 DEF Shaped
<1>3. x.out.status = 200 /\ x.out.at = req[r].pc /\ x.out.path = path /\ x.out.opened = opened
  BY <1>1 DEF Shaped
<1>. QED  BY <1>2, <1>3 DEF Served, e

(* A request that ends with a status that is no answer, ends with one, or goes  *)
(* on to a step that does not open a resolved path.                             *)
LEMMA EndedGood ==
  ASSUME IInv, NEW r \in Requests, Running(r), NEW status \in {404, 500, 502}
  PROVE  Good(Ended(r, status), past[r], fs)
<1>1. Good(req[r], past[r], fs)
  BY DEF IInv
<1>2. Shaped(req[r])
  BY <1>1 DEF Good
<1>. QED  BY <1>1, <1>2, EndedFields DEF Running, Good

LEMMA ServedGood ==
  ASSUME IInv, NEW r \in Requests, Running(r), NEW path, NEW opened, NEW stamp, NEW size,
         req[r].pc = "open" => path = req[r].path
  PROVE  Good(Served(r, path, opened, stamp, size), past[r], fs)
<1>1. Good(req[r], past[r], fs)
  BY DEF IInv
<1>2. Shaped(req[r])
  BY <1>1 DEF Good
<1>. QED  BY <1>1, <1>2, ServedFields DEF Running, Good

LEMMA AtGood ==
  ASSUME IInv, NEW r \in Requests, Running(r), NEW pc, pc \notin {"idle", "open", "done"}
  PROVE  Good(At(r, pc), past[r], fs)
<1>1. Good(req[r], past[r], fs)
  BY DEF IInv
<1>. QED  BY <1>1 DEF Running, Good, Shaped, At

----
(* The gate                                                                     *)

(* Verify accepts a held token at a configured secret just if it deserves it    *)
(* (tokens/verify.go:47-96): the key a secret decodes to tells secrets apart.   *)
LEMMA VerifyIsExact ==
  ASSUME NEW t \in Held, NEW ask, NEW cfg, ~Unconfigured(cfg.secret)
  PROVE  /\ Verified(cfg.secret, t, ask.book, ask.idx) <=> Deserves(t, ask, cfg)
         /\ Deserves(t, ask, cfg) \in BOOLEAN
<1>1. CASE t = NoToken
  BY <1>1 DEF Verified, Deserves
<1>2. CASE t # NoToken
  <2>1. PICK form \in TokenForms, secret \in minted, a \in Asks :
          t = [alg |-> form.alg, aud |-> form.aud, exp |-> form.exp, sub |-> form.sub,
               key |-> SigningKey(secret), secret |-> secret,
               book |-> a.book, file_idx |-> a.idx]
    BY <1>2 DEF Held
  <2>2. t.key = DecodeSecret(cfg.secret) <=> t.secret = cfg.secret
    BY <2>1 DEF SigningKey, DecodeSecret
  <2>3. t.sub \in BOOLEAN
    BY <2>1, RoutesAssumption
  <2>. QED  BY <1>2, <2>2, <2>3 DEF Verified, Deserves, Audience
<1>. QED  BY <1>1, <1>2

LEMMA ComeFields ==
  ASSUME NEW r, Good(req[r], past[r], fs), req[r].pc = "idle", NEW ask, NEW t
  PROVE  LET x == Come(r, ask, t)
         IN /\ Shaped(x) /\ x.cfg = live /\ x.deserved = Deserves(t, ask, live)
            /\ x.out.status = 0 /\ x.out.at = "idle"
BY DEF Good, Shaped, Come

LEMMA RefusedFields ==
  ASSUME NEW come, Shaped(come), NEW status
  PROVE  LET x == Refused(come, status)
         IN /\ Shaped(x) /\ x.cfg = come.cfg /\ x.deserved = come.deserved
            /\ x.pc = "done" /\ x.out.status = status /\ x.out.at = "idle"
BY DEF Shaped, Refused, NoAnswer

LEMMA LetInFields ==
  ASSUME NEW come, Shaped(come), NEW ask, NEW file
  PROVE  LET x == LetIn(come, ask, file)
         IN /\ Shaped(x) /\ x.cfg = come.cfg /\ x.deserved = come.deserved
            /\ x.pc = "resolve" /\ x.out = come.out
BY DEF Shaped, LetIn

LEMMA ArrivedGood ==
  ASSUME IInv, NEW r \in Requests, req[r].pc = "idle",
         NEW ask, NEW t \in Held, NEW x \in Arrived(r, ask, t)
  PROVE  /\ Good(x, {fs}, fs)
         /\ x.pc = "resolve" => Good(Refused(x, 502), {fs}, fs)
<1> DEFINE come == Come(r, ask, t)
           good == Verified(live.secret, t, ask.book, ask.idx)
<1>1. Good(req[r], past[r], fs) /\ live \in Configs
  BY DEF IInv
<1>2. /\ Shaped(come) /\ come.cfg = live /\ come.deserved = Deserves(t, ask, live)
      /\ come.out.status = 0 /\ come.out.at = "idle"
  BY <1>1, ComeFields
<1>3. ASSUME ~Unconfigured(live.secret)
      PROVE  good <=> come.deserved
  <2>1. good <=> Deserves(t, ask, live)
    BY <1>3, VerifyIsExact
  <2>2. come.deserved = Deserves(t, ask, live)
    BY <1>2
  <2>. QED  BY <2>1, <2>2, Zenon
<1>4. \/ x = Refused(come, 503)
      \/ ~Unconfigured(live.secret) /\ ~good /\ x = Refused(come, 401)
      \/ ~Unconfigured(live.secret) /\ good /\ x = Refused(come, 404)
      \/ /\ ~Unconfigured(live.secret) /\ good
         /\ \E file \in FileOf(ask) : x = LetIn(come, ask, file)
  BY DEF Arrived
<1> HIDE DEF come, good
<1>5. CASE x = Refused(come, 503)
  BY <1>1, <1>2, <1>5, RefusedFields DEF Good
<1>6. CASE ~Unconfigured(live.secret) /\ ~good /\ x = Refused(come, 401)
  <2>1. ~come.deserved
    BY <1>3, <1>6
  <2>. QED  BY <1>1, <1>2, <1>6, <2>1, RefusedFields DEF Good
<1>7. CASE ~Unconfigured(live.secret) /\ good /\ x = Refused(come, 404)
  <2>1. come.deserved
    BY <1>3, <1>7
  <2>. QED  BY <1>1, <1>2, <1>7, <2>1, RefusedFields DEF Good
<1>8. ASSUME ~Unconfigured(live.secret), good,
             NEW file, x = LetIn(come, ask, file)
      PROVE  Good(x, {fs}, fs) /\ Good(Refused(x, 502), {fs}, fs)
  <2>1. /\ Shaped(x) /\ x.cfg = live /\ x.deserved /\ x.pc = "resolve"
        /\ x.out.status = 0 /\ x.out.at = "idle"
    BY <1>2, <1>3, <1>8, LetInFields, ZenonT(40)
  <2>2. Good(x, {fs}, fs)
    BY <1>1, <2>1 DEF Good
  <2>3. Good(Refused(x, 502), {fs}, fs)
    BY <1>1, <2>1, RefusedFields DEF Good
  <2>. QED  BY <2>2, <2>3
<1>. QED  BY <1>4, <1>5, <1>6, <1>7, <1>8

LEMMA ArriveGood ==
  ASSUME IInv, NEW r \in Requests, Arrive(r)
  PROVE  IInv'
<1>1. PICK ask \in Asks, t \in Held : \E x \in Arrived(r, ask, t) :
        \/ Become(r, x)
        \/ x.pc = "resolve" /\ Become(r, Refused(x, 502))
  BY DEF Arrive
<1>2. PICK to : Become(r, to) /\ Good(to, {fs}, fs)
  <2>1. req[r].pc = "idle"
    BY DEF Arrive
  <2>2. PICK x \in Arrived(r, ask, t) :
          \/ Become(r, x)
          \/ x.pc = "resolve" /\ Become(r, Refused(x, 502))
    BY <1>1
  <2>3. /\ Good(x, {fs}, fs)
        /\ x.pc = "resolve" => Good(Refused(x, 502), {fs}, fs)
    BY <2>1, ArrivedGood
  <2>. QED  BY <2>2, <2>3, ZenonT(30)
<1>3. past' = [past EXCEPT ![r] = {fs}] /\ UNCHANGED <<fs, live>>
  BY DEF Arrive, ends
<1>4. ASSUME NEW q \in Requests PROVE Good(req'[q], past'[q], fs')
  <2>1. CASE q = r
    BY <1>2, <1>3, <2>1 DEF IInv, Become
  <2>2. CASE q # r
    BY <1>2, <1>3, <2>2 DEF IInv, Become
  <2>. QED  BY <2>1, <2>2
<1>5. /\ req' = [q \in Requests |-> req'[q]]
      /\ past' = [q \in Requests |-> past'[q]]
      /\ live' \in Configs
  BY <1>2, <1>3 DEF IInv, Become
<1>. QED  BY <1>4, <1>5 DEF IInv

----
(* The steps of a request that was let in                                       *)

LEMMA ResolveKeyGood ==
  ASSUME IInv, NEW r \in Requests, ResolveKey(r)
  PROVE  IInv'
<1> DEFINE found == Resolve(fs, req[r].cfg, Head(req[r].keys))
<1>1. Running(r) /\ UNCHANGED <<fs, live, past>>
  BY DEF ResolveKey, Running, ends
<1>2. Good(req[r], past[r], fs)
  BY DEF IInv
<1>3. ASSUME NEW path \in found, NEW pc \in {"find", "open"}
      PROVE  Good([At(r, pc) EXCEPT !.path = path], past[r], fs)
  <2> DEFINE x == [At(r, pc) EXCEPT !.path = path]
  <2>1. /\ Shaped(x) /\ x.pc = pc /\ x.cfg = req[r].cfg /\ x.path = path
        /\ x.deserved = req[r].deserved /\ x.out = req[r].out
    BY <1>2 DEF Good, Shaped, At
  <2>2. Len(req[r].cfg.rules) \in Nat
    BY <1>2, RoutesAssumption DEF Good
  <2>3. Inside(req[r].cfg, past[r], path)
    BY <1>1, <1>2, <2>2, ResolveIsWithin DEF Good, Inside, Running
  <2> HIDE DEF x
  <2>4. Good(x, past[r], fs)
    BY <1>1, <1>2, <2>1, <2>3 DEF Good, Running
  <2>. QED  BY <2>4 DEF x
<1>4. Good([At(r, "resolve") EXCEPT !.keys = Tail(req[r].keys)], past[r], fs)
  <2> DEFINE x == [At(r, "resolve") EXCEPT !.keys = Tail(req[r].keys)]
  <2>1. /\ Shaped(x) /\ x.pc = "resolve" /\ x.cfg = req[r].cfg
        /\ x.deserved = req[r].deserved /\ x.out = req[r].out
    BY <1>2 DEF Good, Shaped, At
  <2> HIDE DEF x
  <2>2. Good(x, past[r], fs)
    BY <1>1, <1>2, <2>1 DEF Good, Running
  <2>. QED  BY <2>2 DEF x
<1>5. Good(Ended(r, 502), past[r], fs)
  BY <1>1, EndedGood
<1>6. \/ \E path \in found, pc \in {"find", "open"} :
          Become(r, [At(r, pc) EXCEPT !.path = path])
      \/ Become(r, [At(r, "resolve") EXCEPT !.keys = Tail(req[r].keys)])
      \/ Become(r, Ended(r, 502))
  BY DEF ResolveKey
<1> HIDE DEF found
<1>. QED  BY <1>1, <1>3, <1>4, <1>5, <1>6, OnlyOne, ZenonT(30)

LEMMA OpenGood ==
  ASSUME IInv, NEW r \in Requests, Open(r)
  PROVE  IInv'
<1>1. Running(r) /\ UNCHANGED <<fs, live, past>>
  BY DEF Open, Running, ends
<1>2. \/ Become(r, Opened(r, req[r].path, "none"))
      \/ Become(r, Ended(r, 500))
  BY DEF Open
<1>. QED  BY <1>1, <1>2, EndedGood, ServedGood, OnlyOne DEF Opened

LEMMA FindGood ==
  ASSUME IInv, NEW r \in Requests, Find(r)
  PROVE  IInv'
<1>1. Running(r) /\ req[r].pc = "find" /\ UNCHANGED <<fs, live, past>>
  BY DEF Find, Running, ends
<1>2. Good(req[r], past[r], fs)
  BY DEF IInv
<1> DEFINE x == [req[r] EXCEPT !.looked = req[r].looked + 1]
<1>3. Good(x, past[r], fs)
  <2>1. /\ Shaped(x) /\ x.pc = "find" /\ x.cfg = req[r].cfg
        /\ x.deserved = req[r].deserved /\ x.out = req[r].out
    BY <1>1, <1>2 DEF Good, Shaped
  <2> HIDE DEF x
  <2>. QED  BY <1>1, <1>2, <2>1 DEF Good, Running
<1>4. Become(r, At(r, "stat")) \/ Become(r, x)
  BY DEF Find
<1> HIDE DEF x
<1>. QED  BY <1>1, <1>3, <1>4, AtGood, OnlyOne

LEMMA StatGood ==
  ASSUME IInv, NEW r \in Requests, Stat(r)
  PROVE  IInv'
<1>1. Running(r) /\ UNCHANGED <<fs, live, past>>
  BY DEF Stat, Running, ends
<1>2. Good(req[r], past[r], fs)
  BY DEF IInv
<1> DEFINE x(pc) == [At(r, pc) EXCEPT !.stat = StampAt(fs, Source(r))]
<1>3. ASSUME NEW pc \in {"extract", "read", "resize"}
      PROVE  Good(x(pc), past[r], fs)
  <2>1. /\ Shaped(x(pc)) /\ x(pc).pc = pc /\ x(pc).cfg = req[r].cfg
        /\ x(pc).deserved = req[r].deserved /\ x(pc).out = req[r].out
    BY <1>2 DEF Good, Shaped, At
  <2> HIDE DEF x
  <2>. QED  BY <1>1, <1>2, <2>1 DEF Good, Running
<1>4. \/ Become(r, Ended(r, 502))
      \/ \E pc \in {"extract", "read", "resize"} : Become(r, x(pc))
  BY DEF Stat
<1> HIDE DEF x
<1>. QED  BY <1>1, <1>3, <1>4, EndedGood, OnlyOne

LEMMA ReadGood ==
  ASSUME IInv, NEW r \in Requests, Read(r)
  PROVE  IInv'
<1>1. Running(r) /\ req[r].pc # "open" /\ UNCHANGED <<fs, live, past>>
  BY DEF Read, Running, ends
<1>2. \/ Become(r, Opened(r, Source(r), "original"))
      \/ Become(r, Ended(r, 502))
  BY DEF Read
<1>. QED  BY <1>1, <1>2, EndedGood, ServedGood, OnlyOne DEF Opened

LEMMA ExtractGood ==
  ASSUME IInv, NEW r \in Requests, Extract(r)
  PROVE  IInv'
<1>1. Running(r) /\ req[r].pc # "open" /\ UNCHANGED <<fs, live, past>>
  BY DEF Extract, Running, ends
<1>2. \/ \E status \in {404, 502} : Become(r, Ended(r, status))
      \/ \E key : Become(r, ServedFrom(r, key))
      \/ Become(r, At(r, "resize"))
  BY DEF Extract
<1>. QED  BY <1>1, <1>2, EndedGood, ServedGood, AtGood, OnlyOne DEF ServedFrom

LEMMA ResizeGood ==
  ASSUME IInv, NEW r \in Requests, Resize(r)
  PROVE  IInv'
<1>1. Running(r) /\ req[r].pc # "open" /\ UNCHANGED <<fs, live, past>>
  BY DEF Resize, Running, ends
<1>2. Become(r, Ended(r, 502)) \/ \E key : Become(r, ServedFrom(r, key))
  BY DEF Resize
<1>. QED  BY <1>1, <1>2, EndedGood, ServedGood, OnlyOne DEF ServedFrom

LEMMA ChangeGood ==
  ASSUME IInv, Change
  PROVE  IInv'
<1>1. /\ past' = [r \in Requests |-> IF Running(r) THEN past[r] \cup {fs'} ELSE past[r]]
      /\ UNCHANGED <<req, live>>
  BY DEF Change, ends
<1>2. ASSUME NEW r \in Requests PROVE Good(req[r], past'[r], fs')
  <2>1. Good(req[r], past[r], fs)
    BY DEF IInv
  <2>2. past[r] \subseteq past'[r] /\ (Running(r) => fs' \in past'[r])
    BY <1>1
  <2>3. ASSUME NEW cfg, NEW path, Inside(cfg, past[r], path)
        PROVE  Inside(cfg, past'[r], path)
    BY <2>2, <2>3 DEF Inside
  <2>. QED  BY <2>1, <2>2, <2>3 DEF Good, Running
<1>. QED  BY <1>1, <1>2 DEF IInv

LEMMA StepGood == IInv /\ [Next]_vars => IInv'
<1> SUFFICES ASSUME IInv, [Next]_vars PROVE IInv'
  OBVIOUS
<1>1. ASSUME NEW r \in Requests,
             \/ Arrive(r) \/ ResolveKey(r) \/ Open(r)
             \/ Find(r) \/ Stat(r) \/ Read(r) \/ Extract(r) \/ Resize(r)
      PROVE  IInv'
  BY <1>1, ArriveGood, ResolveKeyGood, OpenGood, FindGood, StatGood, ReadGood,
     ExtractGood, ResizeGood
<1>2. CASE Change
  BY <1>2, ChangeGood
<1>3. CASE Save
  BY <1>3 DEF Save, IInv
<1>4. CASE Rotate
  BY <1>4 DEF Rotate, IInv
<1>5. CASE UNCHANGED vars
  BY <1>5 DEF vars, ends, IInv
<1>. QED  BY <1>1, <1>2, <1>3, <1>4, <1>5 DEF Next

----
(* The gate is exact whatever the secrets were: for any set of configurations,  *)
(* portals and tokens, a request is let in just if its token was made with the  *)
(* plugin's secret for its book and file, and is whole and in its time.         *)
THEOREM GateCorrect == Spec => []GateIsExact
<1>1. IInv => GateIsExact
  BY DEF IInv, Good, GateIsExact
<1>. QED  BY <1>1, InitGood, StepGood, PTL DEF Spec

----
(* The sources of an answer, in their order                                     *)

(* A name beside the resolved file was not there at some moment.                *)
Lacked(x, seen, i) == \E f \in seen : ~IsFile(f, Dir(x.path) \o <<Sidecars[i]>>)

(* The answer comes from the first source that was not lacking.                 *)
FromFirst(x, seen) ==
  LET beside == [i \in 1..Len(Sidecars) |-> Dir(x.path) \o <<Sidecars[i]>>]
      before == {i \in DOMAIN beside : \A j \in 1..i : beside[j] # x.out.path}
  IN /\ \A i \in before : Lacked(x, seen, i)
     /\ x.out.status = 404 =>
          \E f \in seen : IsFile(f, x.path) /\ ~FileAt(f, x.path).picture

(* A request that looks for sidecars has missed all those it has gone past, and *)
(* it goes to the audio file only past the last.                                *)
Looking(x, seen) ==
  /\ x.looked \in Nat \ {0}
  /\ x.pc \in {"idle", "resolve"} => x.looked = 1
  /\ x.pc # "done" => \A i \in 1..Len(Sidecars) : i < x.looked => Lacked(x, seen, i)
  /\ x.pc = "extract" => x.looked > Len(Sidecars)
  /\ x.out.at \in {"read", "extract", "resize"} /\ x.out.status \in {200, 404}
       => FromFirst(x, seen)

(* The keys of the file that was asked for. *)
Keys(x) == KeysOf(x.ask, CHOOSE file \in FileOf(x.ask) : TRUE)

WouldNot(x, seen, t) == \E f \in seen : ~Within(f, Place(x.cfg, Keys(x), t))

Would(x, seen, t) ==
  \E f \in seen : /\ Within(f, Place(x.cfg, Keys(x), t))
                  /\ Real(f, Place(x.cfg, Keys(x), t).path) = x.path

(* The path is that of the first place that would do, if one would. *)
AtFirst(x, seen) ==
  IF x.path = Nowhere THEN \A t \in Tried(x.cfg, Keys(x)) : WouldNot(x, seen, t)
  ELSE \E t \in Tried(x.cfg, Keys(x)) :
         /\ Would(x, seen, t)
         /\ \A s \in Tried(x.cfg, Keys(x)) : TriedBefore(s, t) => WouldNot(x, seen, s)

(* A request that resolves its keys has all of them before it, or the second    *)
(* of two when no place of the first would do.                                  *)
Trying(x, seen) ==
  /\ x.pc \in {"idle", "resolve"} => x.path = Nowhere
  /\ x.pc = "resolve" =>
       \/ x.keys = Keys(x)
       \/ /\ Len(Keys(x)) = 2 /\ x.keys = <<Keys(x)[2]>>
          /\ \A t \in Tried(x.cfg, Keys(x)) : t[1] = 1 => WouldNot(x, seen, t)
  /\ x.pc \in {"open", "find"} \/ x.out.at = "resolve" => AtFirst(x, seen)

OrderInv == \A r \in Requests : Looking(req[r], past[r]) /\ Trying(req[r], past[r])

LEMMA SameKeys ==
  ASSUME NEW x, NEW y, x.ask = y.ask
  PROVE  Keys(x) = Keys(y)
BY Zenon DEF Keys

LEMMA SamePlaces ==
  ASSUME NEW x, NEW y, NEW seen,
         x.ask = y.ask, x.cfg = y.cfg, x.path = y.path, AtFirst(x, seen)
  PROVE  AtFirst(y, seen)
<1>1. Keys(x) = Keys(y)
  BY SameKeys
<1>2. /\ \A t : WouldNot(x, seen, t) <=> WouldNot(y, seen, t)
      /\ \A t : Would(x, seen, t) <=> Would(y, seen, t)
  BY <1>1 DEF WouldNot, Would
<1> QED BY <1>1, <1>2 DEF AtFirst

(* What was so at some moment remains so as moments are added. *)
LEMMA MoreMoments ==
  ASSUME NEW x, NEW seen, NEW more, seen \subseteq more, Looking(x, seen), Trying(x, seen)
  PROVE  Looking(x, more) /\ Trying(x, more)
<1>1. \A i : Lacked(x, seen, i) => Lacked(x, more, i)
  BY DEF Lacked
<1>2. /\ \A t : WouldNot(x, seen, t) => WouldNot(x, more, t)
      /\ \A t : Would(x, seen, t) => Would(x, more, t)
  BY DEF WouldNot, Would
<1>3. FromFirst(x, seen) => FromFirst(x, more)
  BY <1>1 DEF FromFirst
<1>4. AtFirst(x, seen) => AtFirst(x, more)
  BY <1>2 DEF AtFirst
<1> QED BY <1>1, <1>2, <1>3, <1>4 DEF Looking, Trying

LEMMA OnlyOneOrdered ==
  ASSUME IInv, OrderInv, NEW r \in Requests, NEW to, Become(r, to),
         Looking(to, past[r]), Trying(to, past[r]), UNCHANGED past
  PROVE  OrderInv'
<1> SUFFICES ASSUME NEW q \in Requests
             PROVE  Looking(req'[q], past'[q]) /\ Trying(req'[q], past'[q])
  BY DEF OrderInv
<1>1. CASE q = r
  BY <1>1 DEF IInv, Become
<1>2. CASE q # r
  <2>1. req'[q] = req[q] /\ past'[q] = past[q]
    BY <1>2 DEF IInv, Become
  <2> QED BY <2>1 DEF OrderInv
<1> QED BY <1>1, <1>2

(* What a request that ends still knows. *)
LEMMA EndedKeeps ==
  ASSUME NEW r, Shaped(req[r]), NEW status
  PROVE  LET x == Ended(r, status)
         IN x.path = req[r].path /\ x.ask = req[r].ask /\ x.looked = 1
BY DEF Shaped, Ended

LEMMA ServedKeeps ==
  ASSUME NEW r, Shaped(req[r]), NEW path, NEW opened, NEW stamp, NEW size
  PROVE  LET x == Served(r, path, opened, stamp, size)
         IN x.path = req[r].path /\ x.ask = req[r].ask /\ x.looked = 1
<1> DEFINE e == Ended(r, 200)
<1>1. /\ Shaped(e)
      /\ e.path = req[r].path /\ e.ask = req[r].ask /\ e.looked = 1
  BY EndedFields, EndedKeeps
<1> HIDE DEF e
<1>2. LET x == [e EXCEPT !.out.path = path, !.out.opened = opened,
                           !.out.stamp = stamp, !.out.size = size]
      IN x.path = e.path /\ x.ask = e.ask /\ x.looked = e.looked
  BY <1>1 DEF Shaped
<1> QED BY <1>1, <1>2 DEF Served, e

(* A source is the first that was not lacking when all those gone past were.    *)
LEMMA SourceIsFirst ==
  ASSUME NEW r, NEW seen, NEW y, Looking(req[r], seen), req[r].pc # "done",
         y.path = req[r].path,
         req[r].looked > Len(Sidecars) \/ y.out.path = Source(r),
         y.out.status = 404 =>
           \E f \in seen : IsFile(f, y.path) /\ ~FileAt(f, y.path).picture
  PROVE  FromFirst(y, seen)
<1> DEFINE beside == [i \in 1..Len(Sidecars) |-> Dir(y.path) \o <<Sidecars[i]>>]
<1>1. Len(Sidecars) \in Nat /\ req[r].looked \in Nat \ {0}
  BY RoutesAssumption DEF Looking
<1>2. ASSUME NEW i \in 1..Len(Sidecars), \A j \in 1..i : beside[j] # y.out.path
      PROVE  Lacked(y, seen, i)
  <2>1. CASE i < req[r].looked
    <3>1. Lacked(req[r], seen, i)
      BY <2>1 DEF Looking
    <3> QED BY <3>1 DEF Lacked
  <2>2. CASE ~(i < req[r].looked)
    <3>1. req[r].looked \in 1..i /\ req[r].looked \in 1..Len(Sidecars)
      BY <1>1, <2>2
    <3>2. beside[req[r].looked] = Dir(req[r].path) \o <<Sidecars[req[r].looked]>>
      BY <3>1
    <3>3. Source(r) = beside[req[r].looked]
      BY <1>1, <3>1, <3>2, SMTT(30) DEF Source, Embedded, SidecarAt
    <3>4. beside[req[r].looked] # y.out.path
      BY <1>2, <3>1
    <3>5. ~(req[r].looked > Len(Sidecars))
      BY <1>1, <3>1
    <3> QED BY <3>3, <3>4, <3>5, Zenon
  <2> QED BY <2>1, <2>2
<1> QED BY <1>2 DEF FromFirst

(* A request that ends otherwise than for want of a path, without an answer, or *)
(* with one of the first source.                                                *)
LEMMA EndedOrdered ==
  ASSUME IInv, OrderInv, NEW r \in Requests, Running(r), NEW status,
         req[r].pc # "resolve",
         status = 404 =>
           /\ req[r].looked > Len(Sidecars)
           /\ \E f \in past[r] : IsFile(f, req[r].path) /\ ~FileAt(f, req[r].path).picture,
         status # 200
  PROVE  LET x == Ended(r, status) IN Looking(x, past[r]) /\ Trying(x, past[r])
<1> DEFINE x == Ended(r, status)
<1>1. Shaped(req[r]) /\ Looking(req[r], past[r]) /\ req[r].pc \notin {"idle", "done"}
  BY DEF IInv, Good, OrderInv, Running
<1>2. /\ x.pc = "done" /\ x.out.status = status /\ x.out.at = req[r].pc
      /\ x.path = req[r].path /\ x.ask = req[r].ask /\ x.looked = 1
  BY <1>1, EndedFields, EndedKeeps
<1> HIDE DEF x
<1>3. ASSUME status = 404
      PROVE  FromFirst(x, past[r])
  <2>1. \E f \in past[r] : IsFile(f, x.path) /\ ~FileAt(f, x.path).picture
    <3>1. PICK f \in past[r] : IsFile(f, req[r].path) /\ ~FileAt(f, req[r].path).picture
      BY <1>3
    <3>2. x.path = req[r].path
      BY <1>2
    <3>3. IsFile(f, x.path) /\ ~FileAt(f, x.path).picture
      BY <3>1, <3>2
    <3> QED BY <3>3
  <2>2. req[r].pc # "done" /\ x.path = req[r].path /\ req[r].looked > Len(Sidecars)
    BY <1>1, <1>2, <1>3
  <2> QED BY <1>1, <2>1, <2>2, SourceIsFirst
<1>4. Looking(x, past[r]) /\ Trying(x, past[r])
  BY <1>1, <1>2, <1>3 DEF Looking, Trying
<1> QED BY <1>4 DEF x

LEMMA ServedOrdered ==
  ASSUME IInv, OrderInv, NEW r \in Requests, Running(r),
         NEW path, NEW opened, NEW stamp, NEW size, req[r].pc # "resolve",
         req[r].pc \in {"read", "extract", "resize"} => path = Source(r)
  PROVE  LET x == Served(r, path, opened, stamp, size) IN Looking(x, past[r]) /\ Trying(x, past[r])
<1> DEFINE x == Served(r, path, opened, stamp, size)
<1>1. Shaped(req[r]) /\ Looking(req[r], past[r]) /\ req[r].pc \notin {"idle", "done"}
  BY DEF IInv, Good, OrderInv, Running
<1>2. /\ x.pc = "done" /\ x.out.status = 200 /\ x.out.at = req[r].pc /\ x.out.path = path
      /\ x.path = req[r].path /\ x.ask = req[r].ask /\ x.looked = 1
  BY <1>1, ServedFields, ServedKeeps
<1> HIDE DEF x
<1>3. req[r].pc \in {"read", "extract", "resize"} => FromFirst(x, past[r])
  BY <1>1, <1>2, SourceIsFirst
<1>4. Looking(x, past[r]) /\ Trying(x, past[r])
  BY <1>1, <1>2, <1>3 DEF Looking, Trying
<1> QED BY <1>4 DEF x

(* A request that goes on to another step with its path. *)
LEMMA GoesOnOrdered ==
  ASSUME IInv, OrderInv, NEW r \in Requests, Running(r), NEW x,
         x.pc \notin {"idle", "resolve", "open", "find", "done"},
         x.out = req[r].out, x.path = req[r].path, x.looked = req[r].looked,
         x.pc = "extract" => x.looked > Len(Sidecars)
  PROVE  Looking(x, past[r]) /\ Trying(x, past[r])
<1>1. /\ Looking(req[r], past[r]) /\ req[r].pc # "done"
      /\ x.out.at = "idle" /\ x.out.status = 0
  BY DEF IInv, Good, OrderInv, Running
<1>2. \A i : Lacked(req[r], past[r], i) => Lacked(x, past[r], i)
  BY DEF Lacked
<1> QED BY <1>1, <1>2 DEF Looking, Trying

----
(* The steps                                                                    *)

LEMMA InitOrdered == Init => OrderInv
<1> SUFFICES ASSUME Init, NEW r \in Requests
             PROVE  Looking(req[r], past[r]) /\ Trying(req[r], past[r])
  BY DEF OrderInv
<1>1. /\ req[r].pc = "idle" /\ req[r].looked = 1 /\ req[r].path = Nowhere
      /\ req[r].out.at = "idle" /\ req[r].out.status = 0
  BY DEF Init, NoAnswer
<1> QED BY <1>1 DEF Looking, Trying

(* The file of a request is one. *)
LEMMA OneFile ==
  ASSUME NEW ask \in Asks, NEW file \in FileOf(ask)
  PROVE  file = CHOOSE g \in FileOf(ask) : TRUE
<1> DEFINE files == Normalise(FilesOf[ask.book])
           found == IF ask.idx = CoverFileIdx THEN 1..Len(files) \cap {1}
                    ELSE FindFile(files, ask.idx)
<1>1. Len(files) \in Nat /\ ask.idx \in Int
  <2>1. Len(FilesOf[ask.book]) \in Nat /\ ask.idx \in Int
    BY RoutesAssumption DEF CoverFileIdx
  <2> QED BY <2>1 DEF Normalise
<1>2. FileOf(ask) = {files[i] : i \in found}
  BY DEF FileOf
<1> HIDE DEF files
<1>3. \A i, j \in found : i = j
  BY <1>1, FindFileIsOne
<1> HIDE DEF found
<1>4. \A g \in FileOf(ask) : g = file
  BY <1>2, <1>3
<1> QED BY <1>4

LEMMA ArriveOrdered ==
  ASSUME IInv, OrderInv, NEW r \in Requests, Arrive(r)
  PROVE  OrderInv'
<1>1. /\ Shaped(req[r]) /\ req[r].looked = 1 /\ req[r].path = Nowhere
      /\ req[r].out.at = "idle" /\ req[r].out.status = 0
  BY DEF Arrive, IInv, Good, OrderInv, Looking, Trying
<1>2. ASSUME NEW ask, NEW t
      PROVE  LET x == Come(r, ask, t)
             IN Shaped(x) /\ x.looked = 1 /\ x.path = Nowhere /\ x.out.at = "idle"
                /\ x.out.status = 0
  BY <1>1 DEF Come, Shaped
<1>3. ASSUME NEW come, Shaped(come), come.looked = 1, come.path = Nowhere, NEW status
      PROVE  Looking(Refused(come, status), {fs}) /\ Trying(Refused(come, status), {fs})
  <2> DEFINE x == Refused(come, status)
  <2>1. x.pc = "done" /\ x.out.at = "idle" /\ x.looked = 1 /\ x.path = Nowhere
    BY <1>3 DEF Refused, Shaped, NoAnswer
  <2> HIDE DEF x
  <2>2. Looking(x, {fs}) /\ Trying(x, {fs})
    BY <2>1 DEF Looking, Trying
  <2> QED BY <2>2 DEF x
<1>4. ASSUME NEW come, Shaped(come), come.looked = 1, come.path = Nowhere,
             come.out.at = "idle", come.out.status = 0, NEW ask \in Asks, NEW file \in FileOf(ask)
      PROVE  LET x == LetIn(come, ask, file)
             IN Shaped(x) /\ x.looked = 1 /\ x.path = Nowhere
                /\ Looking(x, {fs}) /\ Trying(x, {fs})
  <2> DEFINE x == LetIn(come, ask, file)
  <2>1. /\ Shaped(x) /\ x.pc = "resolve" /\ x.out.at = "idle" /\ x.out.status = 0
        /\ x.looked = 1 /\ x.path = Nowhere
        /\ x.ask = ask /\ x.keys = KeysOf(ask, file)
    BY <1>4 DEF LetIn, Shaped
  <2>2. file = CHOOSE g \in FileOf(ask) : TRUE
    BY OneFile
  <2> HIDE DEF x
  <2>3. x.keys = Keys(x)
    BY <2>1, <2>2, Zenon DEF Keys
  <2>4. Looking(x, {fs}) /\ Trying(x, {fs})
    BY <2>1, <2>3 DEF Looking, Trying
  <2> QED BY <2>1, <2>4 DEF x
<1>5. PICK ask \in Asks, t \in Held : \E x \in Arrived(r, ask, t) :
        \/ Become(r, x)
        \/ x.pc = "resolve" /\ Become(r, Refused(x, 502))
  BY DEF Arrive
<1>6. ASSUME NEW x \in Arrived(r, ask, t)
      PROVE  \/ \E status : x = Refused(Come(r, ask, t), status)
             \/ \E file \in FileOf(ask) : x = LetIn(Come(r, ask, t), ask, file)
  BY <1>6 DEF Arrived
<1>7. ASSUME NEW x \in Arrived(r, ask, t)
      PROVE  /\ Looking(x, {fs}) /\ Trying(x, {fs})
             /\ x.pc = "resolve" =>
                  Looking(Refused(x, 502), {fs}) /\ Trying(Refused(x, 502), {fs})
  <2>1. ASSUME NEW status, x = Refused(Come(r, ask, t), status)
        PROVE  Looking(x, {fs}) /\ Trying(x, {fs}) /\ x.pc # "resolve"
    <3>1. x.pc = "done"
      BY <1>2, <2>1 DEF Refused, Shaped
    <3>2. Looking(x, {fs}) /\ Trying(x, {fs})
      BY <1>2, <1>3, <2>1
    <3> QED BY <3>1, <3>2
  <2>2. ASSUME NEW file \in FileOf(ask), x = LetIn(Come(r, ask, t), ask, file)
        PROVE  /\ Looking(x, {fs}) /\ Trying(x, {fs})
               /\ Looking(Refused(x, 502), {fs}) /\ Trying(Refused(x, 502), {fs})
    <3>1. /\ Shaped(x) /\ x.looked = 1 /\ x.path = Nowhere
          /\ Looking(x, {fs}) /\ Trying(x, {fs})
      BY <1>2, <1>4, <2>2
    <3> QED BY <1>3, <3>1
  <2> QED BY <1>6, <2>1, <2>2
<1>8. PICK to : Become(r, to) /\ Looking(to, {fs}) /\ Trying(to, {fs})
  BY <1>5, <1>7
<1>9. past' = [past EXCEPT ![r] = {fs}]
  BY DEF Arrive
<1>10. ASSUME NEW q \in Requests PROVE Looking(req'[q], past'[q]) /\ Trying(req'[q], past'[q])
  <2>1. CASE q = r
    BY <1>8, <1>9, <2>1 DEF IInv, Become
  <2>2. CASE q # r
    <3>1. req'[q] = req[q] /\ past'[q] = past[q]
      BY <1>8, <1>9, <2>2 DEF IInv, Become
    <3> QED BY <3>1 DEF OrderInv
  <2> QED BY <2>1, <2>2
<1> QED BY <1>10 DEF OrderInv

(* Resolve goes past the candidates that would not do, and fails when none      *)
(* would (localfs/resolve.go:92-128).                                           *)
LEMMA ResolveIsFirst ==
  ASSUME NEW f, NEW resolver, Len(resolver.rules) \in Nat, NEW key
  PROVE  /\ \A path \in Resolve(f, resolver, key) :
              \E i \in Applicable(resolver, key) :
                /\ Within(f, Candidate(resolver, key, i))
                /\ path = Real(f, Candidate(resolver, key, i).path) /\ path # Nowhere
                /\ \A j \in Applicable(resolver, key) :
                     j < i => ~Within(f, Candidate(resolver, key, j))
         /\ Resolve(f, resolver, key) = {} =>
              \A i \in Applicable(resolver, key) : ~Within(f, Candidate(resolver, key, i))
<1> DEFINE found == {i \in Applicable(resolver, key) : Within(f, Candidate(resolver, key, i))}
           first == {i \in found : \A k \in found : i <= k}
<1>1. Resolve(f, resolver, key) = {Real(f, Candidate(resolver, key, i).path) : i \in first}
  BY DEF Resolve
<1>2. Applicable(resolver, key) \subseteq 1..(Len(resolver.rules) + 1)
  BY DEF Applicable
<1>3. ASSUME NEW path \in Resolve(f, resolver, key)
      PROVE  \E i \in Applicable(resolver, key) :
                /\ Within(f, Candidate(resolver, key, i))
                /\ path = Real(f, Candidate(resolver, key, i).path) /\ path # Nowhere
                /\ \A j \in Applicable(resolver, key) :
                     j < i => ~Within(f, Candidate(resolver, key, j))
  <2>1. PICK i \in first : path = Real(f, Candidate(resolver, key, i).path)
    BY <1>1, <1>3
  <2>2. path # Nowhere
    BY <2>1 DEF Within
  <2>3. ASSUME NEW j \in Applicable(resolver, key), j < i
        PROVE  ~Within(f, Candidate(resolver, key, j))
    <3>1. j \notin found
      BY <1>2, <2>1, <2>3
    <3> QED BY <3>1
  <2> QED BY <2>1, <2>2, <2>3
<1>4. ASSUME Resolve(f, resolver, key) = {}, found # {}
      PROVE  FALSE
  <2>1. found \in SUBSET (1..(Len(resolver.rules) + 1)) /\ Len(resolver.rules) + 1 \in Nat
    BY <1>2
  <2>2. PICK i \in found : \A k \in found : i <= k
    <3> HIDE DEF found
    <3> QED BY <1>4, <2>1, FirstPosition
  <2> QED BY <1>1, <1>4, <2>2
<1> QED BY <1>3, <1>4

LEMMA OneOrTwoKeys ==
  ASSUME NEW x
  PROVE  \E a, b : Keys(x) = <<a>> \/ Keys(x) = <<a, b>>
BY DEF Keys, KeysOf

LEMMA ResolveKeyOrdered ==
  ASSUME IInv, OrderInv, NEW r \in Requests, ResolveKey(r)
  PROVE  OrderInv'
<1> DEFINE x == req[r]
           K == Keys(x)
           found == Resolve(fs, x.cfg, Head(x.keys))
           places == Tried(x.cfg, K)
<1>1. /\ Running(r) /\ x.pc = "resolve" /\ UNCHANGED past
      /\ fs \in past[r] /\ Shaped(x) /\ x.out.at = "idle" /\ x.out.status = 0
      /\ Len(x.cfg.rules) \in Nat
      /\ x.path = Nowhere /\ x.looked = 1
      /\ Looking(x, past[r]) /\ Trying(x, past[r])
  BY RoutesAssumption DEF ResolveKey, Running, IInv, Good, OrderInv, Looking, Trying
<1>2. PICK n \in {1, 2} :
        /\ n \in DOMAIN K /\ Head(x.keys) = K[n]
        /\ Len(x.keys) = 1 \/ (n = 1 /\ Len(x.keys) = 2 /\ Tail(x.keys) = <<K[2]>> /\ Len(K) = 2)
        /\ Len(x.keys) = 1 => \A k \in DOMAIN K : k <= n
        /\ \A t \in places : t[1] < n => WouldNot(x, past[r], t)
        /\ DOMAIN K \subseteq {1, 2}
  <2>1. PICK a, b : K = <<a>> \/ K = <<a, b>>
    BY OneOrTwoKeys
  <2> HIDE DEF K
  <2>2. places = UNION {{k} \X Applicable(x.cfg, K[k]) : k \in DOMAIN K}
    BY DEF Tried
  <2>3. DOMAIN K \subseteq {1, 2} /\ \A t \in places : t[1] \in DOMAIN K
    BY <2>1, <2>2
  <2> HIDE DEF places
  <2>4. CASE x.keys = K
    <3>1. CASE K = <<a>>
      BY <2>3, <2>4, <3>1
    <3>2. CASE K = <<a, b>>
      BY <2>3, <2>4, <3>2
    <3> QED BY <2>1, <3>1, <3>2
  <2>5. CASE /\ Len(K) = 2 /\ x.keys = <<K[2]>>
             /\ \A t \in places : t[1] = 1 => WouldNot(x, past[r], t)
    <3>1. K = <<a, b>>
      BY <2>1, <2>5
    <3>2. \A t \in places : t[1] < 2 => t[1] = 1
      BY <2>3
    <3> QED BY <2>3, <2>5, <3>1, <3>2
  <2> QED BY <1>1, <2>4, <2>5 DEF Trying, K, places
<1>3. \A t : t \in places <=> \E k \in DOMAIN K : t \in {k} \X Applicable(x.cfg, K[k])
  BY DEF Tried
<1>5. \A y : y.ask = x.ask /\ y.cfg = x.cfg =>
        Keys(y) = K /\ \A t : WouldNot(x, past[r], t) => WouldNot(y, past[r], t)
  <2> SUFFICES ASSUME NEW y, y.ask = x.ask, y.cfg = x.cfg
               PROVE  Keys(y) = K /\ \A t : WouldNot(x, past[r], t) => WouldNot(y, past[r], t)
    OBVIOUS
  <2>1. Keys(y) = K
    BY SameKeys
  <2> QED BY <2>1 DEF WouldNot
<1>6. found = {} => \A t \in places : t[1] = n => WouldNot(x, past[r], t)
  <2> SUFFICES ASSUME found = {}, NEW t \in places, t[1] = n
               PROVE  WouldNot(x, past[r], t)
    OBVIOUS
  <2>1. t[2] \in Applicable(x.cfg, K[n])
    BY <1>3
  <2>2. ~Within(fs, Candidate(x.cfg, K[n], t[2]))
    BY <1>1, <1>2, <2>1, ResolveIsFirst
  <2> QED BY <1>1, <2>2 DEF WouldNot, Place
<1>7. ASSUME NEW path \in found, NEW pc \in {"find", "open"},
             Become(r, [At(r, pc) EXCEPT !.path = path])
      PROVE  OrderInv'
  <2> DEFINE y == [At(r, pc) EXCEPT !.path = path]
  <2>1. /\ y.pc = pc /\ y.path = path /\ y.looked = 1 /\ y.ask = x.ask /\ y.cfg = x.cfg
        /\ y.out.at = "idle" /\ y.out.status = 0
    BY <1>1 DEF At, Shaped
  <2> HIDE DEF y
  <2>2. PICK i \in Applicable(x.cfg, K[n]) :
          /\ Within(fs, Candidate(x.cfg, K[n], i))
          /\ path = Real(fs, Candidate(x.cfg, K[n], i).path) /\ path # Nowhere
          /\ \A j \in Applicable(x.cfg, K[n]) : j < i => ~Within(fs, Candidate(x.cfg, K[n], j))
    BY <1>1, <1>2, ResolveIsFirst
  <2> DEFINE t == <<n, i>>
  <2>3. t \in places
    BY <1>2, <1>3, <2>2
  <2>4. Keys(y) = K /\ \A s : WouldNot(x, past[r], s) => WouldNot(y, past[r], s)
    BY <1>5, <2>1
  <2>5. Would(y, past[r], t)
    BY <1>1, <2>1, <2>2, <2>4 DEF Would, Place
  <2>6. ASSUME NEW s \in places, TriedBefore(s, t)
        PROVE  WouldNot(y, past[r], s)
    <3>1. CASE s[1] < n
      BY <1>2, <2>4, <3>1
    <3>2. CASE s[1] = n /\ s[2] < i
      <4>1. s[2] \in Applicable(x.cfg, K[n])
        BY <1>3, <3>2
      <4>2. ~Within(fs, Place(x.cfg, K, s))
        BY <2>2, <3>2, <4>1 DEF Place
      <4>3. WouldNot(x, past[r], s)
        BY <1>1, <4>2 DEF WouldNot
      <4> QED BY <2>4, <4>3
    <3> QED BY <2>6, <3>1, <3>2 DEF TriedBefore
  <2>7. AtFirst(y, past[r])
    BY <2>1, <2>2, <2>3, <2>4, <2>5, <2>6 DEF AtFirst
  <2>8. Looking(y, past[r]) /\ Trying(y, past[r])
    BY <2>1, <2>7 DEF Looking, Trying
  <2> QED BY <1>1, <1>7, <2>8, OnlyOneOrdered DEF y
<1>8. ASSUME found = {}, Len(x.keys) > 1,
             Become(r, [At(r, "resolve") EXCEPT !.keys = Tail(x.keys)])
      PROVE  OrderInv'
  <2> DEFINE y == [At(r, "resolve") EXCEPT !.keys = Tail(x.keys)]
  <2>1. /\ y.pc = "resolve" /\ y.path = Nowhere /\ y.looked = 1 /\ y.ask = x.ask /\ y.cfg = x.cfg
        /\ y.out.at = "idle" /\ y.out.status = 0 /\ y.keys = Tail(x.keys)
    BY <1>1 DEF At, Shaped
  <2> HIDE DEF y
  <2>2. n = 1 /\ y.keys = <<K[2]>> /\ Len(K) = 2
    <3> HIDE DEF x, K
    <3>1. Len(x.keys) > 1
      BY <1>8
    <3>2. ASSUME NEW m, m > 1 PROVE m # 1
      BY <3>2
    <3>3. Len(x.keys) # 1
      BY <3>1, <3>2
    <3> QED BY <1>2, <2>1, <3>3, Zenon
  <2>3. Keys(y) = K /\ \A s : WouldNot(x, past[r], s) => WouldNot(y, past[r], s)
    BY <1>5, <2>1
  <2>4. \A t \in Tried(y.cfg, Keys(y)) : t[1] = 1 => WouldNot(y, past[r], t)
    BY <1>6, <1>8, <2>1, <2>2, <2>3
  <2>5. Len(Keys(y)) = 2 /\ y.keys = <<Keys(y)[2]>>
    BY <2>2, <2>3, Zenon
  <2>6. Trying(y, past[r])
    BY <2>1, <2>4, <2>5, Zenon DEF Trying
  <2>7. Looking(y, past[r])
    BY <2>1 DEF Looking
  <2> QED BY <1>1, <1>8, <2>6, <2>7, OnlyOneOrdered DEF y
<1>9. ASSUME found = {}, Len(x.keys) = 1, Become(r, Ended(r, 502))
      PROVE  OrderInv'
  <2> DEFINE y == Ended(r, 502)
  <2>1. /\ y.pc = "done" /\ y.out.at = "resolve" /\ y.out.status = 502
        /\ y.path = Nowhere /\ y.looked = 1 /\ y.ask = x.ask /\ y.cfg = x.cfg
    BY <1>1, EndedFields, EndedKeeps
  <2> HIDE DEF y
  <2>2. Keys(y) = K /\ \A s : WouldNot(x, past[r], s) => WouldNot(y, past[r], s)
    BY <1>5, <2>1
  <2>3. \A t \in places : WouldNot(y, past[r], t)
    <3> SUFFICES ASSUME NEW t \in places PROVE WouldNot(y, past[r], t)
      OBVIOUS
    <3>1. t[1] \in DOMAIN K
      BY <1>3
    <3>2. t[1] < n \/ t[1] = n
      BY <1>2, <1>9, <3>1
    <3> QED BY <1>2, <1>6, <1>9, <2>2, <3>2
  <2>4. AtFirst(y, past[r])
    BY <2>1, <2>2, <2>3 DEF AtFirst
  <2>5. Looking(y, past[r]) /\ Trying(y, past[r])
    BY <2>1, <2>4 DEF Looking, Trying
  <2> QED BY <1>1, <1>9, <2>5, OnlyOneOrdered DEF y
<1> QED BY <1>7, <1>8, <1>9 DEF ResolveKey

LEMMA OpenOrdered ==
  ASSUME IInv, OrderInv, NEW r \in Requests, Open(r)
  PROVE  OrderInv'
<1>1. Running(r) /\ req[r].pc = "open" /\ UNCHANGED past
  BY DEF Open, Running
<1>2. \/ Become(r, Opened(r, req[r].path, "none"))
      \/ Become(r, Ended(r, 500))
  BY DEF Open
<1> QED BY <1>1, <1>2, EndedOrdered, ServedOrdered, OnlyOneOrdered DEF Opened

LEMMA FindOrdered ==
  ASSUME IInv, OrderInv, NEW r \in Requests, Find(r)
  PROVE  OrderInv'
<1> DEFINE x == req[r]
<1>1. /\ Running(r) /\ x.pc = "find" /\ UNCHANGED past
      /\ Shaped(x) /\ fs \in past[r] /\ x.out.at = "idle" /\ x.out.status = 0
      /\ Looking(x, past[r]) /\ Trying(x, past[r])
      /\ x.looked \in Nat \ {0} /\ Len(Sidecars) \in Nat
  BY RoutesAssumption DEF Find, Running, IInv, Good, OrderInv, Looking
<1>2. CASE Become(r, At(r, "stat"))
  <2> DEFINE y == At(r, "stat")
  <2>1. y.pc = "stat" /\ y.out = x.out /\ y.path = x.path /\ y.looked = x.looked
    BY <1>1 DEF At, Shaped
  <2> HIDE DEF y
  <2>2. Looking(y, past[r]) /\ Trying(y, past[r])
    BY <1>1, <2>1, GoesOnOrdered
  <2> QED BY <1>1, <1>2, <2>2, OnlyOneOrdered DEF y
<1>3. CASE /\ ~Embedded(r) /\ ~IsFile(fs, SidecarAt(r))
           /\ Become(r, [req[r] EXCEPT !.looked = req[r].looked + 1])
  <2> DEFINE y == [req[r] EXCEPT !.looked = req[r].looked + 1]
  <2>1. /\ y.pc = "find" /\ y.out = x.out /\ y.path = x.path /\ y.looked = x.looked + 1
        /\ y.ask = x.ask /\ y.cfg = x.cfg
    BY <1>1 DEF Shaped
  <2> HIDE DEF y
  <2>2. \A i : Lacked(x, past[r], i) => Lacked(y, past[r], i)
    BY <2>1 DEF Lacked
  <2>3. Lacked(y, past[r], x.looked)
    BY <1>1, <1>3, <2>1 DEF Lacked, SidecarAt
  <2>4. ASSUME NEW i \in 1..Len(Sidecars), i < y.looked
        PROVE  Lacked(y, past[r], i)
    <3>1. i < x.looked \/ i = x.looked
      BY <1>1, <2>1, <2>4
    <3> QED BY <1>1, <2>2, <2>3, <3>1 DEF Looking
  <2>5. AtFirst(y, past[r])
    BY <1>1, <2>1, SamePlaces DEF Trying
  <2>6. Looking(y, past[r]) /\ Trying(y, past[r])
    BY <1>1, <2>1, <2>4, <2>5 DEF Looking, Trying
  <2> QED BY <1>1, <1>3, <2>6, OnlyOneOrdered DEF y
<1> QED BY <1>2, <1>3 DEF Find

LEMMA StatOrdered ==
  ASSUME IInv, OrderInv, NEW r \in Requests, Stat(r)
  PROVE  OrderInv'
<1>1. /\ Running(r) /\ req[r].pc = "stat" /\ UNCHANGED past /\ Shaped(req[r])
  BY DEF Stat, Running, IInv, Good
<1> DEFINE x(pc) == [At(r, pc) EXCEPT !.stat = StampAt(fs, Source(r))]
<1>2. ASSUME NEW pc \in {"extract", "read", "resize"}, pc = "extract" => Embedded(r),
             Become(r, x(pc))
      PROVE  OrderInv'
  <2>1. /\ x(pc).pc = pc /\ x(pc).out = req[r].out
        /\ x(pc).path = req[r].path /\ x(pc).looked = req[r].looked
    BY <1>1 DEF At, Shaped
  <2>2. pc = "extract" => req[r].looked > Len(Sidecars)
    BY <1>2 DEF Embedded
  <2> HIDE DEF x
  <2>3. Looking(x(pc), past[r]) /\ Trying(x(pc), past[r])
    BY <1>1, <2>1, <2>2, GoesOnOrdered
  <2> QED BY <1>1, <1>2, <2>3, OnlyOneOrdered
<1>3. \/ Become(r, Ended(r, 502))
      \/ \E pc \in {"extract", "read", "resize"} :
           (pc = "extract" => Embedded(r)) /\ Become(r, x(pc))
  BY DEF Stat
<1> HIDE DEF x
<1> QED BY <1>1, <1>2, <1>3, EndedOrdered, OnlyOneOrdered

LEMMA ReadOrdered ==
  ASSUME IInv, OrderInv, NEW r \in Requests, Read(r)
  PROVE  OrderInv'
<1>1. Running(r) /\ req[r].pc = "read" /\ UNCHANGED past
  BY DEF Read, Running
<1>2. \/ Become(r, Opened(r, Source(r), "original"))
      \/ Become(r, Ended(r, 502))
  BY DEF Read
<1> QED BY <1>1, <1>2, EndedOrdered, ServedOrdered, OnlyOneOrdered DEF Opened

LEMMA ExtractOrdered ==
  ASSUME IInv, OrderInv, NEW r \in Requests, Extract(r)
  PROVE  OrderInv'
<1>1. /\ Running(r) /\ req[r].pc = "extract" /\ UNCHANGED past /\ Shaped(req[r])
      /\ fs \in past[r] /\ req[r].looked > Len(Sidecars)
  BY DEF Extract, Running, IInv, Good, OrderInv, Looking
<1>2. CASE Become(r, At(r, "resize"))
  <2> DEFINE y == At(r, "resize")
  <2>1. /\ y.pc = "resize" /\ y.out = req[r].out
        /\ y.path = req[r].path /\ y.looked = req[r].looked
    BY <1>1 DEF At, Shaped
  <2> HIDE DEF y
  <2>2. Looking(y, past[r]) /\ Trying(y, past[r])
    BY <1>1, <2>1, GoesOnOrdered
  <2> QED BY <1>1, <1>2, <2>2, OnlyOneOrdered DEF y
<1>3. CASE \E key : Become(r, ServedFrom(r, key))
  BY <1>1, <1>3, ServedOrdered, OnlyOneOrdered DEF ServedFrom
<1>4. CASE Become(r, Ended(r, 502))
  BY <1>1, <1>4, EndedOrdered, OnlyOneOrdered
<1>5. CASE IsFile(fs, req[r].path) /\ ~FileAt(fs, req[r].path).picture /\ Become(r, Ended(r, 404))
  BY <1>1, <1>5, EndedOrdered, OnlyOneOrdered
<1> QED BY <1>2, <1>3, <1>4, <1>5 DEF Extract, IsFile

LEMMA ResizeOrdered ==
  ASSUME IInv, OrderInv, NEW r \in Requests, Resize(r)
  PROVE  OrderInv'
<1>1. Running(r) /\ req[r].pc = "resize" /\ UNCHANGED past
  BY DEF Resize, Running
<1>2. Become(r, Ended(r, 502)) \/ \E key : Become(r, ServedFrom(r, key))
  BY DEF Resize
<1> QED BY <1>1, <1>2, EndedOrdered, ServedOrdered, OnlyOneOrdered DEF ServedFrom

LEMMA ChangeOrdered ==
  ASSUME IInv, OrderInv, Change
  PROVE  OrderInv'
<1> SUFFICES ASSUME NEW r \in Requests
             PROVE  Looking(req'[r], past'[r]) /\ Trying(req'[r], past'[r])
  BY DEF OrderInv
<1>1. past[r] \subseteq past'[r] /\ req' = req
  BY DEF Change
<1> QED BY <1>1, MoreMoments DEF OrderInv

LEMMA StepOrdered == IInv /\ OrderInv /\ [Next]_vars => OrderInv'
<1> SUFFICES ASSUME IInv, OrderInv, [Next]_vars PROVE OrderInv'
  OBVIOUS
<1>1. ASSUME NEW r \in Requests,
             \/ Arrive(r) \/ ResolveKey(r) \/ Open(r)
             \/ Find(r) \/ Stat(r) \/ Read(r) \/ Extract(r) \/ Resize(r)
      PROVE  OrderInv'
  BY <1>1, ArriveOrdered, ResolveKeyOrdered, OpenOrdered, FindOrdered, StatOrdered,
     ReadOrdered, ExtractOrdered, ResizeOrdered
<1>2. CASE Change
  BY <1>2, ChangeOrdered
<1>3. CASE UNCHANGED <<req, past>>
  <2>1. req' = req /\ past' = past
    BY <1>3
  <2> QED BY <2>1 DEF OrderInv
<1>4. Save \/ Rotate \/ UNCHANGED vars => UNCHANGED <<req, past>>
  BY DEF Save, Rotate, vars
<1> QED BY <1>1, <1>2, <1>3, <1>4 DEF Next

----
(* For any books, trees, changes and configurations, a cover comes from the     *)
(* first of its sources, and is missing only if there was none.                 *)
THEOREM CoversFromTheFirstSource == Spec => []SourcesInOrder
<1>1. ASSUME OrderInv
      PROVE  SourcesInOrder
  <2> SUFFICES ASSUME NEW r \in Requests, req[r].out.at \in {"read", "extract", "resize"},
                      req[r].out.status \in {200, 404}
               PROVE  LET out == req[r].out
                          beside == [i \in 1..Len(Sidecars) |-> Dir(req[r].path) \o <<Sidecars[i]>>]
                          before == {i \in DOMAIN beside : \A j \in 1..i : beside[j] # out.path}
                      IN /\ \A i \in before : \E f \in past[r] : ~IsFile(f, beside[i])
                         /\ out.status = 404 =>
                              \E f \in past[r] : IsFile(f, req[r].path) /\ ~FileAt(f, req[r].path).picture
    BY Zenon DEF SourcesInOrder
  <2>1. FromFirst(req[r], past[r])
    BY <1>1 DEF OrderInv, Looking
  <2> QED BY <2>1, ZenonT(40) DEF FromFirst, Lacked
<1> QED BY <1>1, InitGood, StepGood, InitOrdered, StepOrdered, PTL DEF Spec

(* A request goes on with the first place that would do, over all its keys and  *)
(* all rules, and gives up only if none would.                                  *)
THEOREM ResolvesToTheFirst == Spec => []FirstThatWillDo
<1>1. OrderInv => FirstThatWillDo
  BY DEF OrderInv, Trying, AtFirst, Would, WouldNot, Keys, FirstThatWillDo
<1> QED BY <1>1, InitGood, StepGood, InitOrdered, StepOrdered, PTL DEF Spec

----
(* Where a path leads                                                           *)

(* The trees that may come about, but for the files' times.                     *)
MayBe(f) ==
  \A p \in DOMAIN f : \E n \in NodesAt(p) :
    f[p].type = n.type /\ (n.type = "link" => f[p].to = n.to)

(* EvalSymlinks' walk along a path.                                             *)
Steps(f, path) ==
  CHOOSE walk : walk = [n \in 0..MaxSteps |->
    IF n = 0 THEN [at |-> <<>>, left |-> path] ELSE Walk(f, walk[n - 1])]

LEMMA RealEndsSteps ==
  ASSUME NEW f, NEW path
  PROVE  Real(f, path) = IF Steps(f, path)[MaxSteps].left = <<>>
                         THEN Steps(f, path)[MaxSteps].at ELSE Nowhere
BY DEF Real, Steps

(* The first of the numbers up to n that are in a set.                          *)
LEMMA FirstNumber ==
  ASSUME NEW n \in Nat, NEW M \in SUBSET (0..n), M # {}
  PROVE  \E i \in M : \A j \in M : i <= j
<1> DEFINE N == {i \in 1..(n + 1) : i - 1 \in M}
<1>0. PICK m \in Nat : m = n + 1
  OBVIOUS
<1>1. N \in SUBSET (1..m) /\ \A i \in M : i \in Nat /\ i + 1 \in N
  BY <1>0
<1>2. N # {}
  BY <1>1
<1> HIDE DEF N
<1>3. PICK i \in N : \A j \in N : i <= j
  BY <1>1, <1>2, FirstPosition
<1>4. i - 1 \in M /\ i \in Nat
  BY <1>1, <1>3 DEF N
<1>5. ASSUME NEW j \in M PROVE i - 1 <= j
  <2>1. j \in Nat /\ i <= j + 1
    BY <1>1, <1>3
  <2> QED BY <1>4, <2>1
<1> QED BY <1>4, <1>5

LEMMA StepsFollow ==
  ASSUME NEW f, NEW path
  PROVE  /\ Steps(f, path)[0] = [at |-> <<>>, left |-> path]
         /\ \A n \in 1..MaxSteps : Steps(f, path)[n] = Walk(f, Steps(f, path)[n - 1])
<1> DEFINE start == [at |-> <<>>, left |-> path]
           Along(walk, k) ==
             walk = [n \in 0..k |-> IF n = 0 THEN start ELSE Walk(f, walk[n - 1])]
           Stray == {k \in 0..MaxSteps : ~\E walk : Along(walk, k)}
<1>0. MaxSteps \in Nat
  BY PathAssumption
<1>1. Stray = {}
  <2> SUFFICES ASSUME Stray # {} PROVE FALSE
    OBVIOUS
  <2>1. PICK k \in Stray : \A j \in Stray : k <= j
    <3>1. Stray \in SUBSET (0..MaxSteps)
      OBVIOUS
    <3> HIDE DEF Stray
    <3> QED BY <1>0, <3>1, FirstNumber
  <2>2. k \in 0..MaxSteps /\ ~\E walk : Along(walk, k)
    OBVIOUS
  <2>3. CASE k = 0
    <3>1. Along([n \in 0..k |-> start], k)
      BY <2>3
    <3> QED BY <2>2, <3>1
  <2>4. CASE k # 0
    <3>1. k - 1 \in 0..MaxSteps /\ k - 1 \notin Stray
      <4>1. k \in Nat /\ k - 1 \in 0..MaxSteps /\ ~(k <= k - 1)
        BY <1>0, <2>2, <2>4
      <4> HIDE DEF Stray
      <4> QED BY <2>1, <4>1
    <3>2. PICK walk : Along(walk, k - 1)
      BY <3>1
    <3> DEFINE longer == [n \in 0..k |-> IF n = k THEN Walk(f, walk[k - 1]) ELSE walk[n]]
    <3>3. \A n \in 0..(k - 1) : walk[n] = IF n = 0 THEN start ELSE Walk(f, walk[n - 1])
      BY <3>2, Zenon
    <3>4. \A n \in 0..k : longer[n] = IF n = 0 THEN start ELSE Walk(f, longer[n - 1])
      <4> TAKE n \in 0..k
      <4>1. CASE n = k
        BY <1>0, <2>2, <2>4, <4>1
      <4>2. CASE n # k
        <5>1. n \in 0..(k - 1) /\ (n # 0 => n - 1 \in 0..k /\ n - 1 # k)
          BY <1>0, <2>2, <2>4, <4>2
        <5> QED BY <3>3, <4>2, <5>1
      <4> QED BY <4>1, <4>2
    <3>5. Along(longer, k)
      BY <3>4, Zenon
    <3> QED BY <2>2, <3>5, Zenon
  <2> QED BY <2>3, <2>4
<1>2. \E walk : Along(walk, MaxSteps)
  <2>1. MaxSteps \in 0..MaxSteps
    BY <1>0
  <2>2. MaxSteps \notin Stray
    BY <1>1
  <2> HIDE DEF Along
  <2> QED BY <2>1, <2>2
<1>3. Along(Steps(f, path), MaxSteps)
  BY <1>2, Zenon DEF Steps
<1> DEFINE s == Steps(f, path)
<1>4. \A n \in 0..MaxSteps : s[n] = IF n = 0 THEN start ELSE Walk(f, s[n - 1])
  BY <1>3, Zenon
<1> HIDE DEF s
<1> QED BY <1>0, <1>4 DEF s

----
(* The file that is opened                                                      *)

(* Every path above a place, and the place itself, is a folder or a file.       *)
Straight(f, path) ==
  /\ \E S : path \in Seq(S)
  /\ \A n \in 1..Len(path) : Node(f, SubSeq(path, 1, n)).type \in {"dir", "file"}

LEMMA NodeKind ==
  ASSUME NEW f, MayBe(f), NEW p
  PROVE  Node(f, p).type \in Kinds
<1>1. CASE p \in DOMAIN f
  <2>1. PICK n \in NodesAt(p) : f[p].type = n.type
    BY <1>1 DEF MayBe
  <2>2. n.type \in Kinds
    BY RoutesAssumption DEF NodesAt
  <2> QED BY <1>1, <2>1, <2>2 DEF Node, Kinds
<1>2. CASE p \notin DOMAIN f
  BY <1>2 DEF Node, Kinds
<1> QED BY <1>1, <1>2

LEMMA RootIsStraight ==
  ASSUME NEW f
  PROVE  Straight(f, <<>>)
<1>1. <<>> \in Seq({}) /\ Len(<<>>) = 0
  OBVIOUS
<1> QED BY <1>1 DEF Straight

(* A walk goes by way of links, but where it is, it has come down from the root *)
(* since the last of them.                                                      *)
LEMMA WalkIsStraight ==
  ASSUME NEW f, MayBe(f), NEW w, Straight(f, w.at)
  PROVE  Straight(f, Walk(f, w).at)
<1> DEFINE next == Append(w.at, Head(w.left))
<1>0. Node(f, next).type \in {"none", "dir", "file", "link"}
  BY NodeKind DEF Kinds
<1>1. CASE Walk(f, w) = w
  BY <1>1
<1>2. CASE Walk(f, w).at = <<>>
  BY <1>2, RootIsStraight
<1>3. CASE Walk(f, w).at = next /\ Node(f, next).type \in {"dir", "file"}
  <2>1. PICK S : w.at \in Seq(S)
    BY DEF Straight
  <2>2. PICK T : T = S \cup {Head(w.left)}
    OBVIOUS
  <2>3. PICK at \in Seq(T), e \in T : at = w.at /\ e = Head(w.left)
    BY <2>1, <2>2
  <2>4. /\ Append(at, e) \in Seq(T) /\ Len(Append(at, e)) = Len(at) + 1 /\ Len(at) \in Nat
        /\ \A n \in 1..Len(at) : Append(at, e)[n] = at[n]
    BY <2>3, AppendProperties, LenProperties
  <2>5. \A n \in 1..Len(at) : SubSeq(Append(at, e), 1, n) = SubSeq(at, 1, n)
    BY <2>3, <2>4
  <2>6. SubSeq(Append(at, e), 1, Len(at) + 1) = Append(at, e)
    BY <2>3, <2>4
  <2>7. \A n \in 1..(Len(at) + 1) :
          Node(f, SubSeq(Append(at, e), 1, n)).type \in {"dir", "file"}
    <3> SUFFICES ASSUME NEW n \in 1..(Len(at) + 1)
                 PROVE  Node(f, SubSeq(Append(at, e), 1, n)).type \in {"dir", "file"}
      OBVIOUS
    <3>1. CASE n \in 1..Len(at)
      BY <2>3, <2>5, <3>1 DEF Straight
    <3>2. CASE n = Len(at) + 1
      BY <1>3, <2>3, <2>6, <3>2
    <3> QED BY <2>4, <3>1, <3>2
  <2> QED BY <1>3, <2>3, <2>4, <2>7 DEF Straight
<1>4. \/ Walk(f, w) = w \/ Walk(f, w).at = <<>>
      \/ Walk(f, w).at = next /\ Node(f, next).type \in {"dir", "file"}
  <2>1. CASE w.left = <<>>
    BY <2>1 DEF Walk
  <2>2. CASE w.left # <<>>
    BY <1>0, <2>2 DEF Walk
  <2> QED BY <2>1, <2>2
<1> QED BY <1>1, <1>2, <1>3, <1>4

LEMMA RealIsStraight ==
  ASSUME NEW f, MayBe(f), NEW path, Real(f, path) # Nowhere
  PROVE  Straight(f, Real(f, path))
<1> DEFINE a == Steps(f, path)
           Crooked == {n \in 0..MaxSteps : ~Straight(f, a[n].at)}
<1>0. MaxSteps \in Nat
  BY PathAssumption
<1>1. /\ a[0].at = <<>>
      /\ \A n \in 1..MaxSteps : a[n] = Walk(f, a[n - 1])
  <2>1. /\ a[0] = [at |-> <<>>, left |-> path]
        /\ \A n \in 1..MaxSteps : a[n] = Walk(f, a[n - 1])
    BY StepsFollow
  <2> HIDE DEF a
  <2> QED BY <2>1
<1>2. Real(f, path) = a[MaxSteps].at
  BY RealEndsSteps, Zenon
<1> HIDE DEF a
<1>3. Crooked = {}
  <2> SUFFICES ASSUME Crooked # {} PROVE FALSE
    OBVIOUS
  <2>1. PICK k \in Crooked : \A j \in Crooked : k <= j
    <3>1. Crooked \in SUBSET (0..MaxSteps)
      OBVIOUS
    <3> HIDE DEF Crooked
    <3> QED BY <1>0, <3>1, FirstNumber
  <2>2. k \in 0..MaxSteps /\ ~Straight(f, a[k].at)
    OBVIOUS
  <2>3. k # 0
    BY <1>1, <2>2, RootIsStraight
  <2>4. k \in 1..MaxSteps /\ k - 1 \in 0..MaxSteps /\ ~(k <= k - 1)
    BY <1>0, <2>2, <2>3
  <2>5. Straight(f, a[k - 1].at)
    BY <2>1, <2>4
  <2> QED BY <1>1, <2>2, <2>4, <2>5, WalkIsStraight
<1> QED BY <1>0, <1>2, <1>3

NoLinkOn(f, path) ==
  \A n \in 1..Len(path) : Node(f, SubSeq(path, 1, n)).type # "link"

(* A walk is on its path: it has gone down by some of its names.                *)
OnPath(path, w) ==
  \E k \in 0..Len(path) : w.at = SubSeq(path, 1, k) /\ w.left = SubSeq(path, k + 1, Len(path))

(* A walk along a path that has no link on it only goes down.                   *)
LEMMA WalkGoesDown ==
  ASSUME NEW f, MayBe(f), NEW S, NEW path \in Seq(S), NoLinkOn(f, path),
         NEW w, OnPath(path, w)
  PROVE  OnPath(path, Walk(f, w))
<1> DEFINE next == Append(w.at, Head(w.left))
<1>k. PICK k \in 0..Len(path) :
        w.at = SubSeq(path, 1, k) /\ w.left = SubSeq(path, k + 1, Len(path))
  BY DEF OnPath
<1>0. Len(path) \in Nat /\ k \in Nat
  OBVIOUS
<1>1. CASE w.left = <<>>
  BY <1>1 DEF Walk
<1>2. CASE w.left # <<>>
  <2>1. k + 1 \in 1..Len(path)
    BY <1>0, <1>k, <1>2
  <2>2. next = SubSeq(path, 1, k + 1)
    BY <1>0, <1>k, <2>1
  <2>3. Tail(w.left) = SubSeq(path, k + 2, Len(path))
    BY <1>0, <1>k, <2>1
  <2>4. Node(f, next).type \in {"none", "dir", "file"}
    BY <2>1, <2>2, NodeKind DEF Kinds, NoLinkOn
  <2>5. Walk(f, w) = w \/ Walk(f, w) = [at |-> next, left |-> Tail(w.left)]
    BY <1>2, <2>4 DEF Walk
  <2> HIDE DEF next
  <2>6. CASE Walk(f, w) = w
    BY <2>6
  <2>7. CASE Walk(f, w) = [at |-> next, left |-> Tail(w.left)]
    <3>1. /\ k + 1 \in 0..Len(path) /\ k + 1 + 1 = k + 2
          /\ Walk(f, w).at = next /\ Walk(f, w).left = Tail(w.left)
      BY <1>0, <2>1, <2>7
    <3> QED BY <2>2, <2>3, <3>1 DEF OnPath
  <2> QED BY <2>5, <2>6, <2>7
<1> QED BY <1>1, <1>2

(* Such a path leads to itself, if it leads anywhere.                           *)
LEMMA RealOfStraight ==
  ASSUME NEW f, MayBe(f), NEW S, NEW path \in Seq(S), NoLinkOn(f, path)
  PROVE  Real(f, path) \in {path, Nowhere}
<1> DEFINE a == Steps(f, path)
           Astray == {n \in 0..MaxSteps : ~OnPath(path, a[n])}
<1>0. MaxSteps \in Nat /\ Len(path) \in Nat
  BY PathAssumption
<1>1. /\ a[0] = [at |-> <<>>, left |-> path]
      /\ \A n \in 1..MaxSteps : a[n] = Walk(f, a[n - 1])
  BY StepsFollow
<1>2. Real(f, path) = IF a[MaxSteps].left = <<>> THEN a[MaxSteps].at ELSE Nowhere
  BY RealEndsSteps, Zenon
<1> HIDE DEF a
<1>3. Astray = {}
  <2> SUFFICES ASSUME Astray # {} PROVE FALSE
    OBVIOUS
  <2>1. PICK k \in Astray : \A j \in Astray : k <= j
    <3>1. Astray \in SUBSET (0..MaxSteps)
      OBVIOUS
    <3> HIDE DEF Astray
    <3> QED BY <1>0, <3>1, FirstNumber
  <2>2. k \in 0..MaxSteps /\ ~OnPath(path, a[k])
    OBVIOUS
  <2>3. k # 0
    <3>1. SubSeq(path, 1, 0) = <<>> /\ SubSeq(path, 0 + 1, Len(path)) = path /\ 0 \in 0..Len(path)
      BY <1>0
    <3>2. a[0].at = SubSeq(path, 1, 0) /\ a[0].left = SubSeq(path, 0 + 1, Len(path))
      BY <1>1, <3>1
    <3>3. OnPath(path, a[0])
      BY <3>1, <3>2, Zenon DEF OnPath
    <3> QED BY <2>2, <3>3
  <2>4. k \in 1..MaxSteps /\ k - 1 \in 0..MaxSteps /\ ~(k <= k - 1)
    BY <1>0, <2>2, <2>3
  <2>5. OnPath(path, a[k - 1])
    BY <2>1, <2>4
  <2>6. OnPath(path, a[k])
    BY <1>1, <2>4, <2>5, WalkGoesDown
  <2> QED BY <2>2, <2>6
<1>4. PICK m \in 0..Len(path) : /\ a[MaxSteps].at = SubSeq(path, 1, m)
                                /\ a[MaxSteps].left = SubSeq(path, m + 1, Len(path))
  BY <1>0, <1>3 DEF OnPath
<1>5. CASE m = Len(path)
  <2>1. SubSeq(path, 1, m) = path
    BY <1>0, <1>5
  <2>2. Real(f, path) = path \/ Real(f, path) = Nowhere
    BY <1>2, <1>4, <2>1, Zenon
  <2> QED BY <2>2
<1>6. CASE m # Len(path)
  <2>1. SubSeq(path, m + 1, Len(path)) # <<>>
    <3>1. Len(SubSeq(path, m + 1, Len(path))) = Len(path) - m /\ Len(path) - m # 0
      BY <1>0, <1>6
    <3> QED BY <3>1
  <2>2. Real(f, path) = Nowhere
    BY <1>2, <1>4, <2>1
  <2> QED BY <2>2
<1> QED BY <1>5, <1>6

(* Whatever becomes of the tree, there is no link on the path, so that it leads *)
(* to itself or nowhere.                                                        *)
Linkless(path) ==
  /\ \E S : path \in Seq(S)
  /\ \A f : MayBe(f) => NoLinkOn(f, path)

LEMMA LinklessIsFixed ==
  ASSUME NEW f, MayBe(f), NEW path, Linkless(path)
  PROVE  Real(f, path) \in {path, Nowhere}
<1>1. PICK S : path \in Seq(S)
  BY DEF Linkless
<1>2. NoLinkOn(f, path)
  BY DEF Linkless
<1> QED BY <1>1, <1>2, RealOfStraight

LEMMA KindsKeepLinks == KindsStay => LinksStay
BY DEF KindsStay, LinksStay

(* A path that EvalSymlinks has returned is such a path, where links stay links.*)
LEMMA RealIsLinkless ==
  ASSUME LinksStay, NEW f, MayBe(f), NEW path, Real(f, path) # Nowhere
  PROVE  Linkless(Real(f, path))
<1> DEFINE real == Real(f, path)
<1>1. Straight(f, real)
  BY RealIsStraight
<1> HIDE DEF real
<1>2. ASSUME NEW g, MayBe(g), NEW p, Node(f, p).type \in {"dir", "file"}
      PROVE  Node(g, p).type # "link"
  <2>1. SUFFICES ASSUME Node(g, p).type = "link" PROVE FALSE
    OBVIOUS
  <2>2. p # <<>> /\ p \in DOMAIN f /\ p \in DOMAIN g /\ Node(f, p) = f[p] /\ Node(g, p) = g[p]
    BY <1>2, <2>1 DEF Node
  <2>3. PICK m \in NodesAt(p) : g[p].type = m.type
    BY <1>2, <2>2 DEF MayBe
  <2>4. PICK n \in NodesAt(p) : f[p].type = n.type
    BY <2>2 DEF MayBe
  <2>5. p \in Paths \cup DOMAIN Changes
    BY <2>3 DEF NodesAt, Paths
  <2> QED BY <1>2, <2>1, <2>2, <2>3, <2>4, <2>5 DEF LinksStay
<1>3. ASSUME NEW g, MayBe(g) PROVE NoLinkOn(g, real)
  BY <1>1, <1>2, <1>3 DEF Straight, NoLinkOn
<1> QED BY <1>1, <1>3 DEF Linkless, Straight, real

(* The paths of a request that has resolved its key have no links. What was     *)
(* opened stands where the path was resolved to. The tree is one that may be.   *)
Resolved == {"open", "find", "stat", "read", "extract", "resize"}

LinkInv ==
  /\ MayBe(fs)
  /\ \A r \in Requests :
       /\ req[r].pc \in Resolved => Linkless(req[r].path)
       /\ req[r].out.status = 200 /\ req[r].out.at = "open" => req[r].out.opened = req[r].out.path

LEMMA InitLinked == Init => LinkInv
<1> SUFFICES ASSUME Init PROVE LinkInv
  OBVIOUS
<1>1. MayBe(fs)
  BY DEF Init, MayBe, NodesAt
<1>2. ASSUME NEW r \in Requests PROVE req[r].pc = "idle" /\ req[r].out.status = 0
  BY DEF Init, NoAnswer
<1> QED BY <1>1, <1>2 DEF LinkInv, Resolved

LEMMA ChangeMayBe ==
  ASSUME MayBe(fs), Change
  PROVE  MayBe(fs')
<1>1. PICK path \in DOMAIN Changes : \E node \in Changes[path] :
        fs' = [fs EXCEPT ![path] =
                 IF node.type = "file"
                 THEN [type |-> "file", picture |-> node.picture, stamp |-> clock + 1]
                 ELSE node]
  BY DEF Change
<1>2. PICK node \in Changes[path] :
        fs' = [fs EXCEPT ![path] =
                 IF node.type = "file"
                 THEN [type |-> "file", picture |-> node.picture, stamp |-> clock + 1]
                 ELSE node]
  BY <1>1
<1> DEFINE new == IF node.type = "file"
                  THEN [type |-> "file", picture |-> node.picture, stamp |-> clock + 1]
                  ELSE node
<1>3. /\ DOMAIN fs' = DOMAIN fs
      /\ \A p \in DOMAIN fs : fs'[p] = IF p = path THEN new ELSE fs[p]
  BY <1>2
<1>4. new.type = node.type /\ (node.type = "link" => new.to = node.to)
  OBVIOUS
<1> HIDE DEF new
<1>5. node \in NodesAt(path)
  BY DEF NodesAt
<1> QED BY <1>3, <1>4, <1>5 DEF MayBe

(* A step of one request that opens nothing. *)
LEMMA OnlyOneLinked ==
  ASSUME IInv, LinkInv, NEW r \in Requests, NEW to, Become(r, to), UNCHANGED fs,
         to.pc \in Resolved => Linkless(to.path),
         to.out.status = 200 /\ to.out.at = "open" => to.out.opened = to.out.path
  PROVE  LinkInv'
<1>1. \A q \in Requests : req'[q] = IF q = r THEN to ELSE req[q]
  BY DEF IInv, Become
<1>2. MayBe(fs')
  BY DEF LinkInv
<1> QED BY <1>1, <1>2 DEF LinkInv

LEMMA ArriveLinked ==
  ASSUME IInv, LinkInv, NEW r \in Requests, Arrive(r)
  PROVE  LinkInv'
<1>1. UNCHANGED fs /\ Good(req[r], past[r], fs) /\ req[r].pc = "idle"
  BY DEF Arrive, IInv
<1>2. PICK ask \in Asks, t \in Held : \E x \in Arrived(r, ask, t) :
        \/ Become(r, x)
        \/ Become(r, Refused(x, 502))
  BY DEF Arrive
<1>3. PICK x \in Arrived(r, ask, t) : Become(r, x) \/ Become(r, Refused(x, 502))
  BY <1>2
<1> DEFINE come == Come(r, ask, t)
<1>4. Shaped(come) /\ come.out.status = 0 /\ come.out.at = "idle"
  BY <1>1, ComeFields
<1>5. \/ \E status : x = Refused(come, status)
      \/ \E file : x = LetIn(come, ask, file)
  BY DEF Arrived
<1> HIDE DEF come
<1>6. Shaped(x) /\ x.pc \notin Resolved /\ x.out.at # "open"
  BY <1>4, <1>5, RefusedFields, LetInFields DEF Resolved
<1>7. Refused(x, 502).pc \notin Resolved /\ Refused(x, 502).out.at # "open"
  BY <1>6, RefusedFields DEF Resolved
<1> QED BY <1>1, <1>3, <1>6, <1>7, OnlyOneLinked

LEMMA ResolveKeyLinked ==
  ASSUME LinksStay, IInv, LinkInv, NEW r \in Requests, ResolveKey(r)
  PROVE  LinkInv'
<1> DEFINE found == Resolve(fs, req[r].cfg, Head(req[r].keys))
<1>1. Good(req[r], past[r], fs) /\ req[r].pc = "resolve" /\ UNCHANGED fs /\ MayBe(fs)
  BY DEF ResolveKey, IInv, LinkInv
<1>2. Shaped(req[r]) /\ req[r].out.status = 0
  BY <1>1 DEF Good
<1>3. ASSUME NEW path \in found PROVE Linkless(path)
  <2>1. PICK i : /\ Within(fs, Candidate(req[r].cfg, Head(req[r].keys), i))
                 /\ path = Real(fs, Candidate(req[r].cfg, Head(req[r].keys), i).path)
    BY Zenon DEF Resolve
  <2>2. path # Nowhere
    BY <2>1 DEF Within
  <2> QED BY <1>1, <2>1, <2>2, RealIsLinkless
<1>4. ASSUME NEW path \in found, NEW pc \in {"find", "open"},
             Become(r, [At(r, pc) EXCEPT !.path = path])
      PROVE  LinkInv'
  <2> DEFINE x == [At(r, pc) EXCEPT !.path = path]
  <2>1. x.path = path /\ x.out = req[r].out
    BY <1>2 DEF Shaped, At
  <2>2. Become(r, x)
    BY <1>4
  <2> HIDE DEF x, found
  <2> QED BY <1>1, <1>2, <1>3, <2>1, <2>2, OnlyOneLinked
<1>5. ASSUME Become(r, [At(r, "resolve") EXCEPT !.keys = Tail(req[r].keys)])
      PROVE  LinkInv'
  <2> DEFINE x == [At(r, "resolve") EXCEPT !.keys = Tail(req[r].keys)]
  <2>1. x.pc = "resolve" /\ x.out = req[r].out
    BY <1>2 DEF Shaped, At
  <2>2. Become(r, x)
    BY <1>5
  <2> HIDE DEF x
  <2> QED BY <1>1, <1>2, <2>1, <2>2, OnlyOneLinked DEF Resolved
<1>6. ASSUME Become(r, Ended(r, 502)) PROVE LinkInv'
  <2>1. Ended(r, 502).pc = "done" /\ Ended(r, 502).out.status = 502
    BY <1>2, EndedFields
  <2> QED BY <1>1, <1>6, <2>1, OnlyOneLinked DEF Resolved
<1>7. \/ \E path \in found, pc \in {"find", "open"} :
          Become(r, [At(r, pc) EXCEPT !.path = path])
      \/ Become(r, [At(r, "resolve") EXCEPT !.keys = Tail(req[r].keys)])
      \/ Become(r, Ended(r, 502))
  BY DEF ResolveKey
<1> HIDE DEF found
<1> QED BY <1>4, <1>5, <1>6, <1>7

LEMMA OpenLinked ==
  ASSUME IInv, LinkInv, NEW r \in Requests, Open(r)
  PROVE  LinkInv'
<1>1. /\ Shaped(req[r]) /\ UNCHANGED fs
      /\ Real(fs, req[r].path) \in {req[r].path, Nowhere}
  <2>1. req[r].pc = "open" /\ UNCHANGED fs /\ MayBe(fs) /\ Good(req[r], past[r], fs)
    BY DEF Open, IInv, LinkInv
  <2>2. Linkless(req[r].path)
    BY <2>1 DEF LinkInv, Resolved
  <2> QED BY <2>1, <2>2, LinklessIsFixed DEF Good
<1>2. CASE /\ IsFile(fs, req[r].path)
           /\ Become(r, Opened(r, req[r].path, "none"))
  <2>1. Real(fs, req[r].path) # Nowhere
    BY <1>2 DEF IsFile, FileAt
  <2> DEFINE x == Opened(r, req[r].path, "none")
  <2>2. x.pc = "done" /\ x.out.path = req[r].path /\ x.out.opened = Real(fs, req[r].path)
    BY <1>1, ServedFields DEF Opened
  <2> HIDE DEF x
  <2> QED BY <1>1, <1>2, <2>1, <2>2, OnlyOneLinked DEF Resolved, x
<1>3. CASE Become(r, Ended(r, 500))
  <2>1. Ended(r, 500).pc = "done" /\ Ended(r, 500).out.status = 500
    BY <1>1, EndedFields
  <2> QED BY <1>1, <1>3, <2>1, OnlyOneLinked DEF Resolved
<1> QED BY <1>2, <1>3 DEF Open

(* The steps of a cover keep its path, and do not open it for the stream. *)
LEMMA CoverLinked ==
  ASSUME IInv, LinkInv, NEW r \in Requests,
         Find(r) \/ Stat(r) \/ Read(r) \/ Extract(r) \/ Resize(r)
  PROVE  LinkInv'
<1>1. /\ Shaped(req[r]) /\ UNCHANGED fs /\ req[r].out.status = 0
      /\ req[r].pc \in {"find", "stat", "read", "extract", "resize"}
      /\ Linkless(req[r].path)
  <2>1. Good(req[r], past[r], fs)
    BY DEF IInv
  <2>2. UNCHANGED fs /\ req[r].pc \in {"find", "stat", "read", "extract", "resize"}
    BY DEF Find, Stat, Read, Extract, Resize, ends
  <2> QED BY <2>1, <2>2 DEF Good, LinkInv, Resolved
<1>2. \/ \E pc \in {"stat", "resize"} : Become(r, At(r, pc))
      \/ Become(r, [req[r] EXCEPT !.looked = req[r].looked + 1])
      \/ \E pc \in {"extract", "read", "resize"} :
           Become(r, [At(r, pc) EXCEPT !.stat = StampAt(fs, Source(r))])
      \/ \E status : Become(r, Ended(r, status))
      \/ \E path, opened, stamp, size : Become(r, Served(r, path, opened, stamp, size))
  BY DEF Find, Stat, Read, Extract, Resize, Opened, ServedFrom
<1>3. ASSUME NEW to, Become(r, to), to.path = req[r].path \/ to.pc = "done",
             to.out.at # "open" \/ to.out.status # 200
      PROVE  LinkInv'
  BY <1>1, <1>3, OnlyOneLinked DEF Resolved
<1>4. ASSUME NEW pc \in {"stat", "resize"}, Become(r, At(r, pc)) PROVE LinkInv'
  <2>1. At(r, pc).path = req[r].path /\ At(r, pc).out = req[r].out
    BY <1>1 DEF At, Shaped
  <2> QED BY <1>1, <1>3, <1>4, <2>1
<1>5. ASSUME Become(r, [req[r] EXCEPT !.looked = req[r].looked + 1]) PROVE LinkInv'
  <2> DEFINE x == [req[r] EXCEPT !.looked = req[r].looked + 1]
  <2>1. x.path = req[r].path /\ x.out = req[r].out
    BY <1>1 DEF Shaped
  <2>2. Become(r, x)
    BY <1>5
  <2> HIDE DEF x
  <2> QED BY <1>1, <1>3, <2>1, <2>2
<1>6. ASSUME NEW pc \in {"extract", "read", "resize"},
             Become(r, [At(r, pc) EXCEPT !.stat = StampAt(fs, Source(r))])
      PROVE  LinkInv'
  <2> DEFINE x == [At(r, pc) EXCEPT !.stat = StampAt(fs, Source(r))]
  <2>1. x.path = req[r].path /\ x.out = req[r].out
    BY <1>1 DEF Shaped, At
  <2>2. Become(r, x)
    BY <1>6
  <2> HIDE DEF x
  <2> QED BY <1>1, <1>3, <2>1, <2>2
<1>7. ASSUME NEW status, Become(r, Ended(r, status)) PROVE LinkInv'
  <2>1. Ended(r, status).pc = "done" /\ Ended(r, status).out.at = req[r].pc
    BY <1>1, EndedFields
  <2> QED BY <1>1, <1>3, <1>7, <2>1
<1>8. ASSUME NEW path, NEW opened, NEW stamp, NEW size,
             Become(r, Served(r, path, opened, stamp, size))
      PROVE  LinkInv'
  <2> DEFINE x == Served(r, path, opened, stamp, size)
  <2>1. x.pc = "done" /\ x.out.at = req[r].pc
    BY <1>1, ServedFields
  <2> HIDE DEF x
  <2> QED BY <1>1, <1>3, <1>8, <2>1 DEF x
<1> QED BY <1>2, <1>4, <1>5, <1>6, <1>7, <1>8

LEMMA StepLinked ==
  ASSUME LinksStay, IInv, LinkInv, [Next]_vars
  PROVE  LinkInv'
<1>1. ASSUME NEW r \in Requests,
             \/ Arrive(r) \/ ResolveKey(r) \/ Open(r)
             \/ Find(r) \/ Stat(r) \/ Read(r) \/ Extract(r) \/ Resize(r)
      PROVE  LinkInv'
  BY <1>1, ArriveLinked, ResolveKeyLinked, OpenLinked, CoverLinked
<1>2. CASE Change
  <2>1. UNCHANGED req /\ MayBe(fs')
    BY <1>2, ChangeMayBe DEF Change, LinkInv
  <2> QED BY <2>1 DEF LinkInv
<1>3. CASE UNCHANGED <<fs, req>>
  BY <1>3 DEF LinkInv
<1>4. Save \/ Rotate \/ UNCHANGED vars => UNCHANGED <<fs, req>>
  BY DEF Save, Rotate, vars
<1> QED BY <1>1, <1>2, <1>3, <1>4 DEF Next

(* For any remapping rules and any changes of the file tree that leave links to *)
(* be links, wherever they are led, the audio file that os.Open finds lies      *)
(* below the real path a root or target of the handler's configuration had at   *)
(* some moment of the request: EvalSymlinks' path has no link left on it to be  *)
(* led elsewhere between the check and the use (localfs/resolve.go:160-173,     *)
(* stream/handler.go:112-117).                                                  *)
THEOREM ServedFilesInside ==
  ASSUME LinksStay
  PROVE  Spec => []ServedInside
<1>1. LinksStay /\ IInv /\ LinkInv /\ [Next]_vars => LinkInv'
  BY StepLinked
<1>2. IInv /\ LinkInv => ServedInside
  BY DEF IInv, Good, Inside, LinkInv, ServedInside
<1> QED BY <1>1, <1>2, InitGood, StepGood, InitLinked, PTL DEF Spec

----
(* Times                                                                        *)

(* The source a request is at. *)
SourceOf(x) ==
  IF x.looked > Len(Sidecars) THEN x.path ELSE Dir(x.path) \o <<Sidecars[x.looked]>>

AtSource == {"read", "extract", "resize"}

(* A sidecar's path has no link either: the folder is that of a path without,   *)
(* and what has the name of a sidecar is none.                                  *)
LEMMA SidecarIsLinkless ==
  ASSUME SidecarsArePlain, NEW path, Linkless(path), NEW i \in 1..Len(Sidecars)
  PROVE  Linkless(Dir(path) \o <<Sidecars[i]>>)
<1>1. PICK S : path \in Seq(S)
  BY DEF Linkless
<1>2. PICK T : T = S \cup {Sidecars[i]}
  OBVIOUS
<1>3. PICK above \in Seq(T) : /\ above = Dir(path)
                             /\ Len(above) <= Len(path)
                             /\ \A n \in 1..Len(above) : SubSeq(above, 1, n) = SubSeq(path, 1, n)
  <2>1. Len(path) \in Nat /\ path \in Seq(T)
    BY <1>1, <1>2
  <2>2. Dir(path) = SubSeq(path, 1, Len(path) - 1)
    BY DEF Dir, Front
  <2>3. CASE path = <<>>
    <3>1. Len(path) - 1 < 1 /\ Len(path) - 1 \in Int
      BY <2>1, <2>3
    <3>2. SubSeq(path, 1, Len(path) - 1) = <<>>
      BY <3>1, SubSeqEmpty
    <3>3. <<>> \in Seq(T) /\ Len(<<>>) = 0
      BY EmptySeq
    <3>4. Dir(path) = <<>>
      BY <2>2, <3>2
    <3>5. 0 <= Len(path) /\ \A n \in 1..0 : SubSeq(<<>>, 1, n) = SubSeq(path, 1, n)
      BY <2>1
    <3> QED BY <3>3, <3>4, <3>5
  <2>4. CASE path # <<>>
    <3>0. Len(path) \in Nat \ {0}
      BY <2>1, <2>4, EmptySeq
    <3>1. PICK m \in 0..Len(path) : m = Len(path) - 1
      <4>1. Len(path) - 1 \in 0..Len(path)
        BY <3>0
      <4> QED BY <4>1, Zenon
    <3>2. PICK above \in Seq(T) : above = SubSeq(path, 1, m) /\ Len(above) = m
      <4>1. \A k \in 1..m : path[k] \in T
        BY <2>1, <3>0, <3>1, ElementOfSeq
      <4>2. SubSeq(path, 1, m) \in Seq(T)
        BY <3>1, <4>1, SubSeqProperties
      <4>3. Len(SubSeq(path, 1, m)) = IF 1 <= m THEN m - 1 + 1 ELSE 0
        BY <3>1, <4>1, SubSeqProperties
      <4>4. Len(SubSeq(path, 1, m)) = m
        BY <3>0, <3>1, <4>3
      <4> QED BY <4>2, <4>4, Zenon
    <3>3. ASSUME NEW n \in 1..m PROVE SubSeq(SubSeq(path, 1, m), 1, n) = SubSeq(path, 1, n)
      <4>1. /\ 1 \in 1..Len(path) /\ m \in 1..Len(path)
            /\ 1 \in 1..m - 1 + 1 /\ n \in 1..m - 1 + 1
            /\ 1 + 1 - 1 = 1 /\ 1 + n - 1 = n
        BY <2>1, <3>1, <3>3
      <4>2. SubSeq(SubSeq(path, 1, m), 1, n) = SubSeq(path, 1 + 1 - 1, 1 + n - 1)
        BY <2>1, <4>1, SubSeqOfSubSeq
      <4> QED BY <4>1, <4>2
    <3>4. Len(above) <= Len(path)
      BY <3>0, <3>1, <3>2
    <3>5. above = Dir(path)
      BY <2>2, <3>1, <3>2
    <3> QED BY <3>2, <3>3, <3>4, <3>5
  <2> QED BY <2>3, <2>4
<1>4. PICK all \in Seq(T) : all = above \o <<Sidecars[i]>>
  <2>1. <<Sidecars[i]>> \in Seq(T)
    BY <1>2
  <2>2. above \o <<Sidecars[i]>> \in Seq(T)
    BY <2>1, ConcatProperties
  <2> QED BY <2>2, Zenon
<1>5. /\ Len(all) = Len(above) + 1 /\ Len(above) \in Nat /\ all # <<>>
      /\ all[Len(all)] = Sidecars[i]
      /\ \A n \in 1..Len(above) : SubSeq(all, 1, n) = SubSeq(above, 1, n)
      /\ SubSeq(all, 1, Len(all)) = all
  BY <1>2, <1>4
<1>6. ASSUME NEW g, MayBe(g), NEW n \in 1..Len(all)
      PROVE  Node(g, SubSeq(all, 1, n)).type # "link"
  <2>1. CASE n \in 1..Len(above)
    <3>1. n \in 1..Len(path) /\ SubSeq(all, 1, n) = SubSeq(path, 1, n)
      BY <1>1, <1>3, <1>5, <2>1
    <3> QED BY <1>6, <3>1 DEF Linkless, NoLinkOn
  <2>2. CASE n = Len(all)
    <3>1. SUFFICES ASSUME Node(g, all).type = "link" PROVE FALSE
      BY <1>5, <2>2
    <3>2. all \in DOMAIN g /\ Node(g, all) = g[all]
      BY <1>5, <3>1 DEF Node
    <3>3. PICK m \in NodesAt(all) : g[all].type = m.type
      BY <1>6, <3>2 DEF MayBe
    <3>4. all \in Paths \cup DOMAIN Changes
      BY <3>3 DEF NodesAt, Paths
    <3> QED BY <1>5, <3>1, <3>2, <3>3, <3>4 DEF SidecarsArePlain
  <2> QED BY <1>5, <2>1, <2>2
<1> QED BY <1>3, <1>4, <1>6 DEF Linkless, NoLinkOn

LEMMA SourceIsLinkless ==
  ASSUME SidecarsArePlain, LinkInv, NEW r \in Requests,
         req[r].pc \in {"stat", "read", "extract", "resize"},
         req[r].looked \in 1..(Len(Sidecars) + 1)
  PROVE  Linkless(SourceOf(req[r]))
<1>1. Linkless(req[r].path)
  BY DEF LinkInv, Resolved
<1>2. Len(Sidecars) \in Nat
  BY RoutesAssumption
<1>3. req[r].looked > Len(Sidecars) \/ req[r].looked \in 1..Len(Sidecars)
  BY <1>2
<1> QED BY <1>1, <1>2, <1>3, SidecarIsLinkless DEF SourceOf

(* A path leads to where there may be a file. *)
FileThere(path) == \E f : MayBe(f) /\ IsFile(f, path)

(* What a path leads to is there with that time or a later one, if at all. *)
Since(f, path, stamp) ==
  \E g : /\ MayBe(g) /\ Real(g, path) # Nowhere
         /\ Node(f, Real(g, path)).type = "file" => stamp <= Node(f, Real(g, path)).stamp

LEMMA SinceThen ==
  ASSUME NEW f, MayBe(f), NEW path, Linkless(path), NEW stamp, Since(f, path, stamp),
         IsFile(f, path)
  PROVE  stamp <= StampAt(f, path)
<1>1. PICK g : /\ MayBe(g) /\ Real(g, path) # Nowhere
               /\ Node(f, Real(g, path)).type = "file" => stamp <= Node(f, Real(g, path)).stamp
  BY DEF Since
<1>2. /\ Real(f, path) # Nowhere /\ Node(f, Real(f, path)).type = "file"
      /\ StampAt(f, path) = Node(f, Real(f, path)).stamp
  BY DEF IsFile, FileAt, StampAt
<1>3. Real(f, path) = Real(g, path)
  BY <1>1, <1>2, LinklessIsFixed
<1> QED BY <1>1, <1>2, <1>3

LEMMA SinceNow ==
  ASSUME NEW f, MayBe(f), NEW path, FileAt(f, path).type # "none", StampAt(f, path) \in Nat
  PROVE  Since(f, path, StampAt(f, path))
<1>1. Real(f, path) # Nowhere /\ FileAt(f, path) = Node(f, Real(f, path))
  BY DEF FileAt
<1>2. Node(f, Real(f, path)).type = "file" => StampAt(f, path) <= Node(f, Real(f, path)).stamp
  BY <1>1 DEF StampAt, IsFile
<1> QED BY <1>1, <1>2 DEF Since

LEMMA StaysAFile ==
  ASSUME KindsStay, NEW f, MayBe(f), NEW path, Linkless(path), FileThere(path),
         FileAt(f, path).type # "none"
  PROVE  IsFile(f, path)
<1>1. PICK g : MayBe(g) /\ IsFile(g, path)
  BY DEF FileThere
<1>2. /\ Real(f, path) # Nowhere /\ FileAt(f, path) = Node(f, Real(f, path))
      /\ Real(g, path) # Nowhere /\ Node(g, Real(g, path)).type = "file"
  BY <1>1 DEF IsFile, FileAt
<1>3. Real(f, path) = path /\ Real(g, path) = path
  BY <1>1, <1>2, LinklessIsFixed
<1>4. /\ path \in DOMAIN f /\ path \in DOMAIN g
      /\ f[path].type # "none" /\ g[path].type = "file" /\ Node(f, path) = f[path]
  <2>1. path # <<>>
    BY <1>2, <1>3 DEF Node
  <2> QED BY <1>2, <1>3, <2>1 DEF Node
<1>5. PICK m \in NodesAt(path), n \in NodesAt(path) : f[path].type = m.type /\ g[path].type = n.type
  BY <1>1, <1>4 DEF MayBe
<1>6. m.type = n.type
  BY <1>4, <1>5 DEF KindsStay, NodesAt, Paths
<1> QED BY <1>2, <1>3, <1>4, <1>5, <1>6 DEF IsFile

LEMMA Grows ==
  ASSUME NEW key, NEW stamp, key \notin DOMAIN cache
  PROVE  LET c == With(key, stamp)
         IN /\ DOMAIN c = DOMAIN cache \cup {key}
            /\ \A k \in DOMAIN cache : c[k] = cache[k]
            /\ c[key] = [stamp |-> stamp, size |-> key.size]
BY DEF With

----
Statuses == {0, 200, 401, 404, 500, 502, 503}
Sizes == {"none", "thumb", "medium", "original"}

(* The tree is one of those that may come about, with times that have been. *)
TreeFits(f, t) ==
  /\ MayBe(f)
  /\ DOMAIN f \subseteq Paths
  /\ \A p \in DOMAIN f : f[p].type = "file" => f[p].stamp \in 0..t

(* An entry of the cache has a time its source had after the request that made  *)
(* it looked, and the source has had none but later ones since.                 *)
CacheFits(f, c, t) ==
  \A k \in DOMAIN c :
    /\ k.stat \in Nat /\ k.stat <= c[k].stamp /\ c[k].stamp \in 0..t
    /\ c[k].size = k.size
    /\ FileThere(k.path) /\ Since(f, k.path, c[k].stamp)

RequestFits(x, t) ==
  /\ x.pc \in Phases /\ x.ask \in Asks
  /\ x.looked \in 1..(Len(Sidecars) + 1) /\ x.stat \in 0..t
  /\ x.out.status \in Statuses /\ x.out.size \in Sizes

Saw(seen, path, stamp) == \E f \in seen : IsFile(f, path) /\ StampAt(f, path) = stamp

(* What the cache has, or comes to have, for the time a request found its       *)
(* source with, is what the source has been during the request.                 *)
InTime(x, seen, f, c) ==
  /\ x.pc \in AtSource =>
       /\ Since(f, SourceOf(x), x.stat)
       /\ \A k \in DOMAIN c : k.path = SourceOf(x) /\ k.stat = x.stat
            => Saw(seen, k.path, c[k].stamp)
  /\ x.pc = "resize" /\ x.looked > Len(Sidecars)
       => CacheKey(x.path, x.stat, "original") \in DOMAIN c
  /\ x.pc = "read" => NormalizeSize(x.ask.size) = "original"
  /\ x.pc = "open" => x.ask.idx # CoverFileIdx
  /\ x.out.status = 200 =>
       /\ Saw(seen, x.out.path, x.out.stamp)
       /\ x.ask.idx = CoverFileIdx => x.out.size = NormalizeSize(x.ask.size)

TimesInv ==
  /\ clock \in Nat
  /\ TreeFits(fs, clock)
  /\ CacheFits(fs, cache, clock)
  /\ \A r \in Requests : RequestFits(req[r], clock) /\ InTime(req[r], past[r], fs, cache)

LEMMA StampFits ==
  ASSUME NEW f, NEW t \in Nat, TreeFits(f, t), NEW path
  PROVE  StampAt(f, path) \in 0..t
<1>1. CASE IsFile(f, path)
  <2>1. FileAt(f, path).type = "file" /\ StampAt(f, path) = FileAt(f, path).stamp
    BY <1>1 DEF IsFile, StampAt
  <2>2. PICK q : FileAt(f, path) = Node(f, q)
    BY <2>1 DEF FileAt
  <2>3. q \in DOMAIN f /\ Node(f, q) = f[q]
    BY <2>1, <2>2 DEF Node
  <2> QED BY <2>1, <2>2, <2>3 DEF TreeFits
<1>2. CASE ~IsFile(f, path)
  BY <1>2 DEF StampAt
<1> QED BY <1>1, <1>2

LEMMA SourceIs == ASSUME NEW r PROVE Source(r) = SourceOf(req[r])
BY DEF Source, SourceOf, Embedded, SidecarAt

LEMMA SizeIs ==
  ASSUME NEW raw
  PROVE  NormalizeSize(raw) \in {"thumb", "medium", "original"}
<1>1. CASE raw \in {"thumb", "thumbnail", "small"}
  BY <1>1 DEF NormalizeSize
<1>2. CASE raw = "medium"
  BY <1>2 DEF NormalizeSize
<1>3. CASE raw \notin {"thumb", "thumbnail", "small", "medium"}
  BY <1>3 DEF NormalizeSize
<1> QED BY <1>1, <1>2, <1>3

LEMMA InitTimed == Init => TimesInv
<1> SUFFICES ASSUME Init PROVE TimesInv
  OBVIOUS
<1>1. clock = 0 /\ DOMAIN cache = {} /\ fs \in Trees
  BY DEF Init
<1>2. TreeFits(fs, clock)
  <2>1. MayBe(fs)
    BY <1>1 DEF MayBe, NodesAt
  <2>2. DOMAIN fs \subseteq Paths
    BY <1>1 DEF Paths
  <2>3. \A p \in DOMAIN fs : fs[p].type = "file" => fs[p].stamp \in 0..clock
    BY <1>1, RoutesAssumption
  <2> QED BY <2>1, <2>2, <2>3 DEF TreeFits
<1>3. CacheFits(fs, cache, clock)
  BY <1>1 DEF CacheFits
<1>4. ASSUME NEW r \in Requests
      PROVE  RequestFits(req[r], clock) /\ InTime(req[r], past[r], fs, cache)
  <2>1. /\ req[r].pc = "idle" /\ req[r].looked = 1 /\ req[r].stat = 0
        /\ req[r].ask = (CHOOSE a \in Asks : TRUE)
        /\ req[r].out.status = 0 /\ req[r].out.size = "none"
    BY DEF Init, NoAnswer
  <2>2. (CHOOSE a \in Asks : TRUE) \in Asks
    BY RoutesAssumption
  <2>3. Len(Sidecars) \in Nat
    BY RoutesAssumption
  <2> QED BY <1>1, <2>1, <2>2, <2>3 DEF RequestFits, InTime, Phases, Statuses, Sizes, AtSource
<1> QED BY <1>1, <1>2, <1>3, <1>4 DEF TimesInv

(* A step of one request that leaves the cache as it is. *)
LEMMA OnlyOneTimed ==
  ASSUME IInv, TimesInv, NEW r \in Requests, NEW to, Become(r, to),
         RequestFits(to, clock), InTime(to, past[r], fs, cache),
         UNCHANGED <<fs, cache, clock, past>>
  PROVE  TimesInv'
<1>1. \A q \in Requests : req'[q] = IF q = r THEN to ELSE req[q]
  BY DEF IInv, Become
<1>2. \A q \in Requests : RequestFits(req'[q], clock) /\ InTime(req'[q], past[q], fs, cache)
  BY <1>1 DEF TimesInv
<1> QED BY <1>2 DEF TimesInv

(* A step of one request that adds an entry. *)
LEMMA GrowsInTime ==
  ASSUME IInv, TimesInv, NEW r \in Requests, NEW to, Become(r, to),
         NEW path, NEW stat \in Nat, NEW size, NEW stamp \in 0..clock,
         cache' = With(CacheKey(path, stat, size), stamp),
         CacheKey(path, stat, size) \notin DOMAIN cache,
         stat <= stamp, FileThere(path), Since(fs, path, stamp),
         \A q \in Requests :
           Running(q) /\ SourceOf(req[q]) = path /\ req[q].stat = stat /\ req[q].pc \in AtSource
             => Saw(past[q], path, stamp),
         RequestFits(to, clock), InTime(to, past[r], fs, cache'),
         UNCHANGED <<fs, clock, past>>
  PROVE  TimesInv'
<1> DEFINE key == CacheKey(path, stat, size)
<1>1. \A q \in Requests : req'[q] = IF q = r THEN to ELSE req[q]
  BY DEF IInv, Become
<1>2. key.path = path /\ key.stat = stat /\ key.size = size
  BY DEF CacheKey
<1>3. /\ DOMAIN cache' = DOMAIN cache \cup {key}
      /\ \A k \in DOMAIN cache : cache'[k] = cache[k]
      /\ cache'[key].stamp = stamp /\ cache'[key].size = key.size
  <2>1. LET c == With(key, stamp)
        IN /\ DOMAIN c = DOMAIN cache \cup {key}
           /\ \A k \in DOMAIN cache : c[k] = cache[k]
           /\ c[key] = [stamp |-> stamp, size |-> key.size]
    BY Grows
  <2> QED BY <2>1
<1> HIDE DEF key
<1>4. CacheFits(fs, cache', clock)
  BY <1>2, <1>3 DEF CacheFits, TimesInv
<1>5. ASSUME NEW q \in Requests, q # r
      PROVE  InTime(req[q], past[q], fs, cache')
  <2>1. InTime(req[q], past[q], fs, cache)
    BY DEF TimesInv
  <2>2. ASSUME req[q].pc \in AtSource, NEW k \in DOMAIN cache',
               k.path = SourceOf(req[q]), k.stat = req[q].stat
        PROVE  Saw(past[q], k.path, cache'[k].stamp)
    <3>1. CASE k \in DOMAIN cache
      BY <1>3, <2>1, <2>2, <3>1 DEF InTime
    <3>2. CASE k = key
      <4>1. Running(q)
        BY <2>2 DEF Running, AtSource
      <4> QED BY <1>2, <1>3, <2>2, <3>2, <4>1
    <3> QED BY <1>3, <3>1, <3>2
  <2> QED BY <1>3, <2>1, <2>2 DEF InTime
<1>6. ASSUME NEW q \in Requests
      PROVE  RequestFits(req'[q], clock) /\ InTime(req'[q], past[q], fs, cache')
  BY <1>1, <1>5 DEF TimesInv
<1> QED BY <1>4, <1>6 DEF TimesInv

----
LEMMA EndedRest ==
  ASSUME NEW r, Shaped(req[r]), NEW status
  PROVE  LET x == Ended(r, status)
         IN x.stat = 0 /\ x.out.size = "none"
BY DEF Shaped, Ended, NoAnswer

LEMMA ServedRest ==
  ASSUME NEW r, Shaped(req[r]), NEW path, NEW opened, NEW stamp, NEW size
  PROVE  LET x == Served(r, path, opened, stamp, size)
         IN x.stat = 0 /\ x.out.stamp = stamp /\ x.out.size = size
<1> DEFINE e == Ended(r, 200)
<1>1. Shaped(e) /\ e.stat = 0
  BY EndedFields, EndedRest
<1> HIDE DEF e
<1>2. LET x == [e EXCEPT !.out.path = path, !.out.opened = opened,
                           !.out.stamp = stamp, !.out.size = size]
      IN x.stat = e.stat /\ x.out.stamp = stamp /\ x.out.size = size
  BY <1>1 DEF Shaped
<1> QED BY <1>1, <1>2 DEF Served, e

LEMMA EndedTimed ==
  ASSUME IInv, TimesInv, NEW r \in Requests, NEW status \in {404, 500, 502}, NEW f, NEW c
  PROVE  LET x == Ended(r, status) IN RequestFits(x, clock) /\ InTime(x, past[r], f, c)
<1> DEFINE x == Ended(r, status)
<1>1. Shaped(req[r]) /\ req[r].ask \in Asks /\ clock \in Nat /\ Len(Sidecars) \in Nat
  BY RoutesAssumption DEF IInv, Good, TimesInv, RequestFits
<1>2. /\ x.pc = "done" /\ x.out.status = status /\ x.ask = req[r].ask
      /\ x.looked = 1 /\ x.stat = 0 /\ x.out.size = "none"
  BY <1>1, EndedFields, EndedKeeps, EndedRest
<1> HIDE DEF x
<1>3. RequestFits(x, clock) /\ InTime(x, past[r], f, c)
  BY <1>1, <1>2 DEF RequestFits, InTime, Phases, Statuses, Sizes, AtSource
<1> QED BY <1>3 DEF x

LEMMA ServedTimed ==
  ASSUME IInv, TimesInv, NEW r \in Requests, NEW path, NEW opened, NEW stamp, NEW size \in Sizes,
         Saw(past[r], path, stamp), NEW f, NEW c,
         IsCover(r) => size = Size(r)
  PROVE  LET x == Served(r, path, opened, stamp, size)
         IN RequestFits(x, clock) /\ InTime(x, past[r], f, c)
<1> DEFINE x == Served(r, path, opened, stamp, size)
<1>1. Shaped(req[r]) /\ req[r].ask \in Asks /\ clock \in Nat /\ Len(Sidecars) \in Nat
  BY RoutesAssumption DEF IInv, Good, TimesInv, RequestFits
<1>2. /\ x.pc = "done" /\ x.out.status = 200 /\ x.ask = req[r].ask
      /\ x.looked = 1 /\ x.stat = 0
      /\ x.out.path = path /\ x.out.stamp = stamp /\ x.out.size = size
  BY <1>1, ServedFields, ServedKeeps, ServedRest
<1> HIDE DEF x
<1>3. RequestFits(x, clock) /\ InTime(x, past[r], f, c)
  BY <1>1, <1>2 DEF RequestFits, InTime, Phases, Statuses, AtSource, IsCover, Size
<1> QED BY <1>3 DEF x

(* A request that goes on to a step that has not looked at its source. *)
LEMMA BeforeSource ==
  ASSUME IInv, TimesInv, NEW r \in Requests, Running(r), NEW x,
         x.pc \in {"resolve", "open", "find", "stat"},
         x.ask = req[r].ask, x.looked \in 1..(Len(Sidecars) + 1), x.stat = req[r].stat,
         x.out = req[r].out, x.pc = "open" => ~IsCover(r)
  PROVE  RequestFits(x, clock) /\ InTime(x, past[r], fs, cache)
<1>1. RequestFits(req[r], clock) /\ req[r].out.status = 0
  BY DEF IInv, Good, TimesInv, Running
<1> QED BY <1>1 DEF RequestFits, InTime, Phases, AtSource, IsCover

LEMMA ArriveTimed ==
  ASSUME IInv, TimesInv, NEW r \in Requests, Arrive(r)
  PROVE  TimesInv'
<1>1. PICK ask \in Asks, t \in Held : \E x \in Arrived(r, ask, t) :
        \/ Become(r, x)
        \/ x.pc = "resolve" /\ Become(r, Refused(x, 502))
  BY DEF Arrive
<1>2. /\ req[r].pc = "idle" /\ UNCHANGED <<fs, cache, clock>>
      /\ past' = [past EXCEPT ![r] = {fs}]
  BY DEF Arrive, ends
<1>3. /\ Good(req[r], past[r], fs) /\ RequestFits(req[r], clock)
  BY DEF IInv, TimesInv
<1> DEFINE come == Come(r, ask, t)
<1>4. /\ Shaped(come) /\ come.ask = req[r].ask /\ come.looked = req[r].looked
      /\ come.stat = req[r].stat /\ come.out = req[r].out
  BY <1>3 DEF Come, Good, Shaped
<1> HIDE DEF come
<1>5. ASSUME NEW x, Shaped(x), x.ask \in Asks, x.looked = req[r].looked,
             x.stat = req[r].stat, NEW status \in Statuses \ {200}
      PROVE  RequestFits(Refused(x, status), clock) /\ InTime(Refused(x, status), {fs}, fs, cache)
  <2> DEFINE y == Refused(x, status)
  <2>1. /\ y.pc = "done" /\ y.ask = x.ask /\ y.looked = x.looked /\ y.stat = x.stat
        /\ y.out.status = status /\ y.out.size = "none"
    BY <1>5 DEF Refused, NoAnswer, Shaped
  <2> HIDE DEF y
  <2>2. RequestFits(y, clock) /\ InTime(y, {fs}, fs, cache)
    BY <1>3, <1>5, <2>1 DEF RequestFits, InTime, Phases, Sizes, AtSource
  <2> QED BY <2>2 DEF y
<1>6. ASSUME NEW file
      PROVE  LET x == LetIn(come, ask, file)
             IN /\ RequestFits(x, clock) /\ InTime(x, {fs}, fs, cache)
                /\ Shaped(x) /\ x.ask \in Asks /\ x.looked = req[r].looked /\ x.stat = req[r].stat
  <2> DEFINE x == LetIn(come, ask, file)
  <2>1. /\ x.pc = "resolve" /\ x.ask = ask /\ x.looked = come.looked /\ x.stat = come.stat
        /\ x.out = come.out /\ Shaped(x)
    BY <1>4 DEF LetIn, Shaped
  <2> HIDE DEF x
  <2>2. req[r].out.status = 0
    BY <1>2, <1>3 DEF Good
  <2>3. RequestFits(x, clock) /\ InTime(x, {fs}, fs, cache)
    BY <1>3, <1>4, <2>1, <2>2 DEF RequestFits, InTime, Phases, AtSource
  <2> QED BY <1>4, <2>1, <2>3 DEF x
<1>7. PICK to : /\ Become(r, to)
                /\ RequestFits(to, clock) /\ InTime(to, {fs}, fs, cache)
  <2>1. PICK x \in Arrived(r, ask, t) :
          \/ Become(r, x)
          \/ x.pc = "resolve" /\ Become(r, Refused(x, 502))
    BY <1>1
  <2>2. \/ \E status \in {401, 404, 503} : x = Refused(come, status)
        \/ \E file \in FileOf(ask) : x = LetIn(come, ask, file)
    BY DEF Arrived, come
  <2>3. CASE \E status \in {401, 404, 503} : x = Refused(come, status)
    <3>1. PICK status \in {401, 404, 503} : x = Refused(come, status)
      BY <2>3
    <3>2. x.pc = "done"
      BY <1>4, <3>1, RefusedFields
    <3>3. come.ask \in Asks
      BY <1>3, <1>4 DEF RequestFits
    <3>4. RequestFits(x, clock) /\ InTime(x, {fs}, fs, cache)
      BY <1>4, <1>5, <3>1, <3>3 DEF Statuses
    <3> QED BY <2>1, <3>2, <3>4
  <2>4. CASE \E file \in FileOf(ask) : x = LetIn(come, ask, file)
    <3>1. PICK file \in FileOf(ask) : x = LetIn(come, ask, file)
      BY <2>4
    <3>2. /\ RequestFits(x, clock) /\ InTime(x, {fs}, fs, cache)
          /\ Shaped(x) /\ x.ask \in Asks /\ x.looked = req[r].looked /\ x.stat = req[r].stat
      BY <1>6, <3>1
    <3>3. RequestFits(Refused(x, 502), clock) /\ InTime(Refused(x, 502), {fs}, fs, cache)
      BY <1>5, <3>2 DEF Statuses
    <3> QED BY <2>1, <3>2, <3>3
  <2> QED BY <2>2, <2>3, <2>4
<1>8. ASSUME NEW q \in Requests
      PROVE  RequestFits(req'[q], clock) /\ InTime(req'[q], past'[q], fs, cache)
  <2>1. CASE q = r
    <3>1. req'[q] = to /\ past'[q] = {fs}
      BY <1>2, <1>7, <2>1 DEF IInv, Become
    <3> QED BY <1>7, <3>1
  <2>2. CASE q # r
    <3>1. req'[q] = req[q] /\ past'[q] = past[q]
      BY <1>2, <1>7, <2>2 DEF IInv, Become
    <3> QED BY <3>1 DEF TimesInv
  <2> QED BY <2>1, <2>2
<1> QED BY <1>2, <1>8 DEF TimesInv

LEMMA ResolveKeyTimed ==
  ASSUME IInv, TimesInv, NEW r \in Requests, ResolveKey(r)
  PROVE  TimesInv'
<1>1. Running(r) /\ UNCHANGED <<fs, cache, clock, past>>
  BY DEF ResolveKey, Running, ends
<1>2. Shaped(req[r]) /\ req[r].looked \in 1..(Len(Sidecars) + 1)
  BY DEF IInv, Good, TimesInv, RequestFits
<1>3. ASSUME NEW path, NEW pc \in {"open", "find"}, pc = "open" => ~IsCover(r)
      PROVE  LET x == [At(r, pc) EXCEPT !.path = path]
             IN RequestFits(x, clock) /\ InTime(x, past[r], fs, cache)
  <2> DEFINE x == [At(r, pc) EXCEPT !.path = path]
  <2>1. /\ x.pc = pc /\ x.ask = req[r].ask /\ x.looked = req[r].looked
        /\ x.stat = req[r].stat /\ x.out = req[r].out
    BY <1>2 DEF Shaped, At
  <2> HIDE DEF x
  <2>2. RequestFits(x, clock) /\ InTime(x, past[r], fs, cache)
    BY <1>1, <1>2, <1>3, <2>1, BeforeSource
  <2> QED BY <2>2 DEF x
<1>4. LET x == [At(r, "resolve") EXCEPT !.keys = Tail(req[r].keys)]
      IN RequestFits(x, clock) /\ InTime(x, past[r], fs, cache)
  <2> DEFINE x == [At(r, "resolve") EXCEPT !.keys = Tail(req[r].keys)]
  <2>1. /\ x.pc = "resolve" /\ x.ask = req[r].ask /\ x.looked = req[r].looked
        /\ x.stat = req[r].stat /\ x.out = req[r].out
    BY <1>2 DEF Shaped, At
  <2> HIDE DEF x
  <2>2. RequestFits(x, clock) /\ InTime(x, past[r], fs, cache)
    BY <1>1, <1>2, <2>1, BeforeSource
  <2> QED BY <2>2 DEF x
<1>5. \/ \E path : \E pc \in {"open", "find"} :
           (pc = "open" => ~IsCover(r)) /\ Become(r, [At(r, pc) EXCEPT !.path = path])
      \/ Become(r, [At(r, "resolve") EXCEPT !.keys = Tail(req[r].keys)])
      \/ Become(r, Ended(r, 502))
  <2>1. CASE IsCover(r)
    BY <2>1 DEF ResolveKey
  <2>2. CASE ~IsCover(r)
    BY <2>2 DEF ResolveKey
  <2> QED BY <2>1, <2>2
<1>6. PICK to : Become(r, to) /\ RequestFits(to, clock) /\ InTime(to, past[r], fs, cache)
  <2>1. CASE \E path : \E pc \in {"open", "find"} :
               (pc = "open" => ~IsCover(r)) /\ Become(r, [At(r, pc) EXCEPT !.path = path])
    <3>1. PICK path, pc : /\ pc \in {"open", "find"} /\ (pc = "open" => ~IsCover(r))
                          /\ Become(r, [At(r, pc) EXCEPT !.path = path])
      BY <2>1
    <3> QED BY <1>3, <3>1
  <2>2. CASE Become(r, [At(r, "resolve") EXCEPT !.keys = Tail(req[r].keys)])
    BY <1>4, <2>2
  <2>3. CASE Become(r, Ended(r, 502))
    BY <2>3, EndedTimed
  <2> QED BY <1>5, <2>1, <2>2, <2>3
<1> QED BY <1>1, <1>6, OnlyOneTimed

LEMMA OpenTimed ==
  ASSUME IInv, TimesInv, NEW r \in Requests, Open(r)
  PROVE  TimesInv'
<1>1. Running(r) /\ req[r].pc = "open" /\ UNCHANGED <<fs, cache, clock, past>>
  BY DEF Open, Running, ends
<1>2. fs \in past[r] /\ ~IsCover(r)
  BY <1>1 DEF IInv, Good, Running, TimesInv, InTime, IsCover
<1>3. CASE /\ IsFile(fs, req[r].path)
           /\ Become(r, Opened(r, req[r].path, "none"))
  <2>1. Saw(past[r], req[r].path, StampAt(fs, req[r].path)) /\ "none" \in Sizes
    BY <1>2, <1>3 DEF Saw, Sizes
  <2> QED BY <1>1, <1>2, <1>3, <2>1, ServedTimed, OnlyOneTimed DEF Opened
<1>4. CASE Become(r, Ended(r, 500))
  BY <1>1, <1>4, EndedTimed, OnlyOneTimed
<1> QED BY <1>3, <1>4 DEF Open

LEMMA FindTimed ==
  ASSUME IInv, TimesInv, NEW r \in Requests, Find(r)
  PROVE  TimesInv'
<1>1. Running(r) /\ req[r].pc = "find" /\ UNCHANGED <<fs, cache, clock, past>>
  BY DEF Find, Running, ends
<1>2. Shaped(req[r]) /\ req[r].looked \in 1..(Len(Sidecars) + 1) /\ Len(Sidecars) \in Nat
  BY RoutesAssumption DEF IInv, Good, TimesInv, RequestFits
<1>3. CASE Become(r, At(r, "stat"))
  <2> DEFINE x == At(r, "stat")
  <2>1. /\ x.pc = "stat" /\ x.ask = req[r].ask /\ x.looked = req[r].looked
        /\ x.stat = req[r].stat /\ x.out = req[r].out
    BY <1>2 DEF Shaped, At
  <2> HIDE DEF x
  <2>2. RequestFits(x, clock) /\ InTime(x, past[r], fs, cache)
    BY <1>1, <1>2, <2>1, BeforeSource
  <2> QED BY <1>1, <1>3, <2>2, OnlyOneTimed DEF x
<1>4. CASE ~Embedded(r) /\ Become(r, [req[r] EXCEPT !.looked = req[r].looked + 1])
  <2> DEFINE x == [req[r] EXCEPT !.looked = req[r].looked + 1]
  <2>1. /\ x.pc = "find" /\ x.ask = req[r].ask /\ x.looked \in 1..(Len(Sidecars) + 1)
        /\ x.stat = req[r].stat /\ x.out = req[r].out
    BY <1>1, <1>2, <1>4 DEF Shaped, Embedded
  <2> HIDE DEF x
  <2>2. RequestFits(x, clock) /\ InTime(x, past[r], fs, cache)
    BY <1>1, <1>2, <2>1, BeforeSource
  <2> QED BY <1>1, <1>4, <2>2, OnlyOneTimed DEF x
<1>5. Embedded(r) \in BOOLEAN /\ IsFile(fs, SidecarAt(r)) \in BOOLEAN
  BY DEF Embedded, IsFile
<1> QED BY <1>3, <1>4, <1>5 DEF Find

----
LEMMA StatTimed ==
  ASSUME KindsStay, SidecarsArePlain, IInv, LinkInv, TimesInv, NEW r \in Requests, Stat(r)
  PROVE  TimesInv'
<1> DEFINE stamp == StampAt(fs, Source(r))
           next == CASE Embedded(r) -> "extract"
                     [] ~Embedded(r) /\ Size(r) = "original" -> "read"
                     [] ~Embedded(r) /\ Size(r) # "original" -> "resize"
           x == [At(r, next) EXCEPT !.stat = stamp]
<1>1. Running(r) /\ req[r].pc = "stat" /\ UNCHANGED <<fs, cache, clock, past>>
  BY DEF Stat, Running, ends
<1>2. /\ Shaped(req[r]) /\ fs \in past[r] /\ req[r].out.status = 0
      /\ RequestFits(req[r], clock) /\ clock \in Nat
      /\ TreeFits(fs, clock) /\ CacheFits(fs, cache, clock)
  BY <1>1 DEF IInv, Good, Running, TimesInv
<1>3. CASE Become(r, Ended(r, 502))
  BY <1>1, <1>3, EndedTimed, OnlyOneTimed
<1>4. CASE FileAt(fs, Source(r)).type # "none" /\ Become(r, x)
  <2>1. /\ next \in {"extract", "read", "resize"}
        /\ next = "extract" => Embedded(r)
        /\ next = "resize" => ~Embedded(r)
        /\ next = "read" => Size(r) = "original"
    <3>1. CASE Embedded(r)
      BY <3>1
    <3>2. CASE ~Embedded(r) /\ Size(r) = "original"
      BY <3>2
    <3>3. CASE ~Embedded(r) /\ Size(r) # "original"
      BY <3>3
    <3> QED BY <3>1, <3>2, <3>3
  <2> HIDE DEF next
  <2>2. stamp \in 0..clock /\ MayBe(fs)
    BY <1>2, StampFits DEF TreeFits
  <2>0. Linkless(Source(r))
    BY <1>1, <1>2, SourceIs, SourceIsLinkless DEF RequestFits
  <2>3. Since(fs, Source(r), stamp)
    BY <1>2, <1>4, <2>2, SinceNow
  <2> HIDE DEF stamp
  <2>4. ASSUME NEW k \in DOMAIN cache, k.path = Source(r), k.stat = stamp
        PROVE  Saw(past[r], k.path, cache[k].stamp)
    <3>1. /\ k.stat <= cache[k].stamp /\ cache[k].stamp \in 0..clock
          /\ FileThere(Source(r)) /\ Since(fs, Source(r), cache[k].stamp)
      BY <1>2, <2>4 DEF CacheFits
    <3>2. IsFile(fs, Source(r))
      BY <1>4, <2>2, <2>0, <3>1, StaysAFile
    <3>3. cache[k].stamp <= stamp
      BY <2>0, <2>2, <3>1, <3>2, SinceThen DEF stamp
    <3>4. cache[k].stamp = stamp
      BY <1>2, <2>2, <2>4, <3>1, <3>3
    <3> QED BY <1>2, <2>4, <3>2, <3>4 DEF Saw, stamp
  <2>5. /\ x.pc = next /\ x.ask = req[r].ask /\ x.looked = req[r].looked
        /\ x.stat = stamp /\ x.out = req[r].out /\ x.path = req[r].path
    BY <1>2 DEF Shaped, At
  <2> HIDE DEF x
  <2>6. SourceOf(x) = Source(r)
    BY <2>5, SourceIs DEF SourceOf
  <2>7. x.looked > Len(Sidecars) <=> Embedded(r)
    BY <2>5 DEF Embedded
  <2>8. RequestFits(x, clock)
    BY <1>2, <2>1, <2>2, <2>5 DEF RequestFits, Phases
  <2>9. InTime(x, past[r], fs, cache)
    BY <1>2, <2>1, <2>3, <2>4, <2>5, <2>6, <2>7 DEF InTime, AtSource, Size
  <2> QED BY <1>1, <1>4, <2>8, <2>9, OnlyOneTimed
<1> QED BY <1>3, <1>4 DEF Stat

LEMMA ReadTimed ==
  ASSUME IInv, TimesInv, NEW r \in Requests, Read(r)
  PROVE  TimesInv'
<1>1. Running(r) /\ req[r].pc = "read" /\ UNCHANGED <<fs, cache, clock, past>>
  BY DEF Read, Running, ends
<1>2. fs \in past[r] /\ Size(r) = "original"
  BY <1>1 DEF IInv, Good, Running, TimesInv, InTime, Size
<1>3. CASE /\ IsFile(fs, Source(r))
           /\ Become(r, Opened(r, Source(r), "original"))
  <2>1. Saw(past[r], Source(r), StampAt(fs, Source(r))) /\ "original" \in Sizes
    BY <1>2, <1>3 DEF Saw, Sizes
  <2> QED BY <1>1, <1>2, <1>3, <2>1, ServedTimed, OnlyOneTimed DEF Opened
<1>4. CASE Become(r, Ended(r, 502))
  BY <1>1, <1>4, EndedTimed, OnlyOneTimed
<1> QED BY <1>3, <1>4 DEF Read

(* A request at its source that is given what the cache has. *)
LEMMA FromCacheTimed ==
  ASSUME IInv, TimesInv, NEW r \in Requests, NEW c, NEW size, NEW f,
         CacheKey(Source(r), req[r].stat, size) \in DOMAIN c,
         c[CacheKey(Source(r), req[r].stat, size)].size = size,
         size = Size(r),
         Saw(past[r], Source(r), c[CacheKey(Source(r), req[r].stat, size)].stamp)
  PROVE  LET key == CacheKey(Source(r), req[r].stat, size)
             x == Served(r, Source(r), Nowhere, c[key].stamp, c[key].size)
         IN RequestFits(x, clock) /\ InTime(x, past[r], f, c)
<1>1. size \in Sizes
  BY SizeIs DEF Size, Sizes
<1> QED BY <1>1, ServedTimed

(* A file is read at its time: it has the time of the look or a later one.      *)
LEMMA ReadsLater ==
  ASSUME SidecarsArePlain, IInv, LinkInv, TimesInv, NEW r \in Requests, req[r].pc \in AtSource,
         IsFile(fs, Source(r))
  PROVE  LET stamp == StampAt(fs, Source(r))
         IN /\ stamp \in 0..clock /\ req[r].stat \in Nat /\ req[r].stat <= stamp
            /\ FileThere(Source(r)) /\ Since(fs, Source(r), stamp)
            /\ \A q \in Requests : Running(q) => Saw(past[q], Source(r), stamp)
<1> DEFINE stamp == StampAt(fs, Source(r))
<1>1. /\ TreeFits(fs, clock) /\ clock \in Nat /\ req[r].stat \in 0..clock
      /\ Since(fs, Source(r), req[r].stat)
  BY SourceIs DEF TimesInv, InTime, RequestFits
<1>2. stamp \in 0..clock /\ MayBe(fs)
  BY <1>1, StampFits DEF TreeFits
<1>3. req[r].stat <= stamp
  <2>1. Linkless(Source(r))
    BY SourceIs, SourceIsLinkless DEF TimesInv, RequestFits, AtSource
  <2> QED BY <1>1, <1>2, <2>1, SinceThen
<1>4. FileThere(Source(r))
  BY <1>2 DEF FileThere
<1>5. FileAt(fs, Source(r)).type # "none" /\ stamp \in Nat
  BY <1>1, <1>2 DEF IsFile
<1>6. Since(fs, Source(r), stamp)
  BY <1>2, <1>5, SinceNow
<1>7. ASSUME NEW q \in Requests, Running(q)
      PROVE  Saw(past[q], Source(r), stamp)
  <2>1. fs \in past[q]
    BY <1>7 DEF IInv, Good, Running
  <2> QED BY <2>1 DEF Saw
<1> QED BY <1>1, <1>2, <1>3, <1>4, <1>6, <1>7

LEMMA ExtractTimed ==
  ASSUME SidecarsArePlain, IInv, LinkInv, OrderInv, TimesInv, NEW r \in Requests, Extract(r)
  PROVE  TimesInv'
<1> DEFINE key == CacheKey(req[r].path, req[r].stat, "original")
           next == IF Size(r) = "original" THEN ServedFrom(r, key) ELSE At(r, "resize")
<1>1. Running(r) /\ req[r].pc = "extract" /\ UNCHANGED <<fs, clock, past>>
  BY DEF Extract, Running, ends
<1>2. /\ Shaped(req[r]) /\ req[r].out.status = 0
      /\ RequestFits(req[r], clock) /\ InTime(req[r], past[r], fs, cache)
      /\ req[r].looked > Len(Sidecars) /\ CacheFits(fs, cache, clock)
  BY <1>1 DEF IInv, Good, Running, TimesInv, OrderInv, Looking
<1>3. Source(r) = req[r].path /\ Source(r) = SourceOf(req[r])
  BY <1>2, SourceIs DEF Source, Embedded
<1>4. key.path = req[r].path /\ key.stat = req[r].stat /\ key.size = "original"
  BY DEF CacheKey
<1> HIDE DEF key
(* Once the cache has the extracted picture: *)
<1>5. ASSUME key \in DOMAIN cache', cache'[key].size = "original",
             Saw(past[r], req[r].path, cache'[key].stamp),
             \A k \in DOMAIN cache' \ {key} : k \in DOMAIN cache /\ cache'[k] = cache[k]
      PROVE  RequestFits(next, clock) /\ InTime(next, past[r], fs, cache')
  <2>1. CASE Size(r) = "original"
    <3>1. LET y == Served(r, Source(r), Nowhere, cache'[key].stamp, cache'[key].size)
          IN RequestFits(y, clock) /\ InTime(y, past[r], fs, cache')
      BY <1>3, <1>5, <2>1, FromCacheTimed DEF key
    <3> QED BY <2>1, <3>1 DEF ServedFrom
  <2>2. CASE Size(r) # "original"
    <3> DEFINE x == At(r, "resize")
    <3>1. /\ x.pc = "resize" /\ x.ask = req[r].ask /\ x.looked = req[r].looked
          /\ x.stat = req[r].stat /\ x.out = req[r].out /\ x.path = req[r].path
      BY <1>2 DEF Shaped, At
    <3> HIDE DEF x
    <3>2. SourceOf(x) = req[r].path
      BY <1>2, <3>1 DEF SourceOf
    <3>3. CacheKey(x.path, x.stat, "original") = key
      BY <3>1 DEF key
    <3>4. ASSUME NEW k \in DOMAIN cache', k.path = req[r].path, k.stat = req[r].stat
          PROVE  Saw(past[r], k.path, cache'[k].stamp)
      <4>1. CASE k = key
        BY <1>4, <1>5, <4>1
      <4>2. CASE k # key
        <5>1. k \in DOMAIN cache /\ cache'[k] = cache[k]
          BY <1>5, <3>4, <4>2
        <5> QED BY <1>1, <1>2, <1>3, <3>4, <5>1 DEF InTime, AtSource
      <4> QED BY <4>1, <4>2
    <3>5. RequestFits(x, clock)
      BY <1>2, <3>1 DEF RequestFits, Phases
    <3>6. InTime(x, past[r], fs, cache')
      BY <1>1, <1>2, <1>3, <1>5, <3>1, <3>2, <3>3, <3>4, ZenonT(40) DEF InTime, AtSource
    <3> QED BY <2>2, <3>5, <3>6 DEF x
  <2> QED BY <2>1, <2>2
<1> HIDE DEF next
<1>6. CASE key \in DOMAIN cache /\ UNCHANGED cache /\ Become(r, next)
  <2>1. /\ key \in DOMAIN cache' /\ cache'[key].size = "original"
        /\ Saw(past[r], req[r].path, cache'[key].stamp)
    BY <1>1, <1>2, <1>3, <1>4, <1>6 DEF CacheFits, InTime, AtSource
  <2>2. RequestFits(next, clock) /\ InTime(next, past[r], fs, cache)
    BY <1>5, <1>6, <2>1
  <2> QED BY <1>1, <1>6, <2>2, OnlyOneTimed
<1>7. CASE /\ key \notin DOMAIN cache /\ IsFile(fs, req[r].path)
           /\ cache' = With(key, StampAt(fs, req[r].path))
           /\ Become(r, next)
  <2> DEFINE stamp == StampAt(fs, req[r].path)
  <2>1. /\ stamp \in 0..clock /\ req[r].stat \in Nat /\ req[r].stat <= stamp
        /\ FileThere(req[r].path) /\ Since(fs, req[r].path, stamp)
        /\ \A q \in Requests : Running(q) => Saw(past[q], req[r].path, stamp)
    BY <1>1, <1>3, <1>7, ReadsLater DEF AtSource
  <2> HIDE DEF stamp
  <2>2. /\ DOMAIN cache' = DOMAIN cache \cup {key}
        /\ \A k \in DOMAIN cache : cache'[k] = cache[k]
        /\ cache'[key] = [stamp |-> stamp, size |-> key.size]
    BY <1>7, Grows, SMTT(30) DEF stamp
  <2>3. RequestFits(next, clock) /\ InTime(next, past[r], fs, cache')
    BY <1>1, <1>4, <1>5, <2>1, <2>2
  <2>4. cache' = With(CacheKey(req[r].path, req[r].stat, "original"), stamp)
    BY <1>7 DEF key, stamp
  <2> QED BY <1>1, <1>7, <2>1, <2>3, <2>4, GrowsInTime DEF key
<1>8. CASE UNCHANGED cache /\ \E status \in {404, 502} : Become(r, Ended(r, status))
  BY <1>1, <1>8, EndedTimed, OnlyOneTimed
<1>9. \/ key \in DOMAIN cache /\ UNCHANGED cache /\ Become(r, next)
      \/ UNCHANGED cache /\ \E status \in {404, 502} : Become(r, Ended(r, status))
      \/ /\ key \notin DOMAIN cache /\ IsFile(fs, req[r].path)
         /\ cache' = With(key, StampAt(fs, req[r].path))
         /\ Become(r, next)
  <2>1. IsFile(fs, req[r].path) => StampAt(fs, req[r].path) = FileAt(fs, req[r].path).stamp
    BY DEF StampAt
  <2> QED BY <2>1 DEF Extract, key, next, IsFile
<1> QED BY <1>6, <1>7, <1>8, <1>9

----
LEMMA ResizeTimed ==
  ASSUME SidecarsArePlain, IInv, LinkInv, OrderInv, TimesInv, NEW r \in Requests, Resize(r)
  PROVE  TimesInv'
<1> DEFINE key == CacheKey(Source(r), req[r].stat, Size(r))
           stored == CacheKey(Source(r), req[r].stat, "original")
           stamp == IF Embedded(r) THEN cache[stored].stamp ELSE StampAt(fs, Source(r))
<1>1. Running(r) /\ req[r].pc = "resize" /\ UNCHANGED <<fs, clock, past>>
  BY DEF Resize, Running, ends
<1>2. /\ RequestFits(req[r], clock) /\ InTime(req[r], past[r], fs, cache)
      /\ CacheFits(fs, cache, clock) /\ clock \in Nat
  BY DEF TimesInv
<1>3. Source(r) = SourceOf(req[r])
  BY SourceIs
<1>4. key.path = Source(r) /\ key.stat = req[r].stat /\ key.size = Size(r)
  BY DEF CacheKey
<1>5. stored.path = Source(r) /\ stored.stat = req[r].stat
  BY DEF CacheKey
<1> HIDE DEF key, stored
<1>6. ASSUME key \in DOMAIN cache', cache'[key].size = Size(r),
             Saw(past[r], Source(r), cache'[key].stamp)
      PROVE  RequestFits(ServedFrom(r, key), clock) /\ InTime(ServedFrom(r, key), past[r], fs, cache')
  <2>1. LET y == Served(r, Source(r), Nowhere, cache'[key].stamp, cache'[key].size)
        IN RequestFits(y, clock) /\ InTime(y, past[r], fs, cache')
    BY <1>6, FromCacheTimed DEF key
  <2> QED BY <2>1 DEF ServedFrom
<1>7. CASE key \in DOMAIN cache /\ UNCHANGED cache /\ Become(r, ServedFrom(r, key))
  <2>1. /\ key \in DOMAIN cache' /\ cache'[key].size = Size(r)
        /\ Saw(past[r], Source(r), cache'[key].stamp)
    BY <1>1, <1>2, <1>3, <1>4, <1>7 DEF CacheFits, InTime, AtSource
  <2>2. /\ RequestFits(ServedFrom(r, key), clock)
        /\ InTime(ServedFrom(r, key), past[r], fs, cache')
    BY <1>6, <2>1
  <2> QED BY <1>1, <1>7, <2>2, OnlyOneTimed
<1>8. CASE /\ key \notin DOMAIN cache /\ (Embedded(r) \/ IsFile(fs, Source(r)))
           /\ cache' = With(key, stamp) /\ Become(r, ServedFrom(r, key))
  <2>1. /\ stamp \in 0..clock /\ req[r].stat \in Nat /\ req[r].stat <= stamp
        /\ FileThere(Source(r)) /\ Since(fs, Source(r), stamp)
        /\ \A q \in Requests :
             Running(q) /\ SourceOf(req[q]) = Source(r) /\ req[q].stat = req[r].stat
               /\ req[q].pc \in AtSource => Saw(past[q], Source(r), stamp)
    <3>1. CASE Embedded(r)
      <4>1. stamp = cache[stored].stamp
        BY <3>1
      <4>2. stored \in DOMAIN cache
        BY <1>1, <1>2, <3>1 DEF InTime, stored, Embedded, Source
      <4>3. /\ stamp \in 0..clock /\ req[r].stat \in Nat /\ req[r].stat <= stamp
            /\ FileThere(Source(r)) /\ Since(fs, Source(r), stamp)
        BY <1>2, <1>5, <4>1, <4>2 DEF CacheFits
      <4>4. ASSUME NEW q \in Requests, SourceOf(req[q]) = Source(r),
                   req[q].stat = req[r].stat, req[q].pc \in AtSource
            PROVE  Saw(past[q], Source(r), stamp)
        <5>1. InTime(req[q], past[q], fs, cache)
          BY DEF TimesInv
        <5> QED BY <1>5, <4>1, <4>2, <4>4, <5>1 DEF InTime
      <4> QED BY <4>3, <4>4
    <3>2. CASE ~Embedded(r)
      <4>1. stamp = StampAt(fs, Source(r)) /\ IsFile(fs, Source(r)) /\ req[r].pc \in AtSource
        BY <1>1, <1>8, <3>2 DEF AtSource
      <4> HIDE DEF stamp
      <4> QED BY <4>1, ReadsLater
    <3> QED BY <3>1, <3>2
  <2> HIDE DEF stamp
  <2>2. /\ DOMAIN cache' = DOMAIN cache \cup {key}
        /\ cache'[key] = [stamp |-> stamp, size |-> key.size]
    BY <1>8, Grows
  <2>3. Saw(past[r], Source(r), stamp)
    BY <1>1, <1>3, <2>1 DEF AtSource
  <2>4. /\ RequestFits(ServedFrom(r, key), clock)
        /\ InTime(ServedFrom(r, key), past[r], fs, cache')
    BY <1>4, <1>6, <2>2, <2>3
  <2> QED BY <1>1, <1>8, <2>1, <2>4, GrowsInTime DEF key
<1>9. CASE UNCHANGED cache /\ Become(r, Ended(r, 502))
  BY <1>1, <1>9, EndedTimed, OnlyOneTimed
<1>10. \/ key \in DOMAIN cache /\ UNCHANGED cache /\ Become(r, ServedFrom(r, key))
       \/ UNCHANGED cache /\ Become(r, Ended(r, 502))
       \/ /\ key \notin DOMAIN cache /\ (Embedded(r) \/ IsFile(fs, Source(r)))
          /\ cache' = With(key, stamp) /\ Become(r, ServedFrom(r, key))
  BY DEF Resize, key, stored
<1> QED BY <1>7, <1>8, <1>9, <1>10

LEMMA ChangeTimed ==
  ASSUME IInv, TimesInv, Change
  PROVE  TimesInv'
<1>0. PICK path \in DOMAIN Changes : \E node \in Changes[path] :
        fs' = [fs EXCEPT ![path] =
                 IF node.type = "file"
                 THEN [type |-> "file", picture |-> node.picture, stamp |-> clock + 1]
                 ELSE node]
  BY DEF Change
<1>1. PICK node \in Changes[path] :
        fs' = [fs EXCEPT ![path] =
                 IF node.type = "file"
                 THEN [type |-> "file", picture |-> node.picture, stamp |-> clock + 1]
                 ELSE node]
  BY <1>0
<1>2. /\ UNCHANGED <<cache, req>> /\ clock' = clock + 1 /\ clock \in Nat /\ clock' \in Nat
      /\ \A r \in Requests : past[r] \subseteq past'[r]
  BY DEF Change, TimesInv
<1> DEFINE new == IF node.type = "file"
                  THEN [type |-> "file", picture |-> node.picture, stamp |-> clock + 1]
                  ELSE node
<1>3. /\ DOMAIN fs' = DOMAIN fs
      /\ \A p \in DOMAIN fs : fs'[p] = IF p = path THEN new ELSE fs[p]
  BY <1>1
<1>4. /\ new.type = node.type /\ (node.type = "link" => new.to = node.to)
      /\ new.type = "file" => new.stamp = clock + 1
  OBVIOUS
<1> HIDE DEF new
<1>5. TreeFits(fs, clock)
  BY DEF TimesInv
<1>6. TreeFits(fs', clock')
  <2>1. MayBe(fs')
    BY <1>5, ChangeMayBe DEF TreeFits
  <2>2. \A p \in DOMAIN fs' : fs'[p].type = "file" => fs'[p].stamp \in 0..clock'
    BY <1>2, <1>3, <1>4, <1>5 DEF TreeFits
  <2> QED BY <1>3, <1>5, <2>1, <2>2 DEF TreeFits
(* A file that is new is newer than any before. *)
<1>7. ASSUME NEW p, NEW stamp \in 0..clock, Since(fs, p, stamp)
      PROVE  Since(fs', p, stamp)
  <2>1. PICK g : /\ MayBe(g) /\ Real(g, p) # Nowhere
                 /\ Node(fs, Real(g, p)).type = "file" => stamp <= Node(fs, Real(g, p)).stamp
    BY <1>7 DEF Since
  <2>2. \A q : Node(fs', q) = Node(fs, q) \/ Node(fs', q) = new
    BY <1>3 DEF Node
  <2>3. Node(fs', Real(g, p)).type = "file" => stamp <= Node(fs', Real(g, p)).stamp
    BY <1>2, <1>4, <2>1, <2>2
  <2> QED BY <2>1, <2>3 DEF Since
<1>8. CacheFits(fs', cache', clock')
  <2>1. CacheFits(fs, cache, clock)
    BY DEF TimesInv
  <2> QED BY <1>2, <1>7, <2>1 DEF CacheFits
<1>9. ASSUME NEW r \in Requests
      PROVE  RequestFits(req[r], clock') /\ InTime(req[r], past'[r], fs', cache)
  <2>1. RequestFits(req[r], clock) /\ InTime(req[r], past[r], fs, cache)
    BY DEF TimesInv
  <2>2. \A p, stamp : Saw(past[r], p, stamp) => Saw(past'[r], p, stamp)
    BY <1>2 DEF Saw
  <2>3. RequestFits(req[r], clock')
    BY <1>2, <2>1 DEF RequestFits
  <2>4. req[r].pc \in AtSource => Since(fs', SourceOf(req[r]), req[r].stat)
    BY <1>7, <2>1 DEF InTime, RequestFits
  <2>5. InTime(req[r], past'[r], fs', cache)
    BY <2>1, <2>2, <2>4 DEF InTime
  <2> QED BY <2>3, <2>5
<1> QED BY <1>2, <1>6, <1>8, <1>9 DEF TimesInv

LEMMA StepTimed ==
  ASSUME KindsStay, SidecarsArePlain, IInv, LinkInv, OrderInv, TimesInv, [Next]_vars
  PROVE  TimesInv'
<1>1. ASSUME NEW r \in Requests,
             \/ Arrive(r) \/ ResolveKey(r) \/ Open(r)
             \/ Find(r) \/ Stat(r) \/ Read(r) \/ Extract(r) \/ Resize(r)
      PROVE  TimesInv'
  BY <1>1, ArriveTimed, ResolveKeyTimed, OpenTimed, FindTimed, StatTimed, ReadTimed,
     ExtractTimed, ResizeTimed
<1>2. CASE Change
  BY <1>2, ChangeTimed
<1>3. CASE UNCHANGED <<fs, cache, req, past, clock>>
  BY <1>3 DEF TimesInv
<1>4. Save \/ Rotate \/ UNCHANGED vars => UNCHANGED <<fs, cache, req, past, clock>>
  BY DEF Save, Rotate, vars
<1> QED BY <1>1, <1>2, <1>3, <1>4 DEF Next

(* What the world has is of its kind. *)
WorldFits ==
  live \in Configs /\ portal \in Portals /\ minted \subseteq Portals /\ events \in 0..MaxEvents

LEMMA WorldKept == WorldFits /\ [Next]_vars => WorldFits'
<1> SUFFICES ASSUME WorldFits, [Next]_vars PROVE WorldFits'
  OBVIOUS
<1>1. MaxEvents \in Nat
  BY RoutesAssumption
<1>2. ASSUME NEW r \in Requests,
             \/ Arrive(r) \/ ResolveKey(r) \/ Open(r)
             \/ Find(r) \/ Stat(r) \/ Read(r) \/ Extract(r) \/ Resize(r)
      PROVE  UNCHANGED ends /\ (events' = events \/ Event)
  <2>1. CASE Arrive(r)
    BY <2>1 DEF Arrive
  <2>2. CASE ResolveKey(r)
    BY <2>2 DEF ResolveKey
  <2>3. CASE Open(r)
    BY <2>3 DEF Open
  <2>4. CASE Find(r)
    BY <2>4 DEF Find
  <2>5. CASE Stat(r)
    BY <2>5 DEF Stat
  <2>6. CASE Read(r)
    BY <2>6 DEF Read
  <2>7. CASE Extract(r)
    BY <2>7 DEF Extract
  <2>8. CASE Resize(r)
    BY <2>8 DEF Resize
  <2> QED BY <1>2, <2>1, <2>2, <2>3, <2>4, <2>5, <2>6, <2>7, <2>8
<1>3. Event => events' \in 0..MaxEvents
  BY <1>1 DEF Event, WorldFits
<1>4. CASE UNCHANGED ends /\ (events' = events \/ Event)
  BY <1>3, <1>4 DEF WorldFits, ends
<1>5. CASE Change
  BY <1>4, <1>5 DEF Change
<1>6. CASE Save
  BY <1>3, <1>6 DEF Save, WorldFits
<1>7. CASE Rotate
  BY <1>3, <1>7 DEF Rotate, WorldFits
<1>8. CASE UNCHANGED vars
  BY <1>4, <1>8 DEF vars
<1> QED BY <1>2, <1>4, <1>5, <1>6, <1>7, <1>8 DEF Next

(* Every variable keeps its type: in particular an entry of the cache is never  *)
(* older than the look at its source that it is kept for.                       *)
THEOREM TypeCorrect ==
  ASSUME KindsStay, SidecarsArePlain
  PROVE  Spec => []TypeOK
<1>1. Init => WorldFits
  BY RoutesAssumption DEF Init, WorldFits
<1>2. KindsStay /\ SidecarsArePlain /\ IInv /\ LinkInv /\ OrderInv /\ TimesInv /\ [Next]_vars
        => TimesInv'
  BY StepTimed
<1>3. IInv /\ TimesInv /\ WorldFits => TypeOK
  BY DEF IInv, Good, TimesInv, WorldFits, TreeFits, CacheFits, RequestFits, Statuses, Sizes, TypeOK
<1>4. LinksStay /\ IInv /\ LinkInv /\ [Next]_vars => LinkInv'
  BY StepLinked
<1> QED BY <1>1, <1>2, <1>3, <1>4, WorldKept, InitTimed, InitGood, StepGood, InitLinked,
           InitOrdered, StepOrdered, KindsKeepLinks, PTL DEF Spec

(* Nothing a file held before the request comes out of the cache, for any       *)
(* number of requests that fill it for each other and of files that are         *)
(* replaced, come and go and of links that are led elsewhere, where each path   *)
(* keeps the kind of what is there and no sidecar is a link.                    *)
THEOREM AnswersAreOfTheirTime ==
  ASSUME KindsStay, SidecarsArePlain
  PROVE  Spec => []AnswerOfItsTime
<1>1. KindsStay /\ SidecarsArePlain /\ IInv /\ LinkInv /\ OrderInv /\ TimesInv /\ [Next]_vars
        => TimesInv'
  BY StepTimed
<1>2. TimesInv => AnswerOfItsTime
  BY DEF TimesInv, InTime, Saw, AnswerOfItsTime, IsCover, Size
<1>3. LinksStay /\ IInv /\ LinkInv /\ [Next]_vars => LinkInv'
  BY StepLinked
<1> QED BY <1>1, <1>2, <1>3, InitTimed, InitGood, StepGood, InitLinked, InitOrdered, StepOrdered,
           KindsKeepLinks, PTL DEF Spec
====
