---- MODULE CoverCache ----
(* The cover service's disk cache (internal/covers/covers.go): how concurrent   *)
(* requests for one cover elect a leader, produce the bytes, commit them with a *)
(* rename and hand them out. Each rebuild of the configuration makes a fresh    *)
(* Service; requests of the old one go on beside it, in the same directory.     *)
(* A request asks for one cache entry: a resized image (resizedFrom) or the     *)
(* picture extracted from an audio file (extractEmbedded under serveEmbedded).  *)
EXTENDS Naturals

CONSTANTS
  Services,        \* covers.Service values that share the cache directory
  Requests,        \* goroutines serving GET /cover; each runs once
  Keys,            \* cache entries, by cacheKey (which holds the size and the kind)
  Extracted,       \* those that hold an extracted picture; the others are resized
  Size,            \* number of pieces a cover is written in
  None,
  MaxSourceFaults, \* bound: sources that cannot be read, parsed or decoded
  MaxDiskFaults,   \* bound: file operations of the cache that fail
  MaxCrashes       \* bound: times the plugin process dies

ASSUME CacheAssumption ==
  /\ Size \in Nat \ {0}
  /\ None \notin Requests \cup Keys
  /\ Extracted \subseteq Keys
  /\ MaxSourceFaults \in Nat
  /\ MaxDiskFaults \in Nat
  /\ MaxCrashes \in Nat

Pieces == 1..Size
Files == Requests \cup {None}     \* an inode is named by the request that created it

VARIABLES
  entry,      \* the inode at <key>.bin
  part,       \* the inode at <key>.bin.part
  content,    \* the pieces of the cover an inode holds; the rest is missing or zero
  inProg,     \* each Service's single-flight map: the leader that registered
  closed,     \* leaders that have closed their channel
  pc, svc, key,
  leader,     \* the request registered itself and will release
  awaits,     \* the leader whose channel a request waits on
  fd,         \* the inode a request writes to
  pos,        \* pieces it has written
  got,        \* the inode a request has opened to serve
  outcome,    \* what its client received
  sourceFaults, diskFaults, crashes

disk == <<entry, part, content>>
flight == <<inProg, closed>>
asked == <<svc, key>>
writer == <<fd, pos>>
bounds == <<sourceFaults, diskFaults, crashes>>
vars == <<disk, flight, pc, asked, leader, awaits, writer, got, outcome, bounds>>

Producing == {"produce", "create", "write", "rename"}
Releasing == {"unregister", "close"}
Running == Producing \cup Releasing \cup
           {"probe", "acquire", "wait", "recheck", "remove", "open", "serve"}

TypeOK ==
  /\ entry \in [Keys -> Files]
  /\ part \in [Keys -> Files]
  /\ content \in [Requests -> SUBSET Pieces]
  /\ inProg \in [Services -> [Keys -> Files]]
  /\ closed \in SUBSET Requests
  /\ pc \in [Requests -> Running \cup {"idle", "done", "dead"}]
  /\ svc \in [Requests -> Services]
  /\ key \in [Requests -> Keys]
  /\ leader \in [Requests -> BOOLEAN]
  /\ awaits \in [Requests -> Files]
  /\ fd \in [Requests -> Files]
  /\ pos \in [Requests -> 0..Size]
  /\ got \in [Requests -> Files]
  /\ outcome \in [Requests -> {"none", "cover", "torn", "error"}]
  /\ sourceFaults \in Nat
  /\ diskFaults \in Nat
  /\ crashes \in Nat

Init ==
  /\ entry = [k \in Keys |-> None]
  /\ part = [k \in Keys |-> None]
  /\ content = [r \in Requests |-> {}]
  /\ inProg = [v \in Services |-> [k \in Keys |-> None]]
  /\ closed = {}
  /\ pc = [r \in Requests |-> "idle"]
  /\ svc \in [Requests -> Services]
  /\ key \in [Requests -> Keys]
  /\ leader = [r \in Requests |-> FALSE]
  /\ awaits = [r \in Requests |-> None]
  /\ fd = [r \in Requests |-> None]
  /\ pos = [r \in Requests |-> 0]
  /\ got = [r \in Requests |-> None]
  /\ outcome = [r \in Requests |-> "none"]
  /\ sourceFaults = 0
  /\ diskFaults = 0
  /\ crashes = 0

----
(* Building blocks                                                              *)

Goto(r, from, to) ==
  /\ pc[r] = from
  /\ pc' = [pc EXCEPT ![r] = to]

Entry(r) == entry[key[r]]
Part(r) == part[key[r]]
Resized(r) == key[r] \notin Extracted

(* The deferred release comes first for whoever registered; then the picture    *)
(* that was extracted is opened, and an error is returned.                      *)
Leave(r, result, file) ==
  IF leader[r] THEN "unregister"
  ELSE IF result = "error" THEN "done"
  ELSE IF file = None THEN "open" ELSE "serve"

(* Mutant: an error returns without the release. *)
FailKeepsFlight(r, from) ==
  /\ Goto(r, from, "done")
  /\ outcome' = [outcome EXCEPT ![r] = "error"]

Fail(r, from) ==
  /\ Goto(r, from, Leave(r, "error", None))
  /\ outcome' = [outcome EXCEPT ![r] = "error"]

SourceFault ==
  /\ sourceFaults < MaxSourceFaults
  /\ sourceFaults' = sourceFaults + 1
  /\ UNCHANGED <<diskFaults, crashes>>

DiskFault ==
  /\ diskFaults < MaxDiskFaults
  /\ diskFaults' = diskFaults + 1
  /\ UNCHANGED <<sourceFaults, crashes>>

----
(* One request                                                                  *)

(* What a request asks for was fixed when it was dispatched: its Service is the *)
(* one its handler captured, which need not be the newest.                      *)
Start(r) ==
  /\ Goto(r, "idle", "probe")
  /\ UNCHANGED <<disk, flight, asked, leader, awaits, writer, got, outcome, bounds>>

(* The first look, without the single flight: tryOpen for a resized image, Stat *)
(* for an extracted one.                                                        *)
Probe(r) ==
  /\ \/ /\ Entry(r) = None
        /\ Goto(r, "probe", "acquire")
        /\ UNCHANGED got
     \/ /\ Entry(r) # None
        /\ Resized(r)
        /\ Goto(r, "probe", "serve")
        /\ got' = [got EXCEPT ![r] = Entry(r)]
     \/ /\ Entry(r) # None
        /\ ~Resized(r)
        /\ Goto(r, "probe", "open")
        /\ UNCHANGED got
  /\ UNCHANGED <<disk, flight, asked, leader, awaits, writer, outcome, bounds>>

Registered(r) == inProg[svc[r]][key[r]]

(* Mutant: the leader is not entered in the map. *)
AcquireUnregistered(r) ==
  /\ Goto(r, "acquire", "recheck")
  /\ UNCHANGED <<disk, flight, asked, leader, awaits, writer, got, outcome, bounds>>

Acquire(r) ==
  /\ \/ /\ Registered(r) # None
        /\ Goto(r, "acquire", "wait")
        /\ awaits' = [awaits EXCEPT ![r] = Registered(r)]
        /\ UNCHANGED <<inProg, leader>>
     \/ /\ Registered(r) = None
        /\ Goto(r, "acquire", "recheck")
        /\ inProg' = [inProg EXCEPT ![svc[r]][key[r]] = r]
        /\ leader' = [leader EXCEPT ![r] = TRUE]
        /\ UNCHANGED awaits
  /\ UNCHANGED <<disk, closed, asked, writer, got, outcome, bounds>>

(* Mutant: a waiter does not wait. *)
WaitNot(r) ==
  /\ Goto(r, "wait", "recheck")
  /\ UNCHANGED <<disk, flight, asked, leader, awaits, writer, got, outcome, bounds>>

(* A waiter goes on when the channel closes; it does not register itself.       *)
Wait(r) ==
  /\ awaits[r] \in closed
  /\ Goto(r, "wait", "recheck")
  /\ UNCHANGED <<disk, flight, asked, leader, awaits, writer, got, outcome, bounds>>

Recheck(r) ==
  LET file == IF Resized(r) THEN Entry(r) ELSE None IN
  /\ \/ /\ Entry(r) = None
        /\ Goto(r, "recheck", "produce")
        /\ UNCHANGED got
     \/ /\ Entry(r) # None
        /\ Goto(r, "recheck", Leave(r, "cover", file))
        /\ got' = [got EXCEPT ![r] = file]
  /\ UNCHANGED <<disk, flight, asked, leader, awaits, writer, outcome, bounds>>

(* Read the source and resize it, or read the tags and take the picture.        *)
Produce(r) ==
  /\ \/ /\ Goto(r, "produce", "create")
        /\ UNCHANGED <<outcome, bounds>>
     \/ Fail(r, "produce") /\ SourceFault
  /\ UNCHANGED <<disk, flight, asked, leader, awaits, writer, got>>

(* os.WriteFile opens the temporary file with O_CREATE and O_TRUNC: the file    *)
(* another writer has open under that name is emptied, not replaced.            *)
Create(r) ==
  LET file == IF Part(r) = None THEN r ELSE Part(r) IN
  /\ \/ /\ Goto(r, "create", "write")
        /\ part' = [part EXCEPT ![key[r]] = file]
        /\ content' = [content EXCEPT ![file] = {}]
        /\ fd' = [fd EXCEPT ![r] = file]
        /\ UNCHANGED <<outcome, bounds>>
     \/ Fail(r, "create") /\ DiskFault /\ UNCHANGED <<part, content, fd>>
  /\ UNCHANGED <<entry, flight, asked, leader, awaits, pos, got>>

(* Mutant: the loop runs once too often. *)
WriteOneMore(r) ==
  /\ Goto(r, "write", IF pos[r] = Size THEN "rename" ELSE "write")
  /\ content' = [content EXCEPT ![fd[r]] = @ \cup {pos[r] + 1}]
  /\ pos' = [pos EXCEPT ![r] = @ + 1]
  /\ UNCHANGED <<entry, part, flight, asked, leader, awaits, fd, got, outcome, bounds>>

(* Mutant: a short write is taken for a whole one. *)
WriteShort(r) ==
  /\ Goto(r, "write", "rename")
  /\ content' = [content EXCEPT ![fd[r]] = @ \cup {pos[r] + 1}]
  /\ pos' = [pos EXCEPT ![r] = Size]
  /\ UNCHANGED <<entry, part, flight, asked, leader, awaits, fd, got, outcome, bounds>>

(* The descriptor writes at its own offset, wherever its file is named now.     *)
Write(r) ==
  /\ \/ /\ Goto(r, "write", IF pos[r] + 1 = Size THEN "rename" ELSE "write")
        /\ content' = [content EXCEPT ![fd[r]] = @ \cup {pos[r] + 1}]
        /\ pos' = [pos EXCEPT ![r] = @ + 1]
        /\ UNCHANGED <<outcome, bounds>>
     \/ Fail(r, "write") /\ DiskFault /\ UNCHANGED <<content, pos>>
  /\ UNCHANGED <<entry, part, flight, asked, leader, awaits, fd, got>>

(* The rename commits whatever file has the temporary name, its own or not.     *)
Rename(r) ==
  /\ \/ /\ Part(r) # None
        /\ Goto(r, "rename", IF Resized(r) THEN "open" ELSE Leave(r, "cover", None))
        /\ entry' = [entry EXCEPT ![key[r]] = Part(r)]
        /\ part' = [part EXCEPT ![key[r]] = None]
        /\ UNCHANGED bounds
     \/ /\ Goto(r, "rename", "remove")
        /\ DiskFault \/ (Part(r) = None /\ UNCHANGED bounds)
        /\ UNCHANGED <<entry, part>>
  /\ UNCHANGED <<content, flight, asked, leader, awaits, writer, got, outcome>>

(* A rename that failed removes the temporary name, even if it is another's.    *)
Remove(r) ==
  /\ Fail(r, "remove")
  /\ part' = [part EXCEPT ![key[r]] = None]
  /\ UNCHANGED <<entry, content, flight, asked, leader, awaits, writer, got, bounds>>

(* The deferred release, in two steps: leave the map, then wake the waiters.    *)
Unregister(r) ==
  /\ Goto(r, "unregister", "close")
  /\ inProg' = [inProg EXCEPT ![svc[r]][key[r]] = None]
  /\ UNCHANGED <<disk, closed, asked, leader, awaits, writer, got, outcome, bounds>>

(* Mutant: the channel is never closed. *)
CloseForgets(r) ==
  /\ Goto(r, "close", IF outcome[r] = "error" THEN "done"
                      ELSE IF got[r] = None THEN "open" ELSE "serve")
  /\ leader' = [leader EXCEPT ![r] = FALSE]
  /\ UNCHANGED <<disk, flight, asked, awaits, writer, got, outcome, bounds>>

Close(r) ==
  /\ Goto(r, "close", IF outcome[r] = "error" THEN "done"
                      ELSE IF got[r] = None THEN "open" ELSE "serve")
  /\ closed' = closed \cup {r}
  /\ leader' = [leader EXCEPT ![r] = FALSE]
  /\ UNCHANGED <<disk, inProg, asked, awaits, writer, got, outcome, bounds>>

(* openResult on the committed entry, inside the single flight for a resized    *)
(* image, after it for an extracted one.                                        *)
Open(r) ==
  /\ \/ /\ Entry(r) # None
        /\ Goto(r, "open", Leave(r, "cover", Entry(r)))
        /\ got' = [got EXCEPT ![r] = Entry(r)]
        /\ UNCHANGED <<outcome, bounds>>
     \/ Fail(r, "open") /\ DiskFault /\ UNCHANGED got
  /\ UNCHANGED <<disk, flight, asked, leader, awaits, writer>>

(* http.ServeContent copies the open file to the client.                        *)
Serve(r) ==
  /\ Goto(r, "serve", "done")
  /\ outcome' = [outcome EXCEPT ![r] =
                   IF content[got[r]] = Pieces THEN "cover" ELSE "torn"]
  /\ UNCHANGED <<disk, flight, asked, leader, awaits, writer, got, bounds>>

----
(* The process dies: the files stay as they are, the requests and the maps go.  *)
Crash ==
  /\ crashes < MaxCrashes
  /\ crashes' = crashes + 1
  /\ pc' = [r \in Requests |-> IF pc[r] \in Running THEN "dead" ELSE pc[r]]
  /\ leader' = [r \in Requests |-> FALSE]
  /\ inProg' = [v \in Services |-> [k \in Keys |-> None]]
  /\ UNCHANGED <<disk, closed, asked, awaits, writer, got, outcome,
                 sourceFaults, diskFaults>>

Step(r) ==
  \/ Probe(r) \/ Acquire(r) \/ Wait(r) \/ Recheck(r) \/ Produce(r)
  \/ Create(r) \/ Write(r) \/ Rename(r) \/ Remove(r)
  \/ Unregister(r) \/ Close(r) \/ Open(r) \/ Serve(r)

Next ==
  \/ \E r \in Requests : Start(r) \/ Step(r)
  \/ Crash

Spec == Init /\ [][Next]_vars

(* A request that has started is run by its goroutine until it returns. *)
Fairness == \A r \in Requests : WF_vars(Step(r))

FairSpec == Spec /\ Fairness

----
(* Properties                                                                   *)

Complete(f) == content[f] = Pieces

(* "Writes are atomic via .part rename, so a crash mid-extract doesn't leave a  *)
(* corrupted entry" (docs/debugging.md:165): what stands at an entry's name is  *)
(* always the whole cover.                                                      *)
EntriesComplete == \A k \in Keys : entry[k] # None => Complete(entry[k])

(* "Single-flight via an in-memory map prevents thundering herd when many       *)
(* clients ask for the same cover" (docs/debugging.md:157-159): of the requests *)
(* to one Service, one at most is producing a given cover.                      *)
SingleFlight ==
  \A r, s \in Requests :
    (pc[r] \in Producing /\ pc[s] \in Producing
      /\ svc[r] = svc[s] /\ key[r] = key[s]) => r = s

(* An incomplete entry is on its way to completion: whoever emptied its file    *)
(* last still has it open and has the missing pieces left to write, unless a    *)
(* write failed or the process died meanwhile.                                  *)
TornIsTransient ==
  (diskFaults = 0 /\ crashes = 0) =>
    \A k \in Keys : (entry[k] # None /\ ~Complete(entry[k])) =>
      \E r \in Requests :
        /\ pc[r] = "write"
        /\ fd[r] = entry[k]
        /\ content[entry[k]] \cup (pos[r] + 1)..Size = Pieces

(* Nobody waits for a leader that is gone: the channel a waiter waits on was    *)
(* closed, or its leader is running and will release on every path.             *)
WaitersHaveLeader ==
  \A r \in Requests : pc[r] = "wait" =>
    \/ awaits[r] \in closed
    \/ pc[awaits[r]] \in Running /\ leader[awaits[r]]

CS == INSTANCE CoverStore WITH
  store <- [k \in Keys |-> IF entry[k] = None THEN "absent"
                           ELSE IF Complete(entry[k]) THEN "whole" ELSE "part"],
  wants <- [r \in Requests |-> IF pc[r] \in {"idle", "dead"} THEN None ELSE key[r]],
  answer <- outcome

(* One Service whose files do not fail is a CoverStore: covers appear whole and *)
(* stay, and every client that is answered receives the cover it asked for.     *)
ServesLikeStore == CS!Spec

(* Every request returns, though leaders fail and waiters go on without them.   *)
EveryRequestReturns == \A r \in Requests : pc[r] \in Running ~> pc[r] \notin Running
====
