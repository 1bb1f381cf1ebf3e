---- MODULE CoverCache_proofs ----
(* Theorems about CoverCache, for any number of requests, covers, pieces of a   *)
(* cover and crashes: type correctness, and the two documented guarantees of    *)
(* the cache where one Service owns the directory and nothing fails.            *)
EXTENDS CoverCache, TLAPS

----
(* Type correctness                                                             *)

(* A request creates and writes its file once: it has written nothing before.   *)
Before == {"idle", "probe", "acquire", "wait", "recheck", "produce", "create"}

PosInRange ==
  \A r \in Requests : /\ pc[r] \in Before => pos[r] = 0
                      /\ pc[r] = "write" => pos[r] < Size

TypeInv == TypeOK /\ PosInRange

Stops == Running \cup {"idle", "done", "dead"}

LEMMA TypeInit == Init => TypeInv
<1> SUFFICES ASSUME Init PROVE TypeInv
  OBVIOUS
<1> USE CacheAssumption DEF Init, Files
<1>1. entry \in [Keys -> Files] /\ part \in [Keys -> Files]
  OBVIOUS
<1>2. content \in [Requests -> SUBSET Pieces] /\ inProg \in [Services -> [Keys -> Files]]
  OBVIOUS
<1>3. pc \in [Requests -> Stops] /\ leader \in [Requests -> BOOLEAN]
  BY DEF Stops
<1>4. pos \in [Requests -> 0..Size] /\ closed \in SUBSET Requests
  OBVIOUS
<1>5. PosInRange
  BY DEF PosInRange, Before
<1> QED BY <1>1, <1>2, <1>3, <1>4, <1>5 DEF TypeInv, TypeOK, Stops

LEMMA LeaveType == \A r, result, file : Leave(r, result, file) \in Stops
  BY DEF Leave, Stops, Running, Releasing

(* A request that moves takes its control point, and no other's, along.         *)
LEMMA GotoMoves ==
  ASSUME TypeOK, NEW r \in Requests, NEW from, NEW to \in Stops, Goto(r, from, to)
  PROVE  /\ pc[r] = from /\ pc'[r] = to
         /\ pc' \in [Requests -> Stops]
         /\ \A s \in Requests : s # r => pc'[s] = pc[s]
  BY DEF Goto, TypeOK, Stops

LEMMA FailType ==
  ASSUME TypeOK, NEW r \in Requests, NEW from, Fail(r, from)
  PROVE  /\ pc[r] = from
         /\ pc'[r] \in {"unregister", "done"}
         /\ pc' \in [Requests -> Stops]
         /\ \A s \in Requests : s # r => pc'[s] = pc[s]
         /\ outcome' \in [Requests -> {"none", "cover", "torn", "error"}]
<1>1. Leave(r, "error", None) \in {"unregister", "done"}
  BY DEF Leave
<1>2. {"unregister", "done"} \subseteq Stops
  BY DEF Stops, Running, Releasing
<1>3. outcome' \in [Requests -> {"none", "cover", "torn", "error"}]
  BY DEF Fail, TypeOK
<1> QED BY <1>1, <1>2, <1>3, GotoMoves DEF Fail

LEMMA FaultType ==
  ASSUME TypeOK, SourceFault \/ DiskFault
  PROVE  sourceFaults' \in Nat /\ diskFaults' \in Nat /\ crashes' \in Nat
  BY DEF SourceFault, DiskFault, TypeOK

LEMMA TypeStep ==
  ASSUME TypeInv, NEW r \in Requests, Start(r) \/ Step(r)
  PROVE  TypeInv'
<1> USE CacheAssumption
<1>0. TypeOK /\ PosInRange
  BY DEF TypeInv
<1>1. CASE Start(r)
  <2>1. pc' \in [Requests -> Stops] /\ PosInRange'
    BY <1>0, <1>1, GotoMoves DEF Start, PosInRange, Before, Stops, Running, writer
  <2> QED BY <1>0, <1>1, <2>1
    DEF Start, TypeInv, TypeOK, Stops, disk, flight, asked, writer, bounds
<1>2. CASE Probe(r)
  <2>1. pc' \in [Requests -> Stops] /\ PosInRange'
    BY <1>0, <1>2, GotoMoves DEF Probe, PosInRange, Before, Stops, Running, writer
  <2>2. got' \in [Requests -> Files]
    BY <1>0, <1>2 DEF Probe, TypeOK, Entry
  <2> QED BY <1>0, <1>2, <2>1, <2>2
    DEF Probe, TypeInv, TypeOK, Stops, disk, flight, asked, writer, bounds
<1>3. CASE Acquire(r)
  <2>1. pc' \in [Requests -> Stops] /\ PosInRange'
    BY <1>0, <1>3, GotoMoves DEF Acquire, PosInRange, Before, Stops, Running, writer
  <2>2. /\ inProg' \in [Services -> [Keys -> Files]]
        /\ leader' \in [Requests -> BOOLEAN]
        /\ awaits' \in [Requests -> Files]
    <3>0. svc[r] \in Services /\ key[r] \in Keys /\ r \in Files
      BY <1>0 DEF TypeOK, Files
    <3>1. inProg[svc[r]] \in [Keys -> Files] /\ Registered(r) \in Files
      BY <1>0, <3>0 DEF TypeOK, Registered
    <3>2. CASE Registered(r) # None
      <4>1. awaits' = [awaits EXCEPT ![r] = Registered(r)] /\ UNCHANGED <<inProg, leader>>
        BY <1>3, <3>2 DEF Acquire
      <4> QED BY <1>0, <3>1, <4>1 DEF TypeOK
    <3>3. CASE Registered(r) = None
      <4>1. /\ inProg' = [inProg EXCEPT ![svc[r]][key[r]] = r]
            /\ leader' = [leader EXCEPT ![r] = TRUE]
            /\ UNCHANGED awaits
        BY <1>3, <3>3 DEF Acquire
      <4>2. [inProg[svc[r]] EXCEPT ![key[r]] = r] \in [Keys -> Files]
        BY <3>0, <3>1
      <4>3. inProg' \in [Services -> [Keys -> Files]]
        BY <1>0, <3>0, <4>1, <4>2 DEF TypeOK
      <4>4. leader' \in [Requests -> BOOLEAN] /\ awaits' \in [Requests -> Files]
        BY <1>0, <4>1 DEF TypeOK
      <4> QED BY <4>3, <4>4
    <3> QED BY <3>2, <3>3
  <2> QED BY <1>0, <1>3, <2>1, <2>2
    DEF Acquire, TypeInv, TypeOK, Stops, disk, flight, asked, writer, bounds
<1>4. CASE Wait(r)
  <2>1. pc' \in [Requests -> Stops] /\ PosInRange'
    BY <1>0, <1>4, GotoMoves DEF Wait, PosInRange, Before, Stops, Running, writer
  <2> QED BY <1>0, <1>4, <2>1
    DEF Wait, TypeInv, TypeOK, Stops, disk, flight, asked, writer, bounds
<1>5. CASE Recheck(r)
  <2>1. pc' \in [Requests -> Stops] /\ PosInRange'
    <3>1. CASE Entry(r) = None
      BY <1>0, <1>5, <3>1, GotoMoves
      DEF Recheck, PosInRange, Before, Stops, Running, Producing, writer
    <3>2. CASE Entry(r) # None
      <4> DEFINE file == IF Resized(r) THEN Entry(r) ELSE None
      <4>1. Leave(r, "cover", file) \in Stops \ (Before \cup {"write"})
        BY DEF Leave, Stops, Before, Running, Releasing
      <4>2. Goto(r, "recheck", Leave(r, "cover", file)) /\ UNCHANGED pos
        BY <1>5, <3>2 DEF Recheck, writer
      <4> QED BY <1>0, <4>1, <4>2, GotoMoves DEF PosInRange
    <3> QED BY <3>1, <3>2
  <2>2. got' \in [Requests -> Files]
    BY <1>0, <1>5 DEF Recheck, TypeOK, Entry, Files
  <2> QED BY <1>0, <1>5, <2>1, <2>2
    DEF Recheck, TypeInv, TypeOK, Stops, disk, flight, asked, writer, bounds
<1>6. CASE Produce(r)
  <2>1. pc' \in [Requests -> Stops] /\ PosInRange'
    BY <1>0, <1>6, GotoMoves, FailType
    DEF Produce, PosInRange, Before, Stops, Running, Producing, writer
  <2>2. /\ outcome' \in [Requests -> {"none", "cover", "torn", "error"}]
        /\ sourceFaults' \in Nat /\ diskFaults' \in Nat /\ crashes' \in Nat
    BY <1>0, <1>6, FailType, FaultType DEF Produce, TypeOK, bounds
  <2> QED BY <1>0, <1>6, <2>1, <2>2
    DEF Produce, TypeInv, TypeOK, Stops, disk, flight, asked, writer
<1>7. CASE Create(r)
  <2>1. pc' \in [Requests -> Stops] /\ PosInRange'
    BY <1>0, <1>7, GotoMoves, FailType
    DEF Create, PosInRange, Before, Stops, Running, Producing
  <2>2. /\ outcome' \in [Requests -> {"none", "cover", "torn", "error"}]
        /\ sourceFaults' \in Nat /\ diskFaults' \in Nat /\ crashes' \in Nat
    BY <1>0, <1>7, FailType, FaultType DEF Create, TypeOK, bounds
  <2>3. /\ part' \in [Keys -> Files]
        /\ fd' \in [Requests -> Files]
        /\ content' \in [Requests -> SUBSET Pieces]
    <3> DEFINE file == IF Part(r) = None THEN r ELSE Part(r)
    <3>1. key[r] \in Keys /\ file \in Requests /\ Requests \subseteq Files
      BY <1>0 DEF TypeOK, Part, Files
    <3>2. CASE /\ part' = [part EXCEPT ![key[r]] = file]
               /\ content' = [content EXCEPT ![file] = {}]
               /\ fd' = [fd EXCEPT ![r] = file]
      <4>1. {} \in SUBSET Pieces
        OBVIOUS
      <4> QED BY <1>0, <3>1, <3>2, <4>1 DEF TypeOK
    <3>3. CASE UNCHANGED <<part, content, fd>>
      BY <1>0, <3>3 DEF TypeOK
    <3> QED BY <1>7, <3>2, <3>3 DEF Create
  <2> QED BY <1>0, <1>7, <2>1, <2>2, <2>3
    DEF Create, TypeInv, TypeOK, Stops, flight, asked
<1>8. CASE Write(r)
  <2>1. /\ outcome' \in [Requests -> {"none", "cover", "torn", "error"}]
        /\ sourceFaults' \in Nat /\ diskFaults' \in Nat /\ crashes' \in Nat
    BY <1>0, <1>8, FailType, FaultType DEF Write, TypeOK, bounds
  <2>2. pc[r] = "write"
    BY <1>8 DEF Write, Goto, Fail
  <2>3. pos[r] \in Nat /\ pos[r] < Size
    BY <1>0, <2>2 DEF PosInRange, TypeOK
  <2>4. pos' \in [Requests -> 0..Size] /\ content' \in [Requests -> SUBSET Pieces]
    <3>1. pos[r] + 1 \in Pieces /\ pos[r] + 1 \in 0..Size
      BY <2>3 DEF Pieces
    <3>2. CASE /\ content' = [content EXCEPT ![fd[r]] = @ \cup {pos[r] + 1}]
               /\ pos' = [pos EXCEPT ![r] = @ + 1]
      <4>1. pos' \in [Requests -> 0..Size]
        BY <1>0, <3>1, <3>2 DEF TypeOK
      <4>2. ASSUME fd[r] \in Requests
            PROVE  content' \in [Requests -> SUBSET Pieces]
        <5>1. content[fd[r]] \cup {pos[r] + 1} \in SUBSET Pieces
          BY <1>0, <3>1, <4>2 DEF TypeOK
        <5> QED BY <1>0, <3>2, <5>1 DEF TypeOK
      <4>3. ASSUME fd[r] \notin Requests
            PROVE  content' \in [Requests -> SUBSET Pieces]
        BY <1>0, <3>2, <4>3 DEF TypeOK
      <4> QED BY <4>1, <4>2, <4>3
    <3>3. CASE UNCHANGED <<content, pos>>
      BY <1>0, <3>3 DEF TypeOK
    <3> QED BY <1>8, <3>2, <3>3 DEF Write
  <2>5. pc' \in [Requests -> Stops] /\ PosInRange'
    <3>1. CASE Fail(r, "write") /\ UNCHANGED pos
      BY <1>0, <3>1, FailType DEF PosInRange, Before
    <3>2. CASE /\ Goto(r, "write", IF pos[r] + 1 = Size THEN "rename" ELSE "write")
               /\ pos' = [pos EXCEPT ![r] = @ + 1]
      <4>1. (IF pos[r] + 1 = Size THEN "rename" ELSE "write") \in Stops
        BY DEF Stops, Running, Producing
      <4>2. \A s \in Requests : s # r => pos'[s] = pos[s]
        BY <1>0, <3>2 DEF TypeOK
      <4>3. pos'[r] = pos[r] + 1
        BY <1>0, <3>2 DEF TypeOK
      <4> QED BY <1>0, <2>3, <3>2, <4>1, <4>2, <4>3, GotoMoves DEF PosInRange, Before
    <3> QED BY <1>8, <3>1, <3>2 DEF Write
  <2> QED BY <1>0, <1>8, <2>1, <2>4, <2>5
    DEF Write, TypeInv, TypeOK, Stops, flight, asked
<1>9. CASE Rename(r)
  <2>1. pc' \in [Requests -> Stops] /\ PosInRange'
    <3> DEFINE to == IF Resized(r) THEN "open" ELSE Leave(r, "cover", None)
    <3>1. /\ to \in Stops \ (Before \cup {"write"})
          /\ "remove" \in Stops \ (Before \cup {"write"})
      BY DEF Leave, Stops, Before, Running, Releasing
    <3>2. /\ Goto(r, "rename", to) \/ Goto(r, "rename", "remove")
          /\ UNCHANGED pos
      BY <1>9 DEF Rename, writer
    <3> QED BY <1>0, <3>1, <3>2, GotoMoves DEF PosInRange
  <2>2. /\ sourceFaults' \in Nat /\ diskFaults' \in Nat /\ crashes' \in Nat
        /\ entry' \in [Keys -> Files] /\ part' \in [Keys -> Files]
    <3>1. CASE /\ entry' = [entry EXCEPT ![key[r]] = Part(r)]
               /\ part' = [part EXCEPT ![key[r]] = None]
               /\ UNCHANGED bounds
      <4>1. Part(r) \in Files /\ None \in Files
        BY <1>0 DEF TypeOK, Part, Files
      <4> QED BY <1>0, <3>1, <4>1 DEF TypeOK, bounds
    <3>2. CASE (DiskFault \/ UNCHANGED bounds) /\ UNCHANGED <<entry, part>>
      <4>1. sourceFaults' \in Nat /\ diskFaults' \in Nat /\ crashes' \in Nat
        BY <1>0, <3>2, FaultType DEF TypeOK, bounds
      <4> QED BY <1>0, <3>2, <4>1 DEF TypeOK
    <3> QED BY <1>9, <3>1, <3>2 DEF Rename
  <2> QED BY <1>0, <1>9, <2>1, <2>2
    DEF Rename, TypeInv, TypeOK, Stops, flight, asked, writer
<1>10. CASE Remove(r)
  <2>1. pc' \in [Requests -> Stops] /\ PosInRange'
    BY <1>0, <1>10, FailType DEF Remove, PosInRange, Before, writer
  <2>2. outcome' \in [Requests -> {"none", "cover", "torn", "error"}]
    BY <1>0, <1>10, FailType DEF Remove
  <2>3. part' \in [Keys -> Files]
    BY <1>0, <1>10 DEF Remove, TypeOK, Files
  <2> QED BY <1>0, <1>10, <2>1, <2>2, <2>3
    DEF Remove, TypeInv, TypeOK, Stops, flight, asked, writer, bounds
<1>11. CASE Unregister(r)
  <2>1. pc' \in [Requests -> Stops] /\ PosInRange'
    BY <1>0, <1>11, GotoMoves DEF Unregister, PosInRange, Before, Stops, Running, Releasing, writer
  <2>2. inProg' \in [Services -> [Keys -> Files]]
    BY <1>0, <1>11 DEF Unregister, TypeOK, Files
  <2> QED BY <1>0, <1>11, <2>1, <2>2
    DEF Unregister, TypeInv, TypeOK, Stops, disk, asked, writer, bounds
<1>12. CASE Close(r)
  <2>1. pc' \in [Requests -> Stops] /\ PosInRange'
    BY <1>0, <1>12, GotoMoves DEF Close, PosInRange, Before, Stops, Running, Releasing, writer
  <2>2. closed' \in SUBSET Requests /\ leader' \in [Requests -> BOOLEAN]
    BY <1>0, <1>12 DEF Close, TypeOK
  <2> QED BY <1>0, <1>12, <2>1, <2>2
    DEF Close, TypeInv, TypeOK, Stops, disk, asked, writer, bounds
<1>13. CASE Open(r)
  <2>1. pc' \in [Requests -> Stops] /\ PosInRange'
    <3>1. CASE Fail(r, "open")
      BY <1>0, <1>13, <3>1, FailType DEF Open, PosInRange, Before, writer
    <3>2. CASE Goto(r, "open", Leave(r, "cover", Entry(r)))
      <4>1. Leave(r, "cover", Entry(r)) \in Stops \ (Before \cup {"write"})
        BY DEF Leave, Stops, Before, Running, Releasing
      <4> QED BY <1>0, <1>13, <3>2, <4>1, GotoMoves DEF Open, PosInRange, writer
    <3> QED BY <1>13, <3>1, <3>2 DEF Open
  <2>2. /\ got' \in [Requests -> Files]
        /\ outcome' \in [Requests -> {"none", "cover", "torn", "error"}]
        /\ sourceFaults' \in Nat /\ diskFaults' \in Nat /\ crashes' \in Nat
    <3>1. key[r] \in Keys /\ Entry(r) \in Files
      BY <1>0 DEF TypeOK, Entry
    <3>2. CASE got' = [got EXCEPT ![r] = Entry(r)] /\ UNCHANGED <<outcome, bounds>>
      BY <1>0, <3>1, <3>2 DEF TypeOK, bounds
    <3>3. CASE Fail(r, "open") /\ DiskFault /\ UNCHANGED got
      BY <1>0, <3>3, FailType, FaultType DEF TypeOK
    <3> QED BY <1>13, <3>2, <3>3 DEF Open
  <2> QED BY <1>0, <1>13, <2>1, <2>2
    DEF Open, TypeInv, TypeOK, Stops, disk, flight, asked, writer
<1>14. CASE Serve(r)
  <2>1. pc' \in [Requests -> Stops] /\ PosInRange'
    BY <1>0, <1>14, GotoMoves DEF Serve, PosInRange, Before, Stops, Running, writer
  <2>2. outcome' \in [Requests -> {"none", "cover", "torn", "error"}]
    BY <1>0, <1>14 DEF Serve, TypeOK
  <2> QED BY <1>0, <1>14, <2>1, <2>2
    DEF Serve, TypeInv, TypeOK, Stops, disk, flight, asked, writer, bounds
<1> QED BY <1>1, <1>2, <1>3, <1>4, <1>5, <1>6, <1>7, <1>8, <1>9, <1>10, <1>11, <1>12,
           <1>13, <1>14 DEF Step

LEMMA TypeCrash ==
  ASSUME TypeInv, Crash
  PROVE  TypeInv'
<1>1. /\ \A r \in Requests : pc'[r] = pc[r] \/ pc'[r] = "dead"
      /\ pc' \in [Requests -> Stops]
  BY DEF Crash, TypeInv, TypeOK, Stops
<1>2. PosInRange'
  BY <1>1 DEF Crash, TypeInv, PosInRange, Before, writer
<1>3. /\ inProg' \in [Services -> [Keys -> Files]]
      /\ leader' \in [Requests -> BOOLEAN]
      /\ crashes' \in Nat
  BY DEF Crash, TypeInv, TypeOK, Files
<1> QED BY <1>1, <1>2, <1>3
  DEF Crash, TypeInv, TypeOK, Stops, disk, asked, writer

LEMMA TypeNext == TypeInv /\ [Next]_vars => TypeInv'
<1> SUFFICES ASSUME TypeInv, [Next]_vars PROVE TypeInv'
  OBVIOUS
<1>1. CASE \E r \in Requests : Start(r) \/ Step(r)
  BY <1>1, TypeStep
<1>2. CASE Crash
  BY <1>2, TypeCrash
<1>3. CASE UNCHANGED vars
  BY <1>3 DEF vars, TypeInv, TypeOK, PosInRange, disk, flight, asked, writer, bounds
<1> QED BY <1>1, <1>2, <1>3 DEF Next

(* Every variable keeps its type; in particular the loop of os.WriteFile stays  *)
(* within the cover, whatever fails and whoever else has the file open.         *)
THEOREM TypeCorrect == Spec => []TypeOK
<1>1. TypeInv => TypeOK
  BY DEF TypeInv
<1> QED BY <1>1, TypeInit, TypeNext, PTL DEF Spec

----
(* One Service and nothing that fails                                           *)

(* The conditions under which the cache keeps its documented promises. *)
Sole ==
  /\ \A v, w \in Services : v = w
  /\ MaxSourceFaults = 0
  /\ MaxDiskFaults = 0

NothingFailed ==
  /\ sourceFaults = 0
  /\ diskFaults = 0
  /\ \A r \in Requests : pc[r] # "remove"

Leading == Producing \cup {"recheck", "open", "unregister"}

(* The map names the one request that works on a cover, and only for that cover. *)
Registration ==
  /\ \A r \in Requests : leader[r] =>
       pc[r] = "close" \/ (pc[r] \in Leading /\ Registered(r) = r)
  /\ \A r \in Requests : pc[r] \in Producing \cup {"unregister"} => leader[r]
  /\ \A v \in Services, k \in Keys : inProg[v][k] # None => key[inProg[v][k]] = k
  /\ \A r \in Requests : pc[r] = "wait" => awaits[r] \in Requests /\ key[awaits[r]] = key[r]

(* Whoever has finished producing, or has waited for that, finds the entry.     *)
Filled ==
  \A r \in Requests :
    (r \in closed \/ pc[r] \in {"open", "unregister", "close"}
       \/ (pc[r] = "recheck" /\ ~leader[r])) => Entry(r) # None

(* A writer's file is the one under the temporary name, filled up to its offset. *)
Writing ==
  \A r \in Requests :
    /\ pc[r] \in {"write", "rename"} => Part(r) = fd[r] /\ fd[r] # None
    /\ pc[r] = "write" => content[fd[r]] = 1..pos[r]
    /\ pc[r] = "rename" => content[fd[r]] = Pieces

(* No file has two names, and one yet to be created has none. *)
FilesApart ==
  /\ \A r \in Requests : pc[r] \in Before => \A k \in Keys : entry[k] # r /\ part[k] # r
  /\ \A k, j \in Keys : part[k] # None => entry[j] # part[k] /\ (part[j] = part[k] => j = k)

SoleInv ==
  NothingFailed /\ Registration /\ Filled /\ Writing /\ FilesApart /\ EntriesComplete

(* Two requests that produce the same cover are one. *)
LEMMA OneProducer ==
  ASSUME TypeOK, Registration, NEW r \in Requests, NEW s \in Requests,
         pc[r] \in Producing, pc[s] \in Producing, svc[r] = svc[s], key[r] = key[s]
  PROVE  r = s
<1>1. leader[r] /\ leader[s] /\ pc[r] # "close" /\ pc[s] # "close"
  BY DEF Registration, Producing
<1>2. Registered(r) = r /\ Registered(s) = s
  BY <1>1 DEF Registration
<1> QED BY <1>2 DEF Registered

LEMMA NothingFails ==
  ASSUME Sole, NothingFailed
  PROVE  ~SourceFault /\ ~DiskFault
  BY DEF Sole, NothingFailed, SourceFault, DiskFault

(* A step that neither touches a file nor opens one leaves the files in order.  *)
LEMMA FilesKept ==
  ASSUME TypeOK, Writing, FilesApart, EntriesComplete,
         NEW r \in Requests, NEW from, NEW to \in Stops \ {"write", "rename"},
         Goto(r, from, to), to \in Before => from \in Before,
         UNCHANGED <<disk, asked, writer>>
  PROVE  Writing' /\ FilesApart' /\ EntriesComplete'
<1>1. /\ pc[r] = from /\ pc'[r] = to
      /\ \A s \in Requests : s # r => pc'[s] = pc[s]
  BY GotoMoves
<1>2. UNCHANGED <<entry, part, content, svc, key, fd, pos>>
  BY DEF disk, asked, writer
<1>3. Writing'
  BY <1>1, <1>2 DEF Writing, Part
<1>4. FilesApart'
  BY <1>1, <1>2 DEF FilesApart
<1>5. EntriesComplete'
  BY <1>2 DEF EntriesComplete, Complete
<1> QED BY <1>3, <1>4, <1>5

(* A step that leaves the map alone keeps it right if a leader stays a leader   *)
(* and only a leader goes on to produce.                                        *)
LEMMA RegistrationKept ==
  ASSUME TypeOK, Registration, NEW r \in Requests, NEW from, NEW to \in Stops,
         Goto(r, from, to), from # "close", to # "wait",
         leader[r] => to \in Leading,
         to \in Producing \cup {"unregister"} => leader[r],
         UNCHANGED <<flight, asked, leader, awaits>>
  PROVE  Registration'
<1>1. /\ pc[r] = from /\ pc'[r] = to
      /\ \A s \in Requests : s # r => pc'[s] = pc[s]
  BY GotoMoves
<1>2. UNCHANGED <<inProg, closed, svc, key, leader, awaits>>
  BY DEF flight, asked
<1>3. \A s \in Requests : leader'[s] =>
        pc'[s] = "close" \/ (pc'[s] \in Leading /\ Registered(s)' = s)
  BY <1>1, <1>2 DEF Registration, Registered
<1>4. \A s \in Requests : pc'[s] \in Producing \cup {"unregister"} => leader'[s]
  BY <1>1, <1>2 DEF Registration
<1>5. \A v \in Services, k \in Keys : inProg'[v][k] # None => key'[inProg'[v][k]] = k
  BY <1>2 DEF Registration
<1>6. \A s \in Requests : pc'[s] = "wait" => awaits'[s] \in Requests /\ key'[awaits'[s]] = key'[s]
  BY <1>1, <1>2 DEF Registration
<1> QED BY <1>3, <1>4, <1>5, <1>6 DEF Registration

(* Entries do not go away, so what was filled stays filled. *)
LEMMA FilledKept ==
  ASSUME TypeOK, Filled, NEW r \in Requests, NEW from, NEW to \in Stops,
         Goto(r, from, to), \A k \in Keys : entry[k] # None => entry'[k] # None,
         to \in {"open", "unregister", "close"} \/ (to = "recheck" /\ ~leader[r])
           => entry'[key[r]] # None,
         UNCHANGED <<closed, asked, leader>>
  PROVE  Filled'
<1>1. /\ pc[r] = from /\ pc'[r] = to
      /\ \A s \in Requests : s # r => pc'[s] = pc[s]
  BY GotoMoves
<1>2. UNCHANGED <<closed, svc, key, leader>> /\ \A s \in Requests : key[s] \in Keys
  BY DEF asked, TypeOK
<1> QED BY <1>1, <1>2 DEF Filled, Entry

(* Looking, electing a leader, waiting *)
LEMMA SoleStart ==
  ASSUME TypeOK, SoleInv, NEW r \in Requests, Start(r) \/ Probe(r)
  PROVE  SoleInv'
<1> USE DEF SoleInv
<1>0. r \in Requests /\ key[r] \in Keys /\ entry[key[r]] = Entry(r)
  BY DEF TypeOK, Entry
<1>1. PICK from, to : /\ Goto(r, from, to)
                      /\ from \in {"idle", "probe"}
                      /\ to \in {"probe", "acquire", "serve", "open"}
                      /\ to = "open" => Entry(r) # None
  BY DEF Start, Probe
<1>2. UNCHANGED <<disk, flight, asked, leader, awaits, writer, bounds>>
  BY DEF Start, Probe
<1>3. to \in Stops \ {"write", "rename", "remove"} /\ from \in Before
  BY <1>1 DEF Stops, Running, Before
<1>4. pc[r] = from /\ ~leader[r]
  BY <1>1, GotoMoves, <1>3 DEF Registration, Leading, Producing
<1>5. Writing' /\ FilesApart' /\ EntriesComplete'
  BY <1>1, <1>2, <1>3, FilesKept
<1>6. Registration'
  BY <1>1, <1>2, <1>3, <1>4, RegistrationKept DEF Producing
<1>7. Filled'
  BY <1>0, <1>1, <1>2, <1>3, FilledKept DEF disk, flight
<1>8. NothingFailed'
  BY <1>1, <1>2, <1>3, GotoMoves DEF NothingFailed, bounds
<1> QED BY <1>5, <1>6, <1>7, <1>8

LEMMA SoleAcquire ==
  ASSUME TypeOK, SoleInv, NEW r \in Requests, Acquire(r)
  PROVE  SoleInv'
<1> USE CacheAssumption DEF SoleInv
<1>0. /\ key[r] \in Keys /\ svc[r] \in Services /\ inProg[svc[r]] \in [Keys -> Files]
      /\ Registered(r) = inProg[svc[r]][key[r]] /\ Registered(r) \in Files
  BY DEF TypeOK, Registered
<1>1. PICK to \in {"wait", "recheck"} : Goto(r, "acquire", to)
  BY DEF Acquire
<1>2. UNCHANGED <<disk, closed, asked, writer, bounds>>
  BY DEF Acquire
<1>3. to \in Stops \ {"write", "rename", "remove"}
  BY <1>1 DEF Stops, Running
<1>4. /\ pc[r] = "acquire" /\ pc'[r] = to
      /\ \A s \in Requests : s # r => pc'[s] = pc[s]
  BY <1>1, <1>3, GotoMoves
<1>5. Writing' /\ FilesApart' /\ EntriesComplete'
  BY <1>1, <1>2, <1>3, FilesKept DEF Before
<1>6. NothingFailed'
  BY <1>2, <1>3, <1>4 DEF NothingFailed, bounds
<1>7. CASE Registered(r) # None
  <2>1. /\ pc'[r] = "wait"
        /\ awaits' = [awaits EXCEPT ![r] = Registered(r)]
        /\ UNCHANGED <<inProg, leader>>
    BY <1>7, <1>4 DEF Acquire, Goto, TypeOK
  <2>2. Registered(r) \in Requests /\ key[Registered(r)] = key[r]
    BY <1>0, <1>7 DEF Files, Registration
  <2>3. /\ awaits'[r] = Registered(r)
        /\ \A s \in Requests : s # r => awaits'[s] = awaits[s]
    BY <2>1 DEF TypeOK
  <2>4. Registration'
    BY <1>2, <1>4, <2>1, <2>2, <2>3 DEF Registration, Registered, asked, Leading, Producing
  <2>5. Filled'
    BY <1>2, <1>4, <2>1 DEF Filled, Entry, disk, asked
  <2> QED BY <1>5, <1>6, <2>4, <2>5
<1>8. CASE Registered(r) = None
  <2>1. /\ pc'[r] = "recheck"
        /\ inProg' = [inProg EXCEPT ![svc[r]][key[r]] = r]
        /\ leader' = [leader EXCEPT ![r] = TRUE]
        /\ UNCHANGED awaits
    BY <1>8, <1>4 DEF Acquire, Goto, TypeOK
  <2>2. /\ inProg'[svc[r]][key[r]] = r
        /\ \A v \in Services, k \in Keys :
             (v # svc[r] \/ k # key[r]) => inProg'[v][k] = inProg[v][k]
    BY <1>0, <2>1 DEF TypeOK
  <2>3. leader'[r] /\ \A s \in Requests : s # r => leader'[s] = leader[s]
    BY <2>1 DEF TypeOK
  <2>4. \A s \in Requests : leader'[s] =>
          pc'[s] = "close" \/ (pc'[s] \in Leading /\ Registered(s)' = s)
    <3> SUFFICES ASSUME NEW s \in Requests, leader'[s]
                 PROVE  pc'[s] = "close" \/ (pc'[s] \in Leading /\ Registered(s)' = s)
      OBVIOUS
    <3>1. CASE s = r
      BY <3>1, <1>2, <2>1, <2>2 DEF Leading, Registered, asked
    <3>2. CASE s # r
      <4>1. pc'[s] = pc[s] /\ leader[s] /\ svc[s] \in Services /\ key[s] \in Keys
        BY <3>2, <1>4, <2>3 DEF TypeOK
      <4>2. pc[s] = "close" \/ (pc[s] \in Leading /\ Registered(s) = s)
        BY <4>1 DEF Registration
      <4>3. Registered(s) = s => svc[s] # svc[r] \/ key[s] # key[r]
        BY <1>8 DEF Registered
      <4> QED BY <1>2, <2>2, <4>1, <4>2, <4>3 DEF Registered, asked
    <3> QED BY <3>1, <3>2
  <2>5. \A s \in Requests : pc'[s] \in Producing \cup {"unregister"} => leader'[s]
    BY <1>4, <2>1, <2>3 DEF Registration, Producing
  <2>6. \A v \in Services, k \in Keys : inProg'[v][k] # None => key'[inProg'[v][k]] = k
    BY <1>2, <2>2 DEF Registration, asked
  <2>7. \A s \in Requests : pc'[s] = "wait" => awaits'[s] \in Requests /\ key'[awaits'[s]] = key'[s]
    BY <1>2, <1>4, <2>1 DEF Registration, asked
  <2>8. Filled'
    BY <1>2, <1>4, <2>1, <2>3 DEF Filled, Entry, disk, asked
  <2> QED BY <1>5, <1>6, <2>4, <2>5, <2>6, <2>7, <2>8 DEF Registration
<1> QED BY <1>7, <1>8

LEMMA SoleWait ==
  ASSUME TypeOK, SoleInv, NEW r \in Requests, Wait(r)
  PROVE  SoleInv'
<1> USE DEF SoleInv
<1>1. Goto(r, "wait", "recheck") /\ awaits[r] \in closed
  BY DEF Wait
<1>2. UNCHANGED <<disk, flight, asked, leader, awaits, writer, bounds>>
  BY DEF Wait
<1>3. "recheck" \in Stops \ {"write", "rename", "remove"}
  BY DEF Stops, Running
<1>4. pc[r] = "wait" /\ ~leader[r]
  BY <1>1, <1>3, GotoMoves DEF Registration, Leading, Producing
<1>5. entry[key[r]] # None
  <2>1. awaits[r] \in Requests /\ key[awaits[r]] = key[r]
    BY <1>4 DEF Registration
  <2> QED BY <1>1, <2>1 DEF Filled, Entry
<1>6. Writing' /\ FilesApart' /\ EntriesComplete'
  BY <1>1, <1>2, <1>3, FilesKept DEF Before
<1>7. Registration'
  BY <1>1, <1>2, <1>3, <1>4, RegistrationKept DEF Producing
<1>8. Filled'
  BY <1>1, <1>2, <1>3, <1>5, FilledKept DEF disk, flight
<1>9. NothingFailed'
  BY <1>1, <1>2, <1>3, GotoMoves DEF NothingFailed, bounds
<1> QED BY <1>6, <1>7, <1>8, <1>9

LEMMA SoleRecheck ==
  ASSUME Sole, TypeOK, SoleInv, NEW r \in Requests, Recheck(r) \/ Produce(r)
  PROVE  SoleInv'
<1> USE DEF SoleInv
<1>1. PICK from, to : /\ Goto(r, from, to)
                      /\ from \in {"recheck", "produce"}
                      /\ to \in {"produce", "create", "unregister", "open", "serve"}
                      /\ to \in {"unregister", "open", "serve"} =>
                           entry[key[r]] # None /\ (leader[r] <=> to = "unregister")
                      /\ to = "produce" => from = "recheck" /\ entry[key[r]] = None
                      /\ to = "create" => from = "produce"
  <2>1. CASE Recheck(r)
    <3>1. CASE Entry(r) = None
      BY <2>1, <3>1 DEF Recheck, Entry
    <3>2. CASE Entry(r) # None
      <4> DEFINE file == IF Resized(r) THEN Entry(r) ELSE None
      <4>1. Goto(r, "recheck", Leave(r, "cover", file))
        BY <2>1, <3>2 DEF Recheck
      <4>2. /\ Leave(r, "cover", file) \in {"unregister", "open", "serve"}
            /\ leader[r] <=> Leave(r, "cover", file) = "unregister"
        BY DEF Leave
      <4> HIDE DEF file
      <4> QED BY <3>2, <4>1, <4>2 DEF Entry
    <3> QED BY <3>1, <3>2
  <2>2. CASE Produce(r)
    BY <2>2, NothingFails DEF Produce
  <2> QED BY <2>1, <2>2
<1>2. UNCHANGED <<disk, flight, asked, leader, awaits, writer, bounds>>
  BY NothingFails DEF Recheck, Produce
<1>3. to \in Stops \ {"write", "rename", "remove"}
  BY <1>1 DEF Stops, Running, Producing, Releasing
<1>4. pc[r] = from
  BY <1>1, <1>3, GotoMoves
<1>5. to \in Producing \cup {"unregister"} => leader[r]
  BY <1>1, <1>4 DEF Registration, Filled, Entry, Producing
<1>6. Writing' /\ FilesApart' /\ EntriesComplete'
  BY <1>1, <1>2, <1>3, FilesKept DEF Before
<1>7. Registration'
  BY <1>1, <1>2, <1>3, <1>5, RegistrationKept DEF Leading, Producing
<1>8. Filled'
  BY <1>1, <1>2, <1>3, FilledKept DEF disk, flight
<1>9. NothingFailed'
  BY <1>1, <1>2, <1>3, GotoMoves DEF NothingFailed, bounds
<1> QED BY <1>6, <1>7, <1>8, <1>9

(* Writing and committing *)
LEMMA SoleCreate ==
  ASSUME Sole, TypeInv, SoleInv, NEW r \in Requests, Create(r)
  PROVE  SoleInv'
<1> USE CacheAssumption DEF SoleInv, TypeInv
<1> DEFINE file == IF Part(r) = None THEN r ELSE Part(r)
<1>0. /\ key[r] \in Keys /\ file \in Requests /\ file # None /\ Part(r) = part[key[r]]
  BY DEF TypeOK, Part, Files
<1>1. /\ Goto(r, "create", "write")
      /\ part' = [part EXCEPT ![key[r]] = file]
      /\ content' = [content EXCEPT ![file] = {}]
      /\ fd' = [fd EXCEPT ![r] = file]
      /\ UNCHANGED bounds
  BY NothingFails DEF Create
<1>2. UNCHANGED <<entry, flight, asked, leader, awaits, pos, got>>
  BY DEF Create
<1>3. "write" \in Stops
  BY DEF Stops, Running, Producing
<1>4. /\ pc[r] = "create" /\ pc'[r] = "write"
      /\ \A s \in Requests : s # r => pc'[s] = pc[s]
  BY <1>1, <1>3, GotoMoves
<1>5. /\ part'[key[r]] = file /\ content'[file] = {} /\ fd'[r] = file
      /\ \A k \in Keys : k # key[r] => part'[k] = part[k]
      /\ \A f \in Requests : f # file => content'[f] = content[f]
      /\ \A s \in Requests : s # r => fd'[s] = fd[s]
  BY <1>0, <1>1 DEF TypeOK
<1> HIDE DEF file
<1>6. file = r \/ file = part[key[r]]
  BY <1>0 DEF file
<1>7. \A k \in Keys : entry[k] # file /\ (k # key[r] => part[k] # file)
  BY <1>0, <1>4, <1>6 DEF FilesApart, Before
<1>8. \A s \in Requests : s # r /\ pc[s] \in {"write", "rename"} =>
        key[s] \in Keys /\ key[s] # key[r]
  BY <1>4, OneProducer DEF Sole, TypeOK, Producing
<1>9. Writing'
  <2> SUFFICES ASSUME NEW s \in Requests
               PROVE  /\ pc'[s] \in {"write", "rename"} => Part(s)' = fd'[s] /\ fd'[s] # None
                      /\ pc'[s] = "write" => content'[fd'[s]] = 1..pos'[s]
                      /\ pc'[s] = "rename" => content'[fd'[s]] = Pieces
    BY DEF Writing
  <2>1. CASE s = r
    <3>1. pos'[s] = 0
      BY <1>2, <1>4, <2>1 DEF PosInRange, Before
    <3> QED BY <1>0, <1>2, <1>4, <1>5, <2>1, <3>1 DEF Part, asked
  <2>2. CASE s # r
    <3> SUFFICES ASSUME pc[s] \in {"write", "rename"}
                 PROVE  /\ Part(s)' = fd'[s] /\ fd'[s] # None
                        /\ pc'[s] = "write" => content'[fd'[s]] = 1..pos'[s]
                        /\ pc'[s] = "rename" => content'[fd'[s]] = Pieces
      BY <1>4, <2>2
    <3>1. Part(s)' = part[key[s]] /\ fd'[s] = fd[s] /\ part[key[s]] # file
      BY <1>2, <1>5, <1>7, <1>8, <2>2 DEF Part, asked
    <3>2. fd[s] = part[key[s]] /\ fd[s] # None /\ fd[s] \in Requests
      BY DEF Writing, Part, TypeOK, Files
    <3> QED BY <1>2, <1>4, <1>5, <2>2, <3>1, <3>2 DEF Writing
  <2> QED BY <2>1, <2>2
<1>10. FilesApart'
  <2>1. \A s \in Requests : pc'[s] \in Before => \A k \in Keys : entry'[k] # s /\ part'[k] # s
    BY <1>0, <1>2, <1>4, <1>5, <1>6 DEF FilesApart, Before
  <2>2. \A k, j \in Keys : part'[k] # None =>
          entry'[j] # part'[k] /\ (part'[j] = part'[k] => j = k)
    BY <1>0, <1>2, <1>5, <1>7 DEF FilesApart
  <2> QED BY <2>1, <2>2 DEF FilesApart
<1>11. EntriesComplete'
  BY <1>2, <1>5, <1>7 DEF EntriesComplete, Complete, TypeOK, Files
<1>12. Registration'
  BY <1>1, <1>2, <1>3, <1>4, RegistrationKept DEF Registration, Leading, Producing
<1>13. Filled'
  BY <1>1, <1>2, <1>3, FilledKept DEF flight
<1>14. NothingFailed'
  BY <1>1, <1>4 DEF NothingFailed, bounds
<1> QED BY <1>9, <1>10, <1>11, <1>12, <1>13, <1>14

LEMMA SoleWrite ==
  ASSUME Sole, TypeInv, SoleInv, NEW r \in Requests, Write(r)
  PROVE  SoleInv'
<1> USE CacheAssumption DEF SoleInv, TypeInv
<1> DEFINE to == IF pos[r] + 1 = Size THEN "rename" ELSE "write"
<1>1. /\ Goto(r, "write", to)
      /\ content' = [content EXCEPT ![fd[r]] = @ \cup {pos[r] + 1}]
      /\ pos' = [pos EXCEPT ![r] = @ + 1]
      /\ UNCHANGED bounds
  BY NothingFails DEF Write
<1>2. UNCHANGED <<entry, part, flight, asked, leader, awaits, fd, got>>
  BY DEF Write
<1>3. to \in Stops /\ to \in {"write", "rename"}
  BY DEF Stops, Running, Producing
<1>4. /\ pc[r] = "write" /\ pc'[r] = to
      /\ \A s \in Requests : s # r => pc'[s] = pc[s]
  BY <1>1, <1>3, GotoMoves
<1>5. /\ key[r] \in Keys /\ fd[r] \in Requests /\ fd[r] # None /\ fd[r] = part[key[r]]
      /\ content[fd[r]] = 1..pos[r] /\ pos[r] \in Nat /\ pos[r] < Size
  BY <1>4 DEF Writing, Part, PosInRange, TypeOK, Files
<1>6. /\ content'[fd[r]] = 1..(pos[r] + 1) /\ pos'[r] = pos[r] + 1
      /\ \A f \in Requests : f # fd[r] => content'[f] = content[f]
      /\ \A s \in Requests : s # r => pos'[s] = pos[s]
  <2>1. 1..pos[r] \cup {pos[r] + 1} = 1..(pos[r] + 1)
    BY <1>5
  <2> QED BY <1>1, <1>5, <2>1 DEF TypeOK
<1>7. \A k \in Keys : entry[k] # fd[r] /\ (k # key[r] => part[k] # fd[r])
  BY <1>5 DEF FilesApart
<1>8. \A s \in Requests : s # r /\ pc[s] \in {"write", "rename"} =>
        key[s] \in Keys /\ key[s] # key[r]
  BY <1>4, OneProducer DEF Sole, TypeOK, Producing
<1>9. Writing'
  <2> SUFFICES ASSUME NEW s \in Requests
               PROVE  /\ pc'[s] \in {"write", "rename"} => Part(s)' = fd'[s] /\ fd'[s] # None
                      /\ pc'[s] = "write" => content'[fd'[s]] = 1..pos'[s]
                      /\ pc'[s] = "rename" => content'[fd'[s]] = Pieces
    BY DEF Writing
  <2>1. CASE s = r
    <3>1. Part(s)' = fd'[s] /\ fd'[s] # None /\ content'[fd'[s]] = 1..pos'[s]
      BY <1>2, <1>5, <1>6, <2>1 DEF Part, asked
    <3>2. pc'[s] = "rename" => pos'[s] = Size
      BY <1>4, <1>6, <2>1
    <3> QED BY <3>1, <3>2 DEF Pieces
  <2>2. CASE s # r
    <3> SUFFICES ASSUME pc[s] \in {"write", "rename"}
                 PROVE  /\ Part(s)' = fd'[s] /\ fd'[s] # None
                        /\ pc'[s] = "write" => content'[fd'[s]] = 1..pos'[s]
                        /\ pc'[s] = "rename" => content'[fd'[s]] = Pieces
      BY <1>4, <2>2
    <3>1. Part(s)' = fd'[s] /\ fd'[s] # None /\ fd'[s] \in Requests /\ fd'[s] # fd[r]
      BY <1>2, <1>7, <1>8, <2>2 DEF Writing, Part, asked, TypeOK, Files
    <3> QED BY <1>2, <1>4, <1>6, <2>2, <3>1 DEF Writing
  <2> QED BY <2>1, <2>2
<1>10. FilesApart'
  BY <1>2, <1>4, <1>3 DEF FilesApart, Before
<1>11. EntriesComplete'
  BY <1>2, <1>6, <1>7 DEF EntriesComplete, Complete, TypeOK, Files
<1>12. Registration'
  BY <1>1, <1>2, <1>3, <1>4, RegistrationKept DEF Registration, Leading, Producing
<1>13. Filled'
  BY <1>1, <1>2, <1>3, FilledKept DEF flight
<1>14. NothingFailed'
  BY <1>1, <1>3, <1>4 DEF NothingFailed, bounds
<1> QED BY <1>9, <1>10, <1>11, <1>12, <1>13, <1>14

LEMMA SoleRename ==
  ASSUME Sole, TypeOK, SoleInv, NEW r \in Requests, Rename(r)
  PROVE  SoleInv'
<1> USE CacheAssumption DEF SoleInv
<1> DEFINE to == IF Resized(r) THEN "open" ELSE Leave(r, "cover", None)
<1>1. pc[r] = "rename"
  BY DEF Rename, Goto
<1>2. /\ key[r] \in Keys /\ part[key[r]] = fd[r] /\ fd[r] # None /\ fd[r] \in Requests
      /\ content[fd[r]] = Pieces /\ leader[r]
  BY <1>1 DEF Writing, Part, TypeOK, Files, Registration, Producing
<1>3. /\ Goto(r, "rename", to)
      /\ entry' = [entry EXCEPT ![key[r]] = fd[r]]
      /\ part' = [part EXCEPT ![key[r]] = None]
      /\ UNCHANGED bounds
  BY <1>2, NothingFails DEF Rename, Part
<1>4. UNCHANGED <<content, flight, asked, leader, awaits, writer, got>>
  BY DEF Rename
<1>5. to \in {"open", "unregister"} /\ to \in Stops
  BY <1>2 DEF Leave, Stops, Running, Releasing
<1> HIDE DEF to
<1>6. /\ pc'[r] = to
      /\ \A s \in Requests : s # r => pc'[s] = pc[s]
  BY <1>3, <1>5, GotoMoves
<1>7. /\ entry'[key[r]] = fd[r] /\ part'[key[r]] = None
      /\ \A k \in Keys : k # key[r] => entry'[k] = entry[k] /\ part'[k] = part[k]
  BY <1>2, <1>3 DEF TypeOK
<1>8. \A s \in Requests : s # r /\ pc[s] \in {"write", "rename"} =>
        key[s] \in Keys /\ key[s] # key[r]
  BY <1>1, OneProducer DEF Sole, TypeOK, Producing
<1>9. Writing'
  BY <1>4, <1>5, <1>6, <1>7, <1>8 DEF Writing, Part, asked, writer
<1>10. FilesApart'
  <2>1. \A s \in Requests : pc'[s] \in Before => \A k \in Keys : entry'[k] # s /\ part'[k] # s
    BY <1>2, <1>5, <1>6, <1>7 DEF FilesApart, Before
  <2>2. \A k, j \in Keys : part'[k] # None =>
          entry'[j] # part'[k] /\ (part'[j] = part'[k] => j = k)
    BY <1>2, <1>7 DEF FilesApart
  <2> QED BY <2>1, <2>2 DEF FilesApart
<1>11. EntriesComplete'
  BY <1>2, <1>4, <1>7 DEF EntriesComplete, Complete
<1>12. Registration'
  BY <1>2, <1>3, <1>4, <1>5, RegistrationKept DEF Leading, Producing
<1>13. Filled'
  BY <1>2, <1>3, <1>4, <1>5, <1>7, FilledKept DEF flight
<1>14. NothingFailed'
  BY <1>3, <1>5, <1>6 DEF NothingFailed, bounds
<1> QED BY <1>9, <1>10, <1>11, <1>12, <1>13, <1>14

(* Releasing and serving *)
LEMMA SoleUnregister ==
  ASSUME Sole, TypeOK, SoleInv, NEW r \in Requests, Unregister(r)
  PROVE  SoleInv'
<1> USE CacheAssumption DEF SoleInv
<1>1. /\ Goto(r, "unregister", "close")
      /\ inProg' = [inProg EXCEPT ![svc[r]][key[r]] = None]
  BY DEF Unregister
<1>2. UNCHANGED <<disk, closed, asked, leader, awaits, writer, bounds>>
  BY DEF Unregister
<1>3. "close" \in Stops
  BY DEF Stops, Running, Releasing
<1>4. /\ pc[r] = "unregister" /\ pc'[r] = "close"
      /\ \A s \in Requests : s # r => pc'[s] = pc[s]
  BY <1>1, <1>3, GotoMoves
<1>5. Writing' /\ FilesApart' /\ EntriesComplete'
  BY <1>1, <1>2, <1>3, FilesKept DEF Before
<1>6. /\ svc[r] \in Services /\ key[r] \in Keys
      /\ inProg'[svc[r]][key[r]] = None
      /\ \A v \in Services, k \in Keys :
           (v # svc[r] \/ k # key[r]) => inProg'[v][k] = inProg[v][k]
  BY <1>1 DEF TypeOK
<1>7. Registration'
  <2>1. \A s \in Requests : leader'[s] =>
          pc'[s] = "close" \/ (pc'[s] \in Leading /\ Registered(s)' = s)
    <3> SUFFICES ASSUME NEW s \in Requests, leader[s], s # r, pc[s] # "close"
                 PROVE  pc'[s] \in Leading /\ Registered(s)' = s
      BY <1>2, <1>4
    <3>1. svc[s] \in Services /\ key[s] \in Keys /\ pc[s] \in Leading /\ Registered(s) = s
      BY DEF Registration, TypeOK
    <3>2. svc[s] # svc[r] \/ key[s] # key[r]
      <4>1. leader[r] => Registered(r) = r
        BY <1>4 DEF Registration
      <4>2. leader[r]
        BY <1>4 DEF Registration
      <4> QED BY <3>1, <4>1, <4>2 DEF Registered
    <3> QED BY <1>2, <1>4, <1>6, <3>1, <3>2 DEF Registered, asked
  <2>2. \A s \in Requests : pc'[s] \in Producing \cup {"unregister"} => leader'[s]
    BY <1>2, <1>4 DEF Registration, Producing
  <2>3. \A v \in Services, k \in Keys : inProg'[v][k] # None => key'[inProg'[v][k]] = k
    BY <1>2, <1>6 DEF Registration, asked
  <2>4. \A s \in Requests : pc'[s] = "wait" => awaits'[s] \in Requests /\ key'[awaits'[s]] = key'[s]
    BY <1>2, <1>4 DEF Registration, asked
  <2> QED BY <2>1, <2>2, <2>3, <2>4 DEF Registration
<1>8. Filled'
  BY <1>1, <1>2, <1>3, <1>4, FilledKept DEF disk, Filled, Entry
<1>9. NothingFailed'
  BY <1>2, <1>4 DEF NothingFailed, bounds
<1> QED BY <1>5, <1>7, <1>8, <1>9

LEMMA SoleClose ==
  ASSUME Sole, TypeOK, SoleInv, NEW r \in Requests, Close(r)
  PROVE  SoleInv'
<1> USE CacheAssumption DEF SoleInv
<1>1. PICK to \in {"done", "open", "serve"} : Goto(r, "close", to)
  BY DEF Close
<1>2. /\ closed' = closed \cup {r}
      /\ leader' = [leader EXCEPT ![r] = FALSE]
      /\ UNCHANGED <<disk, inProg, asked, awaits, writer, bounds>>
  BY DEF Close
<1>3. to \in Stops \ {"write", "rename", "remove"}
  BY <1>1 DEF Stops, Running
<1>4. /\ pc[r] = "close" /\ pc'[r] = to
      /\ \A s \in Requests : s # r => pc'[s] = pc[s]
  BY <1>1, <1>3, GotoMoves
<1>5. ~leader'[r] /\ \A s \in Requests : s # r => leader'[s] = leader[s]
  BY <1>2 DEF TypeOK
<1>6. Writing' /\ FilesApart' /\ EntriesComplete'
  BY <1>1, <1>2, <1>3, FilesKept DEF Before
<1>7. Registration'
  <2>1. \A s \in Requests : leader'[s] =>
          pc'[s] = "close" \/ (pc'[s] \in Leading /\ Registered(s)' = s)
    BY <1>2, <1>4, <1>5 DEF Registration, Registered, asked
  <2>2. \A s \in Requests : pc'[s] \in Producing \cup {"unregister"} => leader'[s]
    BY <1>1, <1>4, <1>5 DEF Registration, Producing
  <2>3. \A v \in Services, k \in Keys : inProg'[v][k] # None => key'[inProg'[v][k]] = k
    BY <1>2 DEF Registration, asked
  <2>4. \A s \in Requests : pc'[s] = "wait" => awaits'[s] \in Requests /\ key'[awaits'[s]] = key'[s]
    BY <1>1, <1>2, <1>4 DEF Registration, asked
  <2> QED BY <2>1, <2>2, <2>3, <2>4 DEF Registration
<1>8. Filled'
  <2>1. Entry(r) # None
    BY <1>4 DEF Filled
  <2>2. \A s \in Requests : Entry(s)' = Entry(s)
    BY <1>2 DEF Entry, disk, asked
  <2> QED BY <1>1, <1>2, <1>4, <1>5, <2>1, <2>2 DEF Filled
<1>9. NothingFailed'
  BY <1>2, <1>3, <1>4 DEF NothingFailed, bounds
<1> QED BY <1>6, <1>7, <1>8, <1>9

LEMMA SoleServe ==
  ASSUME Sole, TypeOK, SoleInv, NEW r \in Requests, Open(r) \/ Serve(r)
  PROVE  SoleInv'
<1> USE CacheAssumption DEF SoleInv
<1>1. PICK from, to : /\ Goto(r, from, to)
                      /\ from \in {"open", "serve"} /\ to \in {"unregister", "serve", "done"}
                      /\ to = "unregister" => leader[r]
                      /\ to # "done" => entry[key[r]] # None
                      /\ from = "open" => (leader[r] => to = "unregister")
  <2>1. CASE Open(r)
    <3>1. Entry(r) # None /\ Goto(r, "open", Leave(r, "cover", Entry(r)))
      BY <2>1, NothingFails DEF Open
    <3>2. /\ Leave(r, "cover", Entry(r)) \in {"unregister", "serve"}
          /\ leader[r] <=> Leave(r, "cover", Entry(r)) = "unregister"
      BY <3>1 DEF Leave
    <3> QED BY <3>1, <3>2 DEF Entry
  <2>2. CASE Serve(r)
    BY <2>2 DEF Serve
  <2> QED BY <2>1, <2>2
<1>2. UNCHANGED <<disk, flight, asked, leader, awaits, writer, bounds>>
  BY NothingFails DEF Open, Serve
<1>3. to \in Stops \ {"write", "rename", "remove"}
  BY <1>1 DEF Stops, Running, Releasing
<1>4. pc[r] = from /\ (leader[r] => to = "unregister")
  BY <1>1, <1>3, GotoMoves DEF Registration, Leading, Producing
<1>5. Writing' /\ FilesApart' /\ EntriesComplete'
  BY <1>1, <1>2, <1>3, FilesKept DEF Before
<1>6. Registration'
  BY <1>1, <1>2, <1>3, <1>4, RegistrationKept DEF Leading, Producing
<1>7. Filled'
  BY <1>1, <1>2, <1>3, FilledKept DEF disk, flight
<1>8. NothingFailed'
  BY <1>1, <1>2, <1>3, GotoMoves DEF NothingFailed, bounds
<1> QED BY <1>5, <1>6, <1>7, <1>8

LEMMA SoleStep ==
  ASSUME Sole, TypeInv, SoleInv, NEW r \in Requests, Start(r) \/ Step(r)
  PROVE  SoleInv'
<1>1. TypeOK
  BY DEF TypeInv
<1>2. ~Remove(r)
  BY DEF Remove, Fail, Goto, SoleInv, NothingFailed
<1>3. CASE Start(r) \/ Probe(r)
  BY <1>1, <1>3, SoleStart
<1>4. CASE Acquire(r)
  BY <1>1, <1>4, SoleAcquire
<1>5. CASE Wait(r)
  BY <1>1, <1>5, SoleWait
<1>6. CASE Recheck(r) \/ Produce(r)
  BY <1>1, <1>6, SoleRecheck
<1>7. CASE Create(r)
  BY <1>7, SoleCreate
<1>8. CASE Write(r)
  BY <1>8, SoleWrite
<1>9. CASE Rename(r)
  BY <1>1, <1>9, SoleRename
<1>10. CASE Unregister(r)
  BY <1>1, <1>10, SoleUnregister
<1>11. CASE Close(r)
  BY <1>1, <1>11, SoleClose
<1>12. CASE Open(r) \/ Serve(r)
  BY <1>1, <1>12, SoleServe
<1> QED BY <1>2, <1>3, <1>4, <1>5, <1>6, <1>7, <1>8, <1>9, <1>10, <1>11, <1>12 DEF Step

(* After a restart only the files are left: entries whole, a temporary file     *)
(* perhaps not, and nobody leads.                                               *)
LEMMA SoleCrash ==
  ASSUME TypeOK, SoleInv, Crash
  PROVE  SoleInv'
<1> USE DEF SoleInv
<1>1. /\ \A r \in Requests : pc'[r] \notin Running /\ (pc'[r] # "dead" => pc'[r] = pc[r])
      /\ \A r \in Requests : ~leader'[r]
      /\ \A v \in Services, k \in Keys : inProg'[v][k] = None
      /\ UNCHANGED <<entry, part, content, closed, svc, key, sourceFaults, diskFaults>>
  BY DEF Crash, TypeOK, Running, Producing, Releasing, disk, asked
<1>2. Registration'
  BY <1>1 DEF Registration, Running, Producing, Releasing
<1>3. Filled'
  BY <1>1 DEF Filled, Entry, Running, Releasing
<1>4. Writing'
  BY <1>1 DEF Writing, Running, Producing
<1>5. FilesApart'
  BY <1>1 DEF FilesApart, Before
<1>6. EntriesComplete' /\ NothingFailed'
  BY <1>1 DEF EntriesComplete, Complete, NothingFailed
<1> QED BY <1>2, <1>3, <1>4, <1>5, <1>6

LEMMA SoleInit == Init => SoleInv
<1> SUFFICES ASSUME Init PROVE SoleInv
  OBVIOUS
<1>1. /\ \A r \in Requests : pc[r] = "idle" /\ ~leader[r] /\ r # None
      /\ \A k \in Keys : entry[k] = None /\ part[k] = None
      /\ \A v \in Services, k \in Keys : inProg[v][k] = None
      /\ closed = {} /\ sourceFaults = 0 /\ diskFaults = 0
  BY CacheAssumption DEF Init
<1>2. NothingFailed /\ Registration /\ Filled
  BY <1>1 DEF NothingFailed, Registration, Producing, Filled
<1>3. Writing /\ FilesApart /\ EntriesComplete
  BY <1>1 DEF Writing, FilesApart, EntriesComplete
<1> QED BY <1>2, <1>3 DEF SoleInv

LEMMA SoleNext ==
  ASSUME Sole
  PROVE  TypeInv /\ SoleInv /\ [Next]_vars => SoleInv'
<1> SUFFICES ASSUME TypeInv, SoleInv, [Next]_vars PROVE SoleInv'
  OBVIOUS
<1>1. CASE \E r \in Requests : Start(r) \/ Step(r)
  BY <1>1, SoleStep
<1>2. CASE Crash
  BY <1>2, SoleCrash DEF TypeInv
<1>3. CASE UNCHANGED vars
  <2>1. UNCHANGED <<entry, part, content, inProg, closed, pc, svc, key, leader, awaits, fd,
                    pos, sourceFaults, diskFaults>>
    BY <1>3 DEF vars, disk, flight, asked, writer, bounds
  <2> QED BY <2>1
    DEF SoleInv, NothingFailed, Registration, Registered, Filled, Entry, Writing, Part,
        FilesApart, EntriesComplete, Complete
<1> QED BY <1>1, <1>2, <1>3 DEF Next

(* While one Service owns the directory and no file operation or source fails,  *)
(* what stands at an entry's name is the whole cover: in every interleaving of  *)
(* the requests, and after a crash at any point of a write.                     *)
THEOREM SoleEntriesComplete ==
  ASSUME Sole
  PROVE  Spec => []EntriesComplete
<1>1. TypeInv /\ SoleInv /\ [Next]_vars => SoleInv'
  BY SoleNext
<1>2. SoleInv => EntriesComplete
  BY DEF SoleInv
<1> QED BY <1>1, <1>2, TypeInit, TypeNext, SoleInit, PTL DEF Spec

(* Under the same conditions a cover is produced by one request at a time.      *)
THEOREM SoleSingleFlight ==
  ASSUME Sole
  PROVE  Spec => []SingleFlight
<1>1. TypeInv /\ SoleInv /\ [Next]_vars => SoleInv'
  BY SoleNext
<1>2. TypeInv /\ SoleInv => SingleFlight
  BY OneProducer DEF TypeInv, SoleInv, SingleFlight
<1> QED BY <1>1, <1>2, TypeInit, TypeNext, SoleInit, PTL DEF Spec
====
