---- MODULE CoverServing_proofs ----
(* More theorems about CoverCache: what holds of its single flight and of its   *)
(* files for any number of Services and any failures, and that one Service      *)
(* whose files do not fail is a CoverStore.                                     *)
EXTENDS CoverCache_proofs

----
(* Whoever waits is woken                                                       *)

LeaderStops == Producing \cup Releasing \cup {"recheck", "remove", "open"}

(* A leader is on its way to the release, *)
LeaderRuns == \A r \in Requests : leader[r] => pc[r] \in LeaderStops

(* the map names leaders that have yet to leave it, under what they asked for,  *)
MapNamesLeaders ==
  \A v \in Services, k \in Keys : inProg[v][k] # None =>
    /\ svc[inProg[v][k]] = v /\ key[inProg[v][k]] = k
    /\ leader[inProg[v][k]] /\ pc[inProg[v][k]] # "close"

(* and a waiter's leader still leads or has closed its channel. *)
WaitersAwait ==
  \A r \in Requests : pc[r] = "wait" =>
    awaits[r] \in Requests /\ (awaits[r] \in closed \/ leader[awaits[r]])

FlightInv == LeaderRuns /\ MapNamesLeaders /\ WaitersAwait

LEMMA LeaveLeads ==
  ASSUME NEW r, NEW result, NEW file
  PROVE  /\ leader[r] => Leave(r, result, file) = "unregister"
         /\ ~leader[r] => Leave(r, result, file) \in {"done", "open", "serve"}
  BY DEF Leave

(* Any step of a request but those on the map and the channel. *)
LEMMA FlightKept ==
  ASSUME TypeOK, FlightInv, NEW r \in Requests, NEW from, NEW to \in Stops,
         Goto(r, from, to), to \notin {"wait", "close"},
         leader[r] => to \in LeaderStops,
         UNCHANGED <<flight, asked, leader, awaits>>
  PROVE  FlightInv'
<1>1. /\ pc'[r] = to
      /\ \A s \in Requests : s # r => pc'[s] = pc[s]
  BY GotoMoves
<1>2. UNCHANGED <<inProg, closed, svc, key, leader, awaits>>
  BY DEF flight, asked
<1>3. \A v \in Services, k \in Keys : inProg[v][k] # None => inProg[v][k] \in Requests
  BY DEF TypeOK, Files
<1>4. LeaderRuns' /\ MapNamesLeaders'
  BY <1>1, <1>2, <1>3 DEF FlightInv, LeaderRuns, MapNamesLeaders
<1>5. WaitersAwait'
  BY <1>1, <1>2 DEF FlightInv, WaitersAwait
<1> QED BY <1>4, <1>5 DEF FlightInv

LEMMA FlightAcquire ==
  ASSUME TypeOK, FlightInv, NEW r \in Requests, Acquire(r)
  PROVE  FlightInv'
<1> USE CacheAssumption
<1>0. /\ key[r] \in Keys /\ svc[r] \in Services /\ inProg[svc[r]] \in [Keys -> Files]
      /\ Registered(r) = inProg[svc[r]][key[r]] /\ Registered(r) \in Files
      /\ \A v \in Services, k \in Keys : inProg[v][k] # None => inProg[v][k] \in Requests
  BY DEF TypeOK, Registered, Files
<1>1. PICK to \in {"wait", "recheck"} : Goto(r, "acquire", to)
  BY DEF Acquire
<1>2. UNCHANGED <<svc, key, closed>>
  BY DEF Acquire, asked
<1>3. to \in Stops
  BY <1>1 DEF Stops, Running
<1>4. /\ pc[r] = "acquire" /\ pc'[r] = to
      /\ \A s \in Requests : s # r => pc'[s] = pc[s]
  BY <1>1, <1>3, GotoMoves
<1>5. ~leader[r]
  BY <1>4 DEF FlightInv, LeaderRuns, LeaderStops, Producing, Releasing
<1>6. CASE Registered(r) # None
  <2>1. /\ awaits' = [awaits EXCEPT ![r] = Registered(r)]
        /\ UNCHANGED <<inProg, leader>>
    BY <1>6 DEF Acquire
  <2>2. LeaderRuns' /\ MapNamesLeaders'
    BY <1>0, <1>2, <1>4, <1>5, <2>1 DEF FlightInv, LeaderRuns, MapNamesLeaders
  <2>3. Registered(r) \in Requests /\ leader[Registered(r)]
    BY <1>0, <1>6 DEF FlightInv, MapNamesLeaders
  <2>4. WaitersAwait'
    BY <1>2, <1>4, <2>1, <2>3 DEF FlightInv, WaitersAwait, TypeOK
  <2> QED BY <2>2, <2>4 DEF FlightInv
<1>7. CASE Registered(r) = None
  <2>1. /\ inProg' = [inProg EXCEPT ![svc[r]][key[r]] = r]
        /\ leader' = [leader EXCEPT ![r] = TRUE]
        /\ UNCHANGED awaits /\ pc'[r] = "recheck"
    BY <1>4, <1>7 DEF Acquire, Goto, TypeOK
  <2>2. /\ inProg'[svc[r]][key[r]] = r
        /\ \A v \in Services, k \in Keys :
             (v # svc[r] \/ k # key[r]) => inProg'[v][k] = inProg[v][k]
    BY <1>0, <2>1 DEF TypeOK
  <2>3. leader'[r] /\ \A s \in Requests : s # r => leader'[s] = leader[s]
    BY <2>1 DEF TypeOK
  <2>4. LeaderRuns'
    BY <1>4, <2>1, <2>3 DEF FlightInv, LeaderRuns, LeaderStops
  <2>5. MapNamesLeaders'
    BY <1>0, <1>2, <1>4, <1>5, <2>1, <2>2, <2>3 DEF FlightInv, MapNamesLeaders
  <2>6. WaitersAwait'
    BY <1>2, <1>4, <2>1, <2>3 DEF FlightInv, WaitersAwait
  <2> QED BY <2>4, <2>5, <2>6 DEF FlightInv
<1> QED BY <1>6, <1>7

LEMMA FlightUnregister ==
  ASSUME TypeOK, FlightInv, NEW r \in Requests, Unregister(r)
  PROVE  FlightInv'
<1> USE CacheAssumption
<1>1. Goto(r, "unregister", "close") /\ "close" \in Stops
  BY DEF Unregister, Stops, Running, Releasing
<1>2. /\ pc'[r] = "close"
      /\ \A s \in Requests : s # r => pc'[s] = pc[s]
  BY <1>1, GotoMoves
<1>3. UNCHANGED <<closed, svc, key, leader, awaits>>
  BY DEF Unregister, asked
<1>4. /\ inProg'[svc[r]][key[r]] = None
      /\ \A v \in Services, k \in Keys :
           (v # svc[r] \/ k # key[r]) => inProg'[v][k] = inProg[v][k]
      /\ \A v \in Services, k \in Keys : inProg[v][k] # None => inProg[v][k] \in Requests
  BY DEF Unregister, TypeOK, Files
<1>5. LeaderRuns'
  BY <1>2, <1>3 DEF FlightInv, LeaderRuns, LeaderStops, Releasing
<1>6. MapNamesLeaders'
  BY <1>2, <1>3, <1>4 DEF FlightInv, MapNamesLeaders
<1>7. WaitersAwait'
  BY <1>2, <1>3 DEF FlightInv, WaitersAwait
<1> QED BY <1>5, <1>6, <1>7 DEF FlightInv

LEMMA FlightClose ==
  ASSUME TypeOK, FlightInv, NEW r \in Requests, Close(r)
  PROVE  FlightInv'
<1> USE CacheAssumption
<1>1. PICK to \in {"done", "open", "serve"} : Goto(r, "close", to)
  BY DEF Close
<1>2. to \in Stops
  BY <1>1 DEF Stops, Running
<1>3. /\ pc[r] = "close" /\ pc'[r] = to
      /\ \A s \in Requests : s # r => pc'[s] = pc[s]
  BY <1>1, <1>2, GotoMoves
<1>4. /\ UNCHANGED <<inProg, svc, key, awaits>>
      /\ closed' = closed \cup {r}
      /\ ~leader'[r] /\ \A s \in Requests : s # r => leader'[s] = leader[s]
  BY DEF Close, TypeOK, asked
<1>5. \A v \in Services, k \in Keys : inProg[v][k] # None =>
        inProg[v][k] \in Requests /\ inProg[v][k] # r
  BY <1>3 DEF FlightInv, MapNamesLeaders, TypeOK, Files
<1>6. LeaderRuns' /\ MapNamesLeaders'
  BY <1>3, <1>4, <1>5 DEF FlightInv, LeaderRuns, MapNamesLeaders
<1>7. WaitersAwait'
  BY <1>1, <1>3, <1>4 DEF FlightInv, WaitersAwait
<1> QED BY <1>6, <1>7 DEF FlightInv

LEMMA FlightStep ==
  ASSUME TypeOK, FlightInv, NEW r \in Requests, Start(r) \/ Step(r)
  PROVE  FlightInv'
<1> USE DEF LeaderStops, Stops, Running, Producing, Releasing
<1>k. ASSUME NEW from, NEW to, Goto(r, from, to),
             to \in Stops \ {"wait", "close"},
             leader[r] => to \in LeaderStops,
             UNCHANGED <<flight, asked, leader, awaits>>
      PROVE  FlightInv'
  BY <1>k, FlightKept
<1>l. ASSUME NEW from, NEW result, NEW file, Goto(r, from, Leave(r, result, file)),
             UNCHANGED <<flight, asked, leader, awaits>>
      PROVE  FlightInv'
  BY <1>k, <1>l, LeaveLeads
<1>n. pc[r] \in {"idle", "probe", "wait", "serve"} => ~leader[r]
  BY DEF FlightInv, LeaderRuns
<1>1. CASE Start(r)
  BY <1>1, <1>k, <1>n DEF Start, Goto
<1>2. CASE Probe(r)
  BY <1>2, <1>k, <1>n DEF Probe, Goto
<1>3. CASE Acquire(r)
  BY <1>3, FlightAcquire
<1>4. CASE Wait(r)
  BY <1>4, <1>k, <1>n DEF Wait, Goto
<1>5. CASE Recheck(r)
  BY <1>5, <1>k, <1>l DEF Recheck
<1>6. CASE Produce(r)
  BY <1>6, <1>k, <1>l DEF Produce, Fail
<1>7. CASE Create(r)
  BY <1>7, <1>k, <1>l DEF Create, Fail
<1>8. CASE Write(r)
  BY <1>8, <1>k, <1>l DEF Write, Fail
<1>9. CASE Rename(r)
  BY <1>9, <1>k, <1>l DEF Rename
<1>10. CASE Remove(r)
  BY <1>10, <1>l DEF Remove, Fail
<1>11. CASE Unregister(r)
  BY <1>11, FlightUnregister
<1>12. CASE Close(r)
  BY <1>12, FlightClose
<1>13. CASE Open(r)
  BY <1>13, <1>l DEF Open, Fail
<1>14. CASE Serve(r)
  BY <1>14, <1>k, <1>n DEF Serve, Goto
<1> QED BY <1>1, <1>2, <1>3, <1>4, <1>5, <1>6, <1>7, <1>8, <1>9, <1>10, <1>11, <1>12,
           <1>13, <1>14 DEF Step

LEMMA FlightNext ==
  ASSUME TypeOK, FlightInv, [Next]_vars
  PROVE  FlightInv'
<1>1. CASE \E r \in Requests : Start(r) \/ Step(r)
  BY <1>1, FlightStep
<1>2. CASE Crash
  BY <1>2 DEF Crash, FlightInv, LeaderRuns, MapNamesLeaders, WaitersAwait, Running
<1>3. CASE UNCHANGED vars
  BY <1>3 DEF vars, flight, asked, FlightInv, LeaderRuns, MapNamesLeaders, WaitersAwait
<1> QED BY <1>1, <1>2, <1>3 DEF Next

(* A request that waits waits for a leader that has closed its channel or is    *)
(* running and will: on every path through covers.go:200-276, for               *)
(* any number of Services, failures and crashes.                                *)
THEOREM WaitersAreWoken == Spec => []WaitersHaveLeader
<1>1. Init => FlightInv
  BY DEF Init, FlightInv, LeaderRuns, MapNamesLeaders, WaitersAwait
<1>2. TypeInv /\ FlightInv /\ [Next]_vars => FlightInv'
  BY FlightNext DEF TypeInv
<1>3. FlightInv => WaitersHaveLeader
  BY DEF FlightInv, WaitersAwait, LeaderRuns, WaitersHaveLeader, LeaderStops, Running
<1> QED BY <1>1, <1>2, <1>3, TypeInit, TypeNext, PTL DEF Spec

----
(* A torn entry is being completed                                              *)

(* A file holds the whole cover, or whoever emptied it last goes on to write    *)
(* the pieces it lacks.                                                         *)
Finishing(f) ==
  \/ Complete(f)
  \/ \E r \in Requests :
       /\ pc[r] = "write" /\ fd[r] = f
       /\ content[f] \cup (pos[r] + 1)..Size = Pieces

NamedFinishing ==
  (diskFaults = 0 /\ crashes = 0) =>
    \A k \in Keys : /\ entry[k] # None => Finishing(entry[k])
                    /\ part[k] # None => Finishing(part[k])

(* A step of a request that writes to no file, whatever it renames or removes.  *)
LEMMA FinishingQuiet ==
  ASSUME TypeOK, NamedFinishing, NEW r \in Requests, NEW from, NEW to \in Stops,
         Goto(r, from, to), from # "write",
         UNCHANGED <<content, writer>>,
         \A k \in Keys : /\ entry'[k] \in {entry[k], part[k]}
                         /\ part'[k] \in {part[k], None},
         (diskFaults' = 0 /\ crashes' = 0) => (diskFaults = 0 /\ crashes = 0)
  PROVE  NamedFinishing'
<1> SUFFICES ASSUME diskFaults' = 0, crashes' = 0, NEW k \in Keys
             PROVE  /\ entry'[k] # None => Finishing(entry[k])'
                    /\ part'[k] # None => Finishing(part[k])'
  BY DEF NamedFinishing
<1>1. /\ pc[r] = from /\ \A s \in Requests : s # r => pc'[s] = pc[s]
  BY GotoMoves
<1>2. UNCHANGED <<content, fd, pos>>
  BY DEF writer
<1>3. ASSUME NEW f, Finishing(f)
      PROVE  \/ content'[f] = Pieces
             \/ \E s \in Requests :
                  /\ pc'[s] = "write" /\ fd'[s] = f
                  /\ content'[f] \cup (pos'[s] + 1)..Size = Pieces
  BY <1>1, <1>2, <1>3 DEF Finishing, Complete
<1>4. /\ entry[k] # None => Finishing(entry[k])
      /\ part[k] # None => Finishing(part[k])
  BY DEF NamedFinishing
<1>5. ASSUME entry'[k] # None PROVE Finishing(entry[k])'
  BY <1>3, <1>4, <1>5 DEF Finishing, Complete
<1>6. ASSUME part'[k] # None PROVE Finishing(part[k])'
  BY <1>3, <1>4, <1>6 DEF Finishing, Complete
<1> QED BY <1>5, <1>6

(* Who opens the temporary file empties it and has all of it left to write.     *)
LEMMA FinishingCreate ==
  ASSUME TypeInv, NamedFinishing, NEW r \in Requests, Create(r)
  PROVE  NamedFinishing'
<1> USE CacheAssumption
<1>0. TypeOK /\ key[r] \in Keys
  BY DEF TypeInv, TypeOK
<1>1. CASE Fail(r, "create") /\ DiskFault /\ UNCHANGED <<part, content, fd>>
  BY <1>0, <1>1 DEF NamedFinishing, DiskFault, TypeOK
<1>2. CASE Goto(r, "create", "write") /\ UNCHANGED bounds
  <2> DEFINE file == IF Part(r) = None THEN r ELSE Part(r)
  <2>1. /\ part' = [part EXCEPT ![key[r]] = file]
        /\ content' = [content EXCEPT ![file] = {}]
        /\ fd' = [fd EXCEPT ![r] = file]
        /\ UNCHANGED <<entry, pos, bounds>>
    BY <1>0, <1>2 DEF Create, Fail, DiskFault, bounds, TypeOK
  <2>2. file \in Requests /\ (file = r \/ file = part[key[r]])
    BY <1>0 DEF TypeOK, Part, Files
  <2> HIDE DEF file
  <2>3. /\ pc[r] = "create" /\ pc'[r] = "write"
        /\ \A s \in Requests : s # r => pc'[s] = pc[s]
    BY <1>0, <1>2, GotoMoves DEF Stops, Running, Producing
  <2>4. /\ content'[file] = {} /\ fd'[r] = file /\ pos'[r] = 0
        /\ \A f \in Requests : f # file => content'[f] = content[f]
        /\ \A s \in Requests : s # r => fd'[s] = fd[s] /\ pos'[s] = pos[s]
    BY <1>0, <2>1, <2>2, <2>3 DEF TypeOK, TypeInv, PosInRange, Before
  <2>5. /\ pc'[r] = "write" /\ fd'[r] = file
        /\ content'[file] \cup (pos'[r] + 1)..Size = Pieces
    BY <2>3, <2>4 DEF Pieces
  <2>6. ASSUME NEW f \in Requests, f # file => Finishing(f)
        PROVE  \/ content'[f] = Pieces
               \/ \E s \in Requests :
                    /\ pc'[s] = "write" /\ fd'[s] = f
                    /\ content'[f] \cup (pos'[s] + 1)..Size = Pieces
    <3>1. CASE f = file
      BY <2>5, <3>1
    <3>2. CASE f # file
      BY <2>3, <2>4, <2>6, <3>2 DEF Finishing, Complete
    <3> QED BY <3>1, <3>2
  <2> SUFFICES ASSUME diskFaults' = 0, crashes' = 0, NEW k \in Keys
               PROVE  /\ entry'[k] # None => Finishing(entry[k])'
                      /\ part'[k] # None => Finishing(part[k])'
    BY DEF NamedFinishing
  <2>7. /\ entry[k] # None => Finishing(entry[k])
        /\ part[k] # None => Finishing(part[k])
    BY <2>1 DEF NamedFinishing, bounds
  <2>8. /\ entry'[k] = entry[k] /\ part'[k] \in {part[k], file}
        /\ entry[k] \in Files /\ part[k] \in Files
    BY <1>0, <2>1 DEF TypeOK
  <2>9. ASSUME entry'[k] # None PROVE Finishing(entry[k])'
    BY <2>6, <2>7, <2>8, <2>9 DEF Finishing, Complete, Files
  <2>10. ASSUME part'[k] # None PROVE Finishing(part[k])'
    BY <2>2, <2>6, <2>7, <2>8, <2>10 DEF Finishing, Complete, Files
  <2> QED BY <2>9, <2>10
<1> QED BY <1>1, <1>2 DEF Create

(* A piece written is one less to write, for its writer and for everybody else. *)
LEMMA FinishingWrite ==
  ASSUME TypeInv, NamedFinishing, NEW r \in Requests, Write(r)
  PROVE  NamedFinishing'
<1> USE CacheAssumption
<1>0. TypeOK /\ PosInRange
  BY DEF TypeInv
<1>1. CASE Fail(r, "write") /\ DiskFault /\ UNCHANGED <<content, pos>>
  BY <1>0, <1>1 DEF NamedFinishing, DiskFault, TypeOK
<1>2. CASE /\ Goto(r, "write", IF pos[r] + 1 = Size THEN "rename" ELSE "write")
           /\ content' = [content EXCEPT ![fd[r]] = @ \cup {pos[r] + 1}]
           /\ pos' = [pos EXCEPT ![r] = @ + 1]
           /\ UNCHANGED <<outcome, bounds>>
  <2>1. UNCHANGED <<entry, part, fd, bounds>>
    BY <1>2 DEF Write
  <2>2. (IF pos[r] + 1 = Size THEN "rename" ELSE "write") \in Stops
    BY DEF Stops, Running, Producing
  <2>3. /\ pc[r] = "write" /\ \A s \in Requests : s # r => pc'[s] = pc[s]
        /\ pos[r] + 1 # Size => pc'[r] = "write"
    BY <1>0, <1>2, <2>2, GotoMoves
  <2>4. pos[r] \in Nat /\ pos[r] < Size
    BY <1>0, <2>3 DEF PosInRange, TypeOK
  <2>5. pos'[r] = pos[r] + 1 /\ \A s \in Requests : s # r => pos'[s] = pos[s]
    BY <1>0, <1>2 DEF TypeOK
  <2>6. ASSUME NEW f \in Requests, Finishing(f)
        PROVE  \/ content'[f] = Pieces
               \/ \E s \in Requests :
                    /\ pc'[s] = "write" /\ fd'[s] = f
                    /\ content'[f] \cup (pos'[s] + 1)..Size = Pieces
    <3>1. /\ content[f] \subseteq Pieces
          /\ content'[f] = IF f = fd[r] THEN content[f] \cup {pos[r] + 1} ELSE content[f]
      BY <1>0, <1>2, <2>6 DEF TypeOK
    <3>2. pos[r] + 1 \in Pieces
      BY <2>4 DEF Pieces
    <3>3. CASE Complete(f)
      BY <3>1, <3>2, <3>3 DEF Complete
    <3>4. ASSUME NEW s \in Requests, s # r, pc[s] = "write", fd[s] = f,
                 content[f] \cup (pos[s] + 1)..Size = Pieces
          PROVE  /\ pc'[s] = "write" /\ fd'[s] = f
                 /\ content'[f] \cup (pos'[s] + 1)..Size = Pieces
      BY <2>1, <2>3, <2>5, <3>1, <3>2, <3>4
    <3>5. CASE fd[r] = f /\ content[f] \cup (pos[r] + 1)..Size = Pieces
      <4>1. (pos[r] + 1)..Size = {pos[r] + 1} \cup (pos[r] + 1 + 1)..Size
        BY <2>4
      <4>2. content'[f] \cup (pos'[r] + 1)..Size = Pieces
        BY <2>5, <3>1, <3>5, <4>1
      <4>3. CASE pos[r] + 1 = Size
        <5>1. (pos'[r] + 1)..Size = {}
          BY <2>4, <2>5, <4>3
        <5> QED BY <4>2, <5>1
      <4>4. CASE pos[r] + 1 # Size
        BY <2>1, <2>3, <3>5, <4>2, <4>4
      <4> QED BY <4>3, <4>4
    <3> QED BY <2>6, <3>3, <3>4, <3>5 DEF Finishing
  <2> SUFFICES ASSUME diskFaults' = 0, crashes' = 0, NEW k \in Keys
               PROVE  /\ entry'[k] # None => Finishing(entry[k])'
                      /\ part'[k] # None => Finishing(part[k])'
    BY DEF NamedFinishing
  <2>7. /\ entry[k] # None => Finishing(entry[k])
        /\ part[k] # None => Finishing(part[k])
        /\ entry[k] \in Files /\ part[k] \in Files
    BY <1>0, <2>1 DEF NamedFinishing, bounds, TypeOK
  <2>8. ASSUME entry'[k] # None PROVE Finishing(entry[k])'
    BY <2>1, <2>6, <2>7, <2>8 DEF Finishing, Complete, Files
  <2>9. ASSUME part'[k] # None PROVE Finishing(part[k])'
    BY <2>1, <2>6, <2>7, <2>9 DEF Finishing, Complete, Files
  <2> QED BY <2>8, <2>9
<1> QED BY <1>1, <1>2 DEF Write

LEMMA FinishingStep ==
  ASSUME TypeInv, NamedFinishing, NEW r \in Requests, Start(r) \/ Step(r)
  PROVE  NamedFinishing'
<1>0. TypeOK
  BY DEF TypeInv
<1>k. ASSUME NEW from, NEW to \in Stops, Goto(r, from, to), from # "write",
             UNCHANGED <<content, writer>>,
             \A k \in Keys : /\ entry'[k] \in {entry[k], part[k]}
                             /\ part'[k] \in {part[k], None},
             UNCHANGED bounds \/ SourceFault \/ DiskFault
      PROVE  NamedFinishing'
  BY <1>0, <1>k, FinishingQuiet DEF bounds, SourceFault, DiskFault, TypeOK
<1>d. UNCHANGED disk => /\ UNCHANGED content
                        /\ \A k \in Keys : /\ entry'[k] \in {entry[k], part[k]}
                                           /\ part'[k] \in {part[k], None}
  BY DEF disk
<1> USE DEF Stops, Running, Producing, Releasing
<1>1. CASE Start(r)
  BY <1>1, <1>d, <1>k DEF Start
<1>2. CASE Probe(r)
  BY <1>2, <1>d, <1>k DEF Probe
<1>3. CASE Acquire(r)
  BY <1>3, <1>d, <1>k DEF Acquire
<1>4. CASE Wait(r)
  BY <1>4, <1>d, <1>k DEF Wait
<1>5. CASE Recheck(r)
  BY <1>5, <1>d, <1>k, LeaveType DEF Recheck
<1>6. CASE Produce(r)
  BY <1>6, <1>d, <1>k, LeaveType DEF Produce, Fail
<1>7. CASE Create(r)
  BY <1>7, FinishingCreate
<1>8. CASE Write(r)
  BY <1>8, FinishingWrite
<1>9. CASE Rename(r)
  <2>1. /\ \A k \in Keys : /\ entry'[k] \in {entry[k], part[k]}
                           /\ part'[k] \in {part[k], None}
        /\ UNCHANGED <<content, writer>>
        /\ UNCHANGED bounds \/ DiskFault
    BY <1>0, <1>9 DEF Rename, Part, TypeOK
  <2>2. /\ "remove" \in Stops
        /\ (IF Resized(r) THEN "open" ELSE Leave(r, "cover", None)) \in Stops
    BY LeaveType
  <2> QED BY <1>9, <1>k, <2>1, <2>2 DEF Rename
<1>10. CASE Remove(r)
  <2>1. /\ \A k \in Keys : /\ entry'[k] \in {entry[k], part[k]}
                           /\ part'[k] \in {part[k], None}
        /\ UNCHANGED <<content, writer, bounds>>
    BY <1>0, <1>10 DEF Remove, TypeOK
  <2> QED BY <1>10, <1>k, <2>1, LeaveType DEF Remove, Fail
<1>11. CASE Unregister(r)
  BY <1>11, <1>d, <1>k DEF Unregister
<1>12. CASE Close(r)
  BY <1>12, <1>d, <1>k DEF Close
<1>13. CASE Open(r)
  BY <1>13, <1>d, <1>k, LeaveType DEF Open, Fail
<1>14. CASE Serve(r)
  BY <1>14, <1>d, <1>k DEF Serve
<1> QED BY <1>1, <1>2, <1>3, <1>4, <1>5, <1>6, <1>7, <1>8, <1>9, <1>10, <1>11, <1>12,
           <1>13, <1>14 DEF Step

(* As long as no file operation has failed and the process has not died, a torn *)
(* entry is one that somebody is writing, and what is missing is still to come: *)
(* also where several Services write the same temporary file (covers.go:281).   *)
THEOREM TornEntriesAreTransient == Spec => []TornIsTransient
<1>1. Init => NamedFinishing
  BY DEF Init, NamedFinishing
<1>2. TypeInv /\ NamedFinishing /\ [Next]_vars => NamedFinishing'
  <2> SUFFICES ASSUME TypeInv, NamedFinishing, [Next]_vars PROVE NamedFinishing'
    OBVIOUS
  <2>1. CASE \E r \in Requests : Start(r) \/ Step(r)
    BY <2>1, FinishingStep
  <2>2. CASE Crash
    BY <2>2 DEF Crash, NamedFinishing, TypeInv, TypeOK
  <2>3. CASE UNCHANGED vars
    BY <2>3 DEF vars, disk, writer, bounds, NamedFinishing, Finishing, Complete
  <2> QED BY <2>1, <2>2, <2>3 DEF Next
<1>3. NamedFinishing => TornIsTransient
  BY DEF NamedFinishing, Finishing, TornIsTransient
<1> QED BY <1>1, <1>2, <1>3, TypeInit, TypeNext, PTL DEF Spec

----
(* One Service whose files do not fail is a CoverStore                          *)

(* A request produces a cover only while there is none, *)
ProducesTheMissing == \A r \in Requests : pc[r] \in Producing => Entry(r) = None

(* what it opened to serve is the entry it asked for, *)
OpenedTheEntry ==
  \A r \in Requests : /\ pc[r] = "serve" => got[r] # None
                      /\ got[r] # None => got[r] = Entry(r)

(* and its client is answered when it returns, and not before. *)
AnsweredAtReturn ==
  \A r \in Requests : /\ outcome[r] \in {"none", "cover"}
                      /\ pc[r] = "done" <=> outcome[r] = "cover"

StoreInv == ProducesTheMissing /\ OpenedTheEntry /\ AnsweredAtReturn

(* The mapping of CoverCache's state to CoverStore's *)
Stored == [k \in Keys |-> IF entry[k] = None THEN "absent" ELSE "whole"]
Wanted == [r \in Requests |-> IF pc[r] \in {"idle", "dead"} THEN None ELSE key[r]]

LEMMA StoreVars ==
  ASSUME EntriesComplete, EntriesComplete',
         Stored' = Stored, Wanted' = Wanted, outcome' = outcome
  PROVE  UNCHANGED CS!vars
<1> DEFINE Store == [k \in Keys |-> IF entry[k] = None THEN "absent"
                                    ELSE IF Complete(entry[k]) THEN "whole" ELSE "part"]
<1>1. Store = Stored /\ Store' = Stored'
  BY DEF Stored, EntriesComplete
<1> QED BY <1>1 DEF CS!vars, Wanted

(* A request that goes on leaves its client unanswered and the store as it is.  *)
LEMMA StoreQuiet ==
  ASSUME TypeOK, SoleInv, EntriesComplete', StoreInv, NEW r \in Requests,
         NEW from, NEW to \in Stops \ {"idle", "dead", "done"}, Goto(r, from, to),
         from \notin {"idle", "dead", "done"},
         to \in Producing => Entry(r) = None,
         to = "serve" => got'[r] # None,
         got' = got \/ \E f \in {Entry(r), None} : got' = [got EXCEPT ![r] = f],
         UNCHANGED <<entry, asked, outcome>>
  PROVE  StoreInv' /\ UNCHANGED CS!vars
<1>1. /\ pc[r] = from /\ pc'[r] = to
      /\ \A s \in Requests : s # r => pc'[s] = pc[s]
  BY GotoMoves
<1>2. UNCHANGED <<entry, svc, key, outcome>> /\ \A s \in Requests : Entry(s)' = Entry(s)
  BY DEF asked, Entry
<1>8. /\ \A s \in Requests : s # r => got'[s] = got[s]
      /\ got'[r] \in {got[r], Entry(r), None}
  <2>1. CASE got' = got
    BY <2>1
  <2>2. ASSUME NEW f \in {Entry(r), None}, got' = [got EXCEPT ![r] = f]
        PROVE  /\ \A s \in Requests : s # r => got'[s] = got[s]
               /\ got'[r] \in {Entry(r), None}
    BY <2>2 DEF TypeOK
  <2> QED BY <2>1, <2>2
<1>3. ProducesTheMissing'
  BY <1>1, <1>2 DEF StoreInv, ProducesTheMissing
<1>4. OpenedTheEntry'
  BY <1>1, <1>2, <1>8 DEF StoreInv, OpenedTheEntry
<1>5. AnsweredAtReturn'
  BY <1>1, <1>2 DEF StoreInv, AnsweredAtReturn
<1>6. Stored' = Stored /\ Wanted' = Wanted
  BY <1>1, <1>2 DEF Stored, Wanted
<1>7. UNCHANGED CS!vars
  BY <1>2, <1>6, StoreVars DEF SoleInv
<1> QED BY <1>3, <1>4, <1>5, <1>7 DEF StoreInv

(* Start is the abstract Ask. *)
LEMMA StoreAsk ==
  ASSUME TypeOK, SoleInv, EntriesComplete', StoreInv, NEW r \in Requests, Start(r)
  PROVE  StoreInv' /\ CS!Next
<1>1. /\ pc[r] = "idle" /\ pc'[r] = "probe"
      /\ \A s \in Requests : s # r => pc'[s] = pc[s]
  BY GotoMoves DEF Start, Stops, Running
<1>2. UNCHANGED <<entry, content, svc, key, got, outcome>>
  BY DEF Start, disk, asked
<1>3. StoreInv'
  BY <1>1, <1>2
  DEF StoreInv, ProducesTheMissing, OpenedTheEntry, AnsweredAtReturn, Entry, Producing
<1>4. PICK k \in Keys : k = key[r]
  BY DEF TypeOK
<1>5. Wanted[r] = None /\ Wanted' = [Wanted EXCEPT ![r] = k]
  BY <1>1, <1>2, <1>4 DEF Wanted
<1>6. CS!Ask(r, k)
  BY <1>2, <1>5 DEF CS!Ask, Wanted, Complete
<1> QED BY <1>3, <1>6 DEF CS!Next

(* The rename is the abstract Keep, and nothing stood there before. *)
LEMMA StoreKeep ==
  ASSUME Sole, TypeOK, SoleInv, EntriesComplete', StoreInv, NEW r \in Requests, Rename(r)
  PROVE  StoreInv' /\ CS!Next
<1> USE CacheAssumption DEF SoleInv
<1> DEFINE to == IF Resized(r) THEN "open" ELSE Leave(r, "cover", None)
<1>1. pc[r] = "rename"
  BY DEF Rename, Goto
<1>2. /\ key[r] \in Keys /\ part[key[r]] = fd[r] /\ fd[r] # None /\ leader[r]
      /\ Entry(r) = None
  BY <1>1 DEF Writing, Part, TypeOK, Registration, Producing, StoreInv, ProducesTheMissing
<1>3. /\ Goto(r, "rename", to)
      /\ entry' = [entry EXCEPT ![key[r]] = fd[r]]
      /\ UNCHANGED <<content, svc, key, got, outcome>>
  BY <1>2, NothingFails DEF Rename, Part, asked
<1>4. to \in {"open", "unregister"} /\ to \in Stops
  BY <1>2 DEF Leave, Stops, Running, Releasing
<1> HIDE DEF to
<1>5. /\ pc'[r] = to
      /\ \A s \in Requests : s # r => pc'[s] = pc[s]
  BY <1>3, <1>4, GotoMoves
<1>6. /\ entry'[key[r]] = fd[r]
      /\ \A k \in Keys : k # key[r] => entry'[k] = entry[k]
  BY <1>2, <1>3 DEF TypeOK
<1>7. \A s \in Requests : /\ key[s] \in Keys
                          /\ s # r /\ pc[s] \in Producing => key[s] # key[r]
  BY <1>1, OneProducer DEF Sole, TypeOK, Producing
<1>8. ProducesTheMissing'
  BY <1>3, <1>4, <1>5, <1>6, <1>7 DEF StoreInv, ProducesTheMissing, Entry, Producing
<1>9. OpenedTheEntry'
  BY <1>2, <1>3, <1>4, <1>5, <1>6, <1>7 DEF StoreInv, OpenedTheEntry, Entry
<1>10. AnsweredAtReturn'
  BY <1>1, <1>3, <1>4, <1>5 DEF StoreInv, AnsweredAtReturn
<1>11. PICK k \in Keys : k = key[r]
  BY <1>2
<1>12. CS!Keep(k)
  <2> DEFINE Store == [j \in Keys |-> IF entry[j] = None THEN "absent"
                                      ELSE IF Complete(entry[j]) THEN "whole" ELSE "part"]
  <2>1. Store = Stored /\ Store' = Stored'
    BY DEF Stored, EntriesComplete
  <2>2. Stored[k] = "absent" /\ Stored' = [Stored EXCEPT ![k] = "whole"]
    BY <1>2, <1>6, <1>11 DEF Stored, Entry
  <2>3. Wanted' = Wanted /\ Wanted[r] = k /\ outcome[r] = "none"
    BY <1>1, <1>3, <1>4, <1>5, <1>11 DEF Wanted, StoreInv, AnsweredAtReturn
  <2> QED BY <1>3, <2>1, <2>2, <2>3 DEF CS!Keep, Wanted
<1> QED BY <1>8, <1>9, <1>10, <1>12 DEF StoreInv, CS!Next

(* Copying the opened file to the client is the abstract Answer. *)
LEMMA StoreAnswer ==
  ASSUME TypeOK, SoleInv, EntriesComplete', StoreInv, NEW r \in Requests, Serve(r)
  PROVE  StoreInv' /\ CS!Next
<1> USE CacheAssumption DEF SoleInv
<1>1. /\ pc[r] = "serve" /\ pc'[r] = "done"
      /\ \A s \in Requests : s # r => pc'[s] = pc[s]
  BY GotoMoves DEF Serve, Stops
<1>2. UNCHANGED <<entry, content, svc, key, got>>
  BY DEF Serve, disk, asked
<1>3. key[r] \in Keys /\ Entry(r) # None /\ content[got[r]] = Pieces
  BY <1>1 DEF StoreInv, OpenedTheEntry, EntriesComplete, Complete, TypeOK, Entry
<1>4. outcome' = [outcome EXCEPT ![r] = "cover"]
  BY <1>3 DEF Serve
<1>5. StoreInv'
  <2>1. outcome'[r] = "cover" /\ \A s \in Requests : s # r => outcome'[s] = outcome[s]
    BY <1>4 DEF TypeOK
  <2> QED BY <1>1, <1>2, <2>1
      DEF StoreInv, ProducesTheMissing, OpenedTheEntry, AnsweredAtReturn, Entry, Producing
<1>6. CS!Answer(r)
  <2> DEFINE Store == [k \in Keys |-> IF entry[k] = None THEN "absent"
                                      ELSE IF Complete(entry[k]) THEN "whole" ELSE "part"]
  <2>1. Store = Stored /\ Store' = Stored'
    BY DEF Stored, EntriesComplete
  <2>2. Wanted' = Wanted /\ Wanted[r] = key[r] /\ key[r] # None
    BY <1>1, <1>2, <1>3 DEF Wanted
  <2>3. Stored' = Stored /\ Stored[key[r]] = "whole" /\ outcome[r] = "none"
    BY <1>1, <1>2, <1>3 DEF Stored, Entry, StoreInv, AnsweredAtReturn
  <2> QED BY <1>4, <2>1, <2>2, <2>3 DEF CS!Answer, Wanted
<1> QED BY <1>5, <1>6 DEF CS!Next

LEMMA StoreStep ==
  ASSUME Sole, TypeOK, SoleInv, EntriesComplete', StoreInv,
         NEW r \in Requests, Start(r) \/ Step(r)
  PROVE  StoreInv' /\ [CS!Next]_(CS!vars)
<1> USE DEF Stops, Running, Producing, Releasing
<1>k. ASSUME NEW from, NEW to, Goto(r, from, to),
             from \notin {"idle", "dead", "done"},
             to \in Stops \ {"idle", "dead", "done"},
             to \in Producing => Entry(r) = None,
             to = "serve" => got'[r] # None,
             got' = got \/ \E f \in {Entry(r), None} : got' = [got EXCEPT ![r] = f],
             UNCHANGED <<entry, asked, outcome>>
      PROVE  StoreInv' /\ [CS!Next]_(CS!vars)
  BY <1>k, StoreQuiet
<1>n. /\ ~SourceFault /\ ~DiskFault
      /\ pc[r] \in Producing => Entry(r) = None
      /\ got[r] \in Files /\ key[r] \in Keys
      /\ outcome[r] = "error" => FALSE
  BY NothingFails DEF SoleInv, StoreInv, ProducesTheMissing, AnsweredAtReturn, TypeOK
<1>1. CASE Start(r)
  BY <1>1, StoreAsk
<1>2. CASE Probe(r)
  <2>1. UNCHANGED <<entry, asked, outcome>>
    BY <1>2 DEF Probe, disk
  <2>2. CASE Entry(r) = None
    BY <1>2, <1>k, <2>1, <2>2 DEF Probe
  <2>3. CASE Entry(r) # None /\ Resized(r)
    <3>1. got'[r] = Entry(r)
      BY <1>2, <2>3 DEF Probe, TypeOK
    <3> QED BY <1>2, <1>k, <2>1, <2>3, <3>1 DEF Probe
  <2>4. CASE Entry(r) # None /\ ~Resized(r)
    BY <1>2, <1>k, <2>1, <2>4 DEF Probe
  <2> QED BY <2>2, <2>3, <2>4
<1>3. CASE Acquire(r)
  BY <1>3, <1>k DEF Acquire, disk
<1>4. CASE Wait(r)
  BY <1>4, <1>k DEF Wait, disk
<1>5. CASE Recheck(r)
  <2>1. UNCHANGED <<entry, asked, outcome>>
    BY <1>5 DEF Recheck, disk
  <2>2. CASE Entry(r) = None
    BY <1>5, <1>k, <2>1, <2>2 DEF Recheck
  <2>3. CASE Entry(r) # None
    <3> DEFINE file == IF Resized(r) THEN Entry(r) ELSE None
               to == Leave(r, "cover", file)
    <3>1. Goto(r, "recheck", to) /\ got' = [got EXCEPT ![r] = file]
      BY <1>5, <2>3 DEF Recheck
    <3>2. /\ to \in {"unregister", "open", "serve"}
          /\ to = "serve" => file # None
      BY DEF Leave
    <3>3. pc[r] = "recheck" /\ got'[r] = file
      BY <3>1 DEF Goto, TypeOK
    <3>4. file \in {Entry(r), None}
      OBVIOUS
    <3> HIDE DEF file, to
    <3> QED BY <1>k, <2>1, <3>1, <3>2, <3>3, <3>4
  <2> QED BY <2>2, <2>3
<1>6. CASE Produce(r)
  <2>1. Goto(r, "produce", "create") /\ pc[r] = "produce"
    BY <1>6, <1>n DEF Produce, Goto
  <2>2. UNCHANGED <<entry, asked, outcome, got>>
    BY <1>6, <1>n DEF Produce, disk
  <2> QED BY <1>k, <1>n, <2>1, <2>2
<1>7. CASE Create(r)
  <2>1. Goto(r, "create", "write") /\ pc[r] = "create"
    BY <1>7, <1>n DEF Create, Goto
  <2>2. UNCHANGED <<entry, asked, outcome, got>>
    BY <1>7, <1>n DEF Create
  <2> QED BY <1>k, <1>n, <2>1, <2>2
<1>8. CASE Write(r)
  <2>1. PICK to \in {"rename", "write"} : Goto(r, "write", to) /\ pc[r] = "write"
    BY <1>8, <1>n DEF Write, Goto
  <2>2. UNCHANGED <<entry, asked, outcome, got>>
    BY <1>8, <1>n DEF Write
  <2> QED BY <1>k, <1>n, <2>1, <2>2
<1>9. CASE Rename(r)
  BY <1>9, StoreKeep
<1>10. CASE Remove(r)
  BY <1>10 DEF Remove, Fail, Goto, SoleInv, NothingFailed
<1>11. CASE Unregister(r)
  BY <1>11, <1>k DEF Unregister, disk
<1>12. CASE Close(r)
  <2>1. PICK to \in {"open", "serve"} : Goto(r, "close", to) /\ (to = "serve" => got[r] # None)
    BY <1>12, <1>n DEF Close
  <2>2. UNCHANGED <<entry, asked, outcome, got>>
    BY <1>12 DEF Close, disk
  <2> QED BY <1>k, <2>1, <2>2
<1>13. CASE Open(r)
  <2>1. /\ Entry(r) # None /\ Goto(r, "open", Leave(r, "cover", Entry(r)))
        /\ got' = [got EXCEPT ![r] = Entry(r)]
        /\ UNCHANGED <<entry, asked, outcome>>
    BY <1>13, <1>n DEF Open, disk
  <2>2. PICK to \in {"unregister", "serve"} : Goto(r, "open", to)
    BY <2>1 DEF Leave
  <2>3. got'[r] = Entry(r)
    BY <2>1 DEF TypeOK
  <2> QED BY <1>k, <2>1, <2>2, <2>3
<1>14. CASE Serve(r)
  BY <1>14, StoreAnswer
<1> QED BY <1>1, <1>2, <1>3, <1>4, <1>5, <1>6, <1>7, <1>8, <1>9, <1>10, <1>11, <1>12,
           <1>13, <1>14 DEF Step

(* The death of the process is the abstract Restart. *)
LEMMA StoreCrash ==
  ASSUME TypeOK, SoleInv, EntriesComplete', StoreInv, Crash
  PROVE  StoreInv' /\ CS!Next
<1>1. /\ \A r \in Requests : pc'[r] = IF pc[r] \in Running THEN "dead" ELSE pc[r]
      /\ UNCHANGED <<entry, content, svc, key, got, outcome>>
  BY DEF Crash, disk, asked
<1>2. StoreInv'
  <2>1. \A r \in Requests : pc'[r] \in Running \cup {"done"} => pc'[r] = pc[r]
    BY <1>1 DEF Running, Producing, Releasing
  <2>2. \A r \in Requests : pc'[r] = "done" <=> pc[r] = "done"
    BY <1>1 DEF Running, Producing, Releasing
  <2>3. ProducesTheMissing' /\ OpenedTheEntry'
    BY <1>1, <2>1 DEF StoreInv, ProducesTheMissing, OpenedTheEntry, Entry, Running, Producing
  <2>4. AnsweredAtReturn'
    BY <1>1, <2>2 DEF StoreInv, AnsweredAtReturn
  <2> QED BY <2>3, <2>4 DEF StoreInv
<1>3. \A r \in Requests : pc[r] = "done" <=> outcome[r] # "none"
  BY DEF StoreInv, AnsweredAtReturn
<1>4. \A r \in Requests : pc[r] \in Running \cup {"idle", "done", "dead"}
  BY DEF TypeOK
<1>5. Wanted' = [r \in Requests |-> IF outcome[r] = "none" THEN None ELSE Wanted[r]]
  BY <1>1, <1>3, <1>4 DEF Wanted, Running, Producing, Releasing
<1>6. CS!Restart
  BY <1>1, <1>5 DEF CS!Restart, Wanted, Complete
<1> QED BY <1>2, <1>6 DEF CS!Next

LEMMA StoreNext ==
  ASSUME Sole, TypeOK, SoleInv, EntriesComplete', StoreInv, [Next]_vars
  PROVE  StoreInv' /\ [CS!Next]_(CS!vars)
<1>1. CASE \E r \in Requests : Start(r) \/ Step(r)
  BY <1>1, StoreStep
<1>2. CASE Crash
  BY <1>2, StoreCrash
<1>3. CASE UNCHANGED vars
  <2>1. UNCHANGED <<entry, content, svc, key, pc, got, outcome>>
    BY <1>3 DEF vars, disk, asked
  <2>2. StoreInv'
    BY <2>1 DEF StoreInv, ProducesTheMissing, OpenedTheEntry, AnsweredAtReturn, Entry
  <2> QED BY <2>1, <2>2 DEF CS!vars, Complete
<1> QED BY <1>1, <1>2, <1>3 DEF Next

(* While one Service owns the directory and nothing fails, the cache is the     *)
(* store it is meant to be: each cover appears whole, once, and stays, over a   *)
(* crash too; and a client that is answered receives the cover it asked for     *)
(* (covers.go:200-224, 281-292).                                                *)
THEOREM SoleServesLikeStore ==
  ASSUME Sole
  PROVE  Spec => ServesLikeStore
<1>1. Init => CS!Init
  BY DEF Init, CS!Init
<1>2. Init => StoreInv
  BY DEF Init, StoreInv, ProducesTheMissing, OpenedTheEntry, AnsweredAtReturn, Producing
<1>3. TypeInv /\ SoleInv /\ [Next]_vars => SoleInv'
  BY SoleNext
<1>4. TypeInv /\ SoleInv /\ SoleInv' /\ StoreInv /\ [Next]_vars
        => StoreInv' /\ [CS!Next]_(CS!vars)
  BY StoreNext DEF TypeInv, SoleInv
<1> QED BY <1>1, <1>2, <1>3, <1>4, TypeInit, TypeNext, SoleInit, PTL
        DEF Spec, ServesLikeStore, CS!Spec
====
