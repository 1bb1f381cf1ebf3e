---- MODULE PluginServing_proofs ----
(* Theorems about what PluginConfig serves: that it is what is stored, and that *)
(* it only moves forward.                                                       *)
EXTENDS PluginConfig_proofs

----
(* A step of one process, as the others see it                                  *)

LEMMA ConfigureMoves ==
  ASSUME TypeOK, NEW c \in Configures, ConfigureCall(c) \/ ConfigureStep(c)
  PROVE  \A q \in Procs \ {c} : pc'[q] = pc[q]
<1>1. PICK from, to : Goto(c, from, to)
  BY DEF ConfigureCall, ConfigureStep, OpenPool, ImportRead, ImportWrite, ImportReread,
    CloseAndFail, ConfigureLock, Acquire, Publish, SwapPool, CloseOld
<1> QED BY <1>1, GotoMoves DEF Procs

LEMMA SaveMoves ==
  ASSUME TypeOK, NEW s \in Saves, SaveCall(s) \/ SaveStep(s)
  PROVE  \A q \in Procs \ {s} : pc'[q] = pc[q]
<1>1. PICK from, to : Goto(s, from, to)
  BY DEF SaveCall, SaveStep, SaveRead, SaveWrite, SaveReconfigure, RefreshLock, Acquire,
    RefreshRead, RefreshBuild
<1> QED BY <1>1, GotoMoves DEF Procs

----
(* The import only replaces the defaults                                        *)

(* The row that a Configure found to be the defaults is still that when it      *)
(* writes: it is alone until it publishes.                                      *)
DefaultUntilImported ==
  \A c \in Configures : pc[c] = "importWrite" => row.cfg = DefaultAppConfig

LEMMA ImportConfigure ==
  ASSUME TypeOK, BootInv, HostCalls = "boot", DefaultUntilImported,
         NEW c \in Configures, ConfigureCall(c) \/ ConfigureStep(c)
  PROVE  DefaultUntilImported'
<1> USE DEF Procs
<1> SUFFICES ASSUME NEW d \in Configures, pc'[d] = "importWrite"
             PROVE  row'.cfg = DefaultAppConfig
  BY DEF DefaultUntilImported
<1>1. CASE d = c
  <2>1. row' = row /\ (pc[c] # "importWrite" => Importable(c))
    BY <1>1, GotoMoves
    DEF ConfigureCall, ConfigureStep, OpenPool, ImportRead, ImportWrite, ImportReread,
        CloseAndFail, ConfigureLock, Acquire, Publish, SwapPool, CloseOld, Goto, TypeOK
  <2> QED BY <1>1, <2>1 DEF DefaultUntilImported, Importable
<1>2. CASE d # c
  <2>1. pc[d] = "importWrite" /\ pc[c] \notin InFlight
    BY <1>2, ConfigureMoves DEF BootInv, StartsAlone, Starting
  <2>2. row' = row
    BY <2>1 DEF ConfigureCall, ConfigureStep, OpenPool, ImportRead, ImportWrite, ImportReread,
      CloseAndFail, Goto, ConfigureLock, Publish, SwapPool, CloseOld, InFlight, ConfigureSteps
  <2> QED BY <2>1, <2>2 DEF DefaultUntilImported
<1> QED BY <1>1, <1>2

LEMMA ImportSave ==
  ASSUME TypeOK, BootInv, DefaultUntilImported, NEW s \in Saves, SaveCall(s) \/ SaveStep(s)
  PROVE  DefaultUntilImported'
<1> SUFFICES ASSUME NEW d \in Configures, pc'[d] = "importWrite"
             PROVE  row'.cfg = DefaultAppConfig
  BY DEF DefaultUntilImported
<1>1. pc[d] = "importWrite"
  BY SaveMoves, ConfigAssumption DEF Procs
<1>2. pc[s] \notin InFlight
  BY <1>1 DEF BootInv, StartsAlone, NoSaveAtBoot, Starting
<1>3. row' = row
  BY <1>2 DEF SaveCall, SaveStep, SaveRead, SaveWrite, SaveReconfigure, RefreshLock,
    RefreshRead, RefreshBuild, Goto, InFlight, SaveSteps
<1> QED BY <1>1, <1>3 DEF DefaultUntilImported

LEMMA ImportNext ==
  ASSUME TypeOK, BootInv, HostCalls = "boot", DefaultUntilImported, [Next]_vars
  PROVE  DefaultUntilImported'
<1>1. CASE \E c \in Configures : ConfigureCall(c) \/ ConfigureStep(c)
  BY <1>1, ImportConfigure
<1>2. CASE \E s \in Saves : SaveCall(s) \/ SaveStep(s)
  BY <1>2, ImportSave
<1>3. CASE Crash
  BY <1>3 DEF Crash, DefaultUntilImported, TypeOK, InFlight, ConfigureSteps, Procs
<1>4. CASE UNCHANGED vars
  BY <1>4 DEF vars, DefaultUntilImported
<1> QED BY <1>1, <1>2, <1>3, <1>4 DEF Next

(* What an admin saved is never replaced by the configuration the host sends:   *)
(* the row that an import writes over is the defaults, as it was when the       *)
(* import looked (store.go:76-96), if the host calls Configure only before      *)
(* anything is served.                                                          *)
THEOREM ImportsReplaceDefaults ==
  ASSUME HostCalls = "boot"
  PROVE  Spec => ImportReplacesDefaults
<1>1. Init => DefaultUntilImported
  BY DEF Init, DefaultUntilImported, Procs
<1>2. TypeOK /\ BootInv /\ DefaultUntilImported /\ [Next]_vars => DefaultUntilImported'
  BY ImportNext
<1>3. TypeOK /\ DefaultUntilImported /\ [Next]_vars =>
        [(\E c \in Configures : wrote'[c] # wrote[c]) => row.cfg = DefaultAppConfig]_vars
  <2> SUFFICES ASSUME TypeOK, DefaultUntilImported, Next,
                      NEW c \in Configures, wrote'[c] # wrote[c]
               PROVE  row.cfg = DefaultAppConfig
    BY DEF vars
  <2>1. ASSUME NEW s \in Saves, SaveCall(s) \/ SaveStep(s)
        PROVE  wrote'[c] = wrote[c]
    BY <2>1, ConfigAssumption
    DEF SaveCall, SaveStep, SaveRead, SaveWrite, SaveReconfigure, RefreshLock, RefreshRead,
        RefreshBuild, UpdateAppConfig, TypeOK, Procs
  <2>2. wrote' # wrote
    OBVIOUS
  <2>3. PICK d \in Configures : ImportWrite(d)
    BY <2>1, <2>2
    DEF Next, ConfigureCall, ConfigureStep, OpenPool, ImportRead, ImportReread, ConfigureLock,
        Publish, SwapPool, CloseOld, Crash
  <2>4. pc[d] = "importWrite"
    BY <2>3 DEF ImportWrite, CloseAndFail, Goto
  <2> QED BY <2>4 DEF DefaultUntilImported
<1> QED BY <1>1, <1>2, <1>3, BootSpec, TypeCorrect, PTL DEF Spec, ImportReplacesDefaults

----
(* What is served is what is stored                                             *)

(* Nothing that was read or captured is newer than the row. *)
NothingAhead ==
  /\ \A p \in Procs : local[p].ver <= row.ver
  /\ \A h \in Handlers : built[h].conf.ver <= row.ver

(* A handler that serves, or served when a request began, is not built again. *)
Unbuilt == {"idle"} \cup Starting \cup SaveSteps

BuiltOnce ==
  /\ live # Boot => pc[live] \notin Unbuilt
  /\ \A s \in Saves : via[s] # Boot => pc[via[s]] \notin Unbuilt

(* A save that still uses the client of the live handler wrote after that       *)
(* handler had read the row.                                                    *)
ReconfiguresOlder ==
  \A s \in Saves : pc[s] = "reconfigure" =>
    wrote[s] <= row.ver /\ (via[s] = live => LiveConf.ver < wrote[s])

(* Who wrote the row, and has neither served it nor been answered that it is in *)
(* force. Only saves write once something is served, if the host calls Configure*)
(* only before.                                                                 *)
Owing(p) ==
  /\ wrote[p] = row.ver
  /\ \/ /\ p \in Saves
        /\ pc[p] \in {"reconfigure", "lock", "refreshRead", "rebuild", "writeFailed", "refreshFailed"}
     \/ /\ p \in Configures /\ HostCalls # "boot"
        /\ pc[p] \in {"importReread", "lock", "publish", "failed"}

Fresh == LiveConf = row /\ client[live] = NewClient(row.cfg)

ServedIsOwed ==
  (live \in Saves \/ (HostCalls = "boot" /\ live # Boot)) => Fresh \/ \E p \in Procs : Owing(p)

(* A refresh has read the row, unless another call has written it since. *)
RefreshIsOwed ==
  \A s \in Saves : pc[s] = "rebuild" =>
    local[s] = row \/ \E p \in Procs \ {s} : Owing(p)

FreshInv ==
  /\ NothingAhead
  /\ BuiltOnce
  /\ ReconfiguresOlder
  /\ ServedIsOwed
  /\ RefreshIsOwed

Owes == {"reconfigure", "lock", "refreshRead", "rebuild", "writeFailed", "refreshFailed"}
Imports == {"importReread", "lock", "publish", "failed"}

(* p's step writes the row, under its own name. *)
Writes(p) == row'.ver = row.ver + 1 /\ wrote'[p] = row'.ver

(* Every step of a Configure but Publish: *)
LEMMA ConfigureQuiet ==
  ASSUME TypeOK, NEW c \in Configures, ConfigureCall(c) \/ ConfigureStep(c), ~Publish(c)
  PROVE  /\ UNCHANGED <<live, built, client, via>>
         /\ \A q \in Procs \ {c} : wrote'[q] = wrote[q] /\ local'[q] = local[q]
         /\ local'[c] = local[c] \/ (local'[c] = row /\ row' = row)
         /\ pc'[c] \in Unbuilt => pc[c] \in Unbuilt
         /\ \/ Writes(c) /\ pc[c] = "importWrite" /\ pc'[c] \in Imports
            \/ row' = row /\ wrote' = wrote /\ (pc[c] \in Imports => pc'[c] \in Imports)
<1> USE DEF Procs, Unbuilt, Starting, SaveSteps, Imports, Writes
<1>0. /\ c \in Procs /\ pc \in [Procs -> {"idle"} \cup InFlight \cup Ends]
      /\ local \in [Procs -> Versioned] /\ wrote \in [Procs -> Nat]
  BY DEF TypeOK
<1>g. ASSUME NEW from, NEW to, Goto(c, from, to)
      PROVE  pc[c] = from /\ pc'[c] = to
  BY <1>g, GotoMoves
<1>1. CASE ConfigureCall(c)
  BY <1>0, <1>g, <1>1 DEF ConfigureCall, serving
<1>2. CASE OpenPool(c)
  BY <1>0, <1>g, <1>2 DEF OpenPool, CloseAndFail, serving, request
<1>3. CASE ImportRead(c)
  BY <1>0, <1>g, <1>3 DEF ImportRead, CloseAndFail, GetAppConfig, serving, request
<1>4. CASE ImportWrite(c)
  BY <1>0, <1>g, <1>4 DEF ImportWrite, CloseAndFail, UpdateAppConfig, serving, request
<1>5. CASE ImportReread(c)
  BY <1>0, <1>g, <1>5 DEF ImportReread, CloseAndFail, GetAppConfig, serving, request
<1>6. CASE ConfigureLock(c)
  BY <1>0, <1>g, <1>6 DEF ConfigureLock, Acquire, request
<1>7. CASE SwapPool(c)
  BY <1>0, <1>g, <1>7 DEF SwapPool
<1>8. CASE CloseOld(c)
  BY <1>0, <1>g, <1>8 DEF CloseOld, serving, request
<1> QED BY <1>1, <1>2, <1>3, <1>4, <1>5, <1>6, <1>7, <1>8 DEF ConfigureStep

(* Every step of a save but RefreshBuild: *)
LEMMA SaveQuiet ==
  ASSUME TypeOK, NEW s \in Saves, SaveCall(s) \/ SaveStep(s), ~RefreshBuild(s)
  PROVE  /\ UNCHANGED <<live, built>>
         /\ \A q \in Procs \ {s} : wrote'[q] = wrote[q] /\ local'[q] = local[q]
         /\ \A t \in Saves \ {s} : via'[t] = via[t]
         /\ via'[s] = via[s] \/ (via'[s] = live /\ pc'[s] # "reconfigure")
         /\ local'[s] = local[s] \/ (local'[s] = row /\ row' = row)
         /\ pc'[s] = "rebuild" => local'[s] = row /\ row' = row
         /\ pc'[s] \in Unbuilt => pc[s] \in Unbuilt
         /\ \A h \in Handlers :
              client'[h] # client[h] => pc[s] = "reconfigure" /\ via[s] = h
         /\ \/ /\ Writes(s) /\ pc'[s] \in Owes \ {"rebuild"} /\ UNCHANGED <<client, via>>
            \/ /\ row' = row /\ wrote' = wrote
               /\ pc[s] \in Owes => pc'[s] \in Owes
               /\ pc'[s] # "reconfigure"
<1> USE DEF Procs, Unbuilt, Starting, SaveSteps, Owes, Writes
<1>0. /\ s \in Procs /\ pc \in [Procs -> {"idle"} \cup InFlight \cup Ends]
      /\ local \in [Procs -> Versioned] /\ wrote \in [Procs -> Nat]
      /\ via \in [Saves -> Handlers] /\ client \in [Handlers -> Targets \cup {NoClient}]
  BY DEF TypeOK
<1>g. ASSUME NEW from, NEW to, Goto(s, from, to)
      PROVE  pc[s] = from /\ pc'[s] = to
  BY <1>g, GotoMoves
<1>1. CASE SaveCall(s)
  BY <1>0, <1>g, <1>1 DEF SaveCall, serving
<1>2. CASE SaveRead(s)
  BY <1>0, <1>g, <1>2 DEF SaveRead, GetAppConfig, serving, request
<1>3. CASE SaveWrite(s)
  BY <1>0, <1>g, <1>3 DEF SaveWrite, UpdateAppConfig, serving, request
<1>4. CASE SaveReconfigure(s)
  BY <1>0, <1>g, <1>4 DEF SaveReconfigure, request
<1>5. CASE RefreshLock(s)
  BY <1>0, <1>g, <1>5 DEF RefreshLock, Acquire, request
<1>6. CASE RefreshRead(s)
  BY <1>0, <1>g, <1>6 DEF RefreshRead, GetAppConfig, request
<1> QED BY <1>1, <1>2, <1>3, <1>4, <1>5, <1>6 DEF SaveStep

(* Who owes a row goes on owing it, whatever another process does but write. *)
LEMMA OwingKept ==
  ASSUME NEW p \in Procs, Owing(p), row' = row, wrote'[p] = wrote[p],
         pc'[p] = pc[p] \/ (p \in Saves /\ pc'[p] \in Owes) \/ (p \notin Saves /\ pc'[p] \in Imports)
  PROVE  Owing(p)'
  BY DEF Owing, Owes, Imports

LEMMA FreshConfigure ==
  ASSUME TypeOK, TypeOK', FreshInv, HostCalls = "boot" => BootInv,
         NEW c \in Configures, ConfigureCall(c) \/ ConfigureStep(c), ~Publish(c)
  PROVE  FreshInv'
<1> USE ConfigAssumption DEF Procs, Handlers
<1>1. /\ UNCHANGED <<live, built, client, via>>
      /\ \A q \in Procs \ {c} : wrote'[q] = wrote[q] /\ local'[q] = local[q]
      /\ local'[c] = local[c] \/ (local'[c] = row /\ row' = row)
      /\ pc'[c] \in Unbuilt => pc[c] \in Unbuilt
      /\ \/ Writes(c) /\ pc[c] = "importWrite" /\ pc'[c] \in Imports
         \/ row' = row /\ wrote' = wrote /\ (pc[c] \in Imports => pc'[c] \in Imports)
  BY ConfigureQuiet
<1>2. \A q \in Procs \ {c} : pc'[q] = pc[q]
  BY ConfigureMoves
<1>3. c \notin Saves /\ c \in Procs /\ \A s \in Saves : s \in Procs \ {c}
  OBVIOUS
<1>4. /\ row.ver \in Nat /\ row'.ver \in Nat /\ row'.ver >= row.ver
      /\ \A q \in Procs : local[q].ver \in Nat /\ local'[q].ver \in Nat
      /\ \A h \in Handlers : built[h].conf.ver \in Nat
      /\ \A q \in Procs : wrote[q] \in Nat
  BY <1>1 DEF TypeOK, Versioned, Writes
<1>5. NothingAhead'
  BY <1>1, <1>4 DEF FreshInv, NothingAhead
<1>6. BuiltOnce'
  BY <1>1, <1>2, ZenonT(40) DEF FreshInv, BuiltOnce, TypeOK
<1>7. ReconfiguresOlder'
  BY <1>1, <1>2, <1>3, <1>4 DEF FreshInv, ReconfiguresOlder, LiveConf
<1>8. CASE Writes(c) /\ pc[c] = "importWrite" /\ pc'[c] \in Imports
  <2>1. CASE HostCalls = "boot"
    <3>1. live = Boot /\ \A s \in Saves : pc[s] \notin InFlight
      BY <1>8, <2>1 DEF BootInv, StartsAlone, NoSaveAtBoot, Starting
    <3> QED BY <1>1, <1>2, <1>3, <1>5, <1>6, <1>7, <3>1
      DEF FreshInv, ServedIsOwed, RefreshIsOwed, InFlight, SaveSteps
  <2>2. CASE HostCalls # "boot"
    <3>1. Owing(c)'
      BY <1>8, <2>2 DEF Owing, Writes, Imports
    <3> QED BY <1>3, <1>5, <1>6, <1>7, <3>1 DEF FreshInv, ServedIsOwed, RefreshIsOwed
  <2> QED BY <2>1, <2>2
<1>9. CASE row' = row /\ wrote' = wrote /\ (pc[c] \in Imports => pc'[c] \in Imports)
  <2>1. \A p \in Procs : Owing(p) => Owing(p)'
    BY <1>2, <1>3, <1>9, OwingKept DEF Owing, Imports
  <2>2. ServedIsOwed'
    BY <1>1, <1>9, <2>1 DEF FreshInv, ServedIsOwed, Fresh, LiveConf
  <2>3. RefreshIsOwed'
    BY <1>1, <1>2, <1>3, <1>9, <2>1 DEF FreshInv, RefreshIsOwed
  <2> QED BY <1>5, <1>6, <1>7, <2>2, <2>3 DEF FreshInv
<1> QED BY <1>1, <1>8, <1>9

LEMMA FreshSave ==
  ASSUME TypeOK, TypeOK', FreshInv,
         NEW s \in Saves, SaveCall(s) \/ SaveStep(s), ~RefreshBuild(s)
  PROVE  FreshInv'
<1> USE ConfigAssumption DEF Procs, Handlers
<1>1. /\ UNCHANGED <<live, built>>
      /\ \A q \in Procs \ {s} : wrote'[q] = wrote[q] /\ local'[q] = local[q]
      /\ \A t \in Saves \ {s} : via'[t] = via[t]
      /\ via'[s] = via[s] \/ (via'[s] = live /\ pc'[s] # "reconfigure")
      /\ local'[s] = local[s] \/ (local'[s] = row /\ row' = row)
      /\ pc'[s] = "rebuild" => local'[s] = row /\ row' = row
      /\ pc'[s] \in Unbuilt => pc[s] \in Unbuilt
      /\ \A h \in Handlers : client'[h] # client[h] => pc[s] = "reconfigure" /\ via[s] = h
      /\ \/ /\ Writes(s) /\ pc'[s] \in Owes \ {"rebuild"} /\ UNCHANGED <<client, via>>
         \/ /\ row' = row /\ wrote' = wrote
            /\ pc[s] \in Owes => pc'[s] \in Owes
            /\ pc'[s] # "reconfigure"
  BY SaveQuiet
<1>2. \A q \in Procs \ {s} : pc'[q] = pc[q]
  BY SaveMoves
<1>3. /\ row.ver \in Nat /\ row'.ver \in Nat /\ row'.ver >= row.ver
      /\ \A q \in Procs : local[q].ver \in Nat /\ local'[q].ver \in Nat
      /\ \A h \in Handlers : built[h].conf.ver \in Nat
      /\ \A q \in Procs : wrote[q] \in Nat
      /\ live \in Handlers
  BY <1>1 DEF TypeOK, Versioned, Writes
<1>4. NothingAhead'
  BY <1>1, <1>3 DEF FreshInv, NothingAhead
<1>5. BuiltOnce'
  <2>1. \A q \in Procs : pc'[q] \in Unbuilt => pc[q] \in Unbuilt
    BY <1>1, <1>2
  <2>2. live' # Boot => pc'[live'] \notin Unbuilt
    BY <1>1, <1>3, <2>1 DEF FreshInv, BuiltOnce
  <2>3. \A t \in Saves : via[t] \in Handlers
    BY DEF TypeOK
  <2>4. ASSUME NEW t \in Saves, via'[t] # Boot
        PROVE  pc'[via'[t]] \notin Unbuilt
    <3>1. via'[t] = via[t] \/ via'[t] = live
      BY <1>1
    <3> QED BY <1>1, <2>1, <2>2, <2>3, <2>4, <3>1 DEF FreshInv, BuiltOnce
  <2> QED BY <2>2, <2>4 DEF BuiltOnce
<1>6. ReconfiguresOlder'
  <2> SUFFICES ASSUME NEW t \in Saves, pc'[t] = "reconfigure"
               PROVE  wrote'[t] <= row'.ver /\ (via'[t] = live' => LiveConf'.ver < wrote'[t])
    BY DEF ReconfiguresOlder
  <2>1. CASE t = s
    <3>1. Writes(s)
      BY <1>1, <2>1
    <3>2. LiveConf' = LiveConf /\ LiveConf.ver <= row.ver /\ LiveConf.ver \in Nat
      BY <1>1, <1>3 DEF LiveConf, FreshInv, NothingAhead
    <3> QED BY <1>3, <2>1, <3>1, <3>2 DEF Writes
  <2>2. CASE t # s
    BY <1>1, <1>2, <1>3, <2>2 DEF FreshInv, ReconfiguresOlder, LiveConf
  <2> QED BY <2>1, <2>2
<1>7. CASE Writes(s) /\ pc'[s] \in Owes \ {"rebuild"} /\ UNCHANGED <<client, via>>
  <2>1. Owing(s)'
    BY <1>7 DEF Owing, Writes, Owes
  <2> QED BY <1>4, <1>5, <1>6, <1>7, <2>1 DEF FreshInv, ServedIsOwed, RefreshIsOwed
<1>8. CASE row' = row /\ wrote' = wrote /\ (pc[s] \in Owes => pc'[s] \in Owes)
  <2>1. \A p \in Procs : Owing(p) => Owing(p)'
    BY <1>2, <1>8, OwingKept DEF Owing, Owes
  <2>2. Fresh => Fresh'
    <3> SUFFICES ASSUME Fresh PROVE client'[live] = client[live]
      BY <1>1, <1>8 DEF Fresh, LiveConf
    <3> SUFFICES ASSUME client'[live] # client[live] PROVE FALSE
      OBVIOUS
    <3>1. LiveConf.ver < wrote[s] /\ wrote[s] <= row.ver
      BY <1>1, <1>3 DEF FreshInv, ReconfiguresOlder
    <3>2. LiveConf.ver = row.ver
      BY DEF Fresh
    <3> QED BY <1>3, <3>1, <3>2
  <2>3. ServedIsOwed'
    BY <1>1, <2>1, <2>2 DEF FreshInv, ServedIsOwed
  <2>4. RefreshIsOwed'
    BY <1>1, <1>2, <1>8, <2>1 DEF FreshInv, RefreshIsOwed
  <2> QED BY <1>4, <1>5, <1>6, <2>3, <2>4 DEF FreshInv
<1> QED BY <1>1, <1>7, <1>8

(* The two swaps of the handler *)
LEMMA FreshPublish ==
  ASSUME TypeOK, LockHeld, FreshInv, HostCalls = "boot" => BootInv,
         NEW c \in Configures, Publish(c)
  PROVE  FreshInv'
<1> USE ConfigAssumption DEF Procs, Handlers
<1>1. pc[c] = "publish" /\ pc'[c] = "swap" /\ \A q \in Procs \ {c} : pc'[q] = pc[q]
  BY GotoMoves DEF Publish
<1>2. /\ UNCHANGED <<row, wrote, local, via>> /\ live' = c
      /\ built' = [built EXCEPT ![c] = [store |-> c, conf |-> local[c]]]
      /\ client' = [client EXCEPT ![c] = NewClient(local[c].cfg)]
  BY DEF Publish, Rebuild, request
<1>3. /\ built'[c].conf = local[c] /\ client'[c] = NewClient(local[c].cfg)
      /\ \A h \in Handlers \ {c} : built'[h] = built[h]
  BY <1>2 DEF TypeOK
<1>4. NothingAhead'
  BY <1>2, <1>3 DEF FreshInv, NothingAhead
<1>5. BuiltOnce'
  BY <1>1, <1>2 DEF FreshInv, BuiltOnce, TypeOK, Unbuilt, Starting, SaveSteps
<1>6. \A s \in Saves : s # c /\ via[s] # c
  BY <1>1 DEF FreshInv, BuiltOnce, Unbuilt, Starting
<1>7. ReconfiguresOlder'
  BY <1>1, <1>2, <1>6 DEF FreshInv, ReconfiguresOlder
<1>8. ServedIsOwed'
  <2> SUFFICES ASSUME HostCalls = "boot" PROVE Fresh'
    BY <1>2, <1>6 DEF ServedIsOwed
  <2>1. local[c] = row
    BY <1>1 DEF BootInv, ImportIsCurrent
  <2> QED BY <1>2, <1>3, <2>1 DEF Fresh, LiveConf
<1>9. \A s \in Saves : pc'[s] # "rebuild"
  BY <1>1, <1>6 DEF LockHeld, UnderLock
<1> QED BY <1>4, <1>5, <1>7, <1>8, <1>9 DEF FreshInv, RefreshIsOwed

LEMMA FreshBuild ==
  ASSUME TypeOK, LockHeld, FreshInv, NEW s \in Saves, RefreshBuild(s)
  PROVE  FreshInv'
<1> USE ConfigAssumption DEF Procs, Handlers
<1>1. pc[s] = "rebuild" /\ pc'[s] = "done" /\ \A q \in Procs \ {s} : pc'[q] = pc[q]
  BY GotoMoves DEF RefreshBuild
<1>2. /\ UNCHANGED <<row, wrote, local, via>> /\ live' = s
      /\ built' = [built EXCEPT ![s] = [store |-> storePtr, conf |-> local[s]]]
      /\ client' = [client EXCEPT ![s] = NewClient(local[s].cfg)]
  BY DEF RefreshBuild, Rebuild, request
<1>3. /\ built'[s].conf = local[s] /\ client'[s] = NewClient(local[s].cfg)
      /\ \A h \in Handlers \ {s} : built'[h] = built[h]
  BY <1>2 DEF TypeOK
<1>4. NothingAhead'
  BY <1>2, <1>3 DEF FreshInv, NothingAhead
<1>5. BuiltOnce'
  BY <1>1, <1>2 DEF FreshInv, BuiltOnce, TypeOK, Unbuilt, Starting, SaveSteps
<1>6. \A t \in Saves : via[t] # s
  BY <1>1 DEF FreshInv, BuiltOnce, Unbuilt, SaveSteps
<1>7. ReconfiguresOlder'
  BY <1>1, <1>2, <1>6 DEF FreshInv, ReconfiguresOlder
<1>8. Fresh' \/ \E p \in Procs : Owing(p)'
  <2>1. CASE local[s] = row
    BY <1>2, <1>3, <2>1 DEF Fresh, LiveConf
  <2>2. CASE \E p \in Procs \ {s} : Owing(p)
    BY <1>1, <1>2, <2>2 DEF Owing
  <2> QED BY <1>1, <2>1, <2>2 DEF FreshInv, RefreshIsOwed
<1>9. \A t \in Saves : pc'[t] # "rebuild"
  BY <1>1 DEF LockHeld, UnderLock
<1> QED BY <1>4, <1>5, <1>7, <1>8, <1>9 DEF FreshInv, ServedIsOwed, RefreshIsOwed

LEMMA FreshCrash ==
  ASSUME TypeOK, FreshInv, Crash
  PROVE  FreshInv'
<1> USE ConfigAssumption DEF Procs, Handlers
<1>1. /\ \A p \in Procs : pc'[p] = IF pc[p] \in InFlight THEN "dead" ELSE pc[p]
      /\ live' = Boot /\ built' = [h \in Handlers |-> [store |-> None, conf |-> FirstRow]]
      /\ UNCHANGED <<row, local, wrote, via>>
  BY DEF Crash, request
<1>2. \A p \in Procs : /\ pc'[p] \in Unbuilt => pc[p] \in Unbuilt
                       /\ pc'[p] \notin InFlight
  BY <1>1 DEF Unbuilt, Starting, InFlight, ConfigureSteps, SaveSteps
<1>3. NothingAhead'
  BY <1>1 DEF FreshInv, NothingAhead, FirstRow, TypeOK, Versioned
<1>4. BuiltOnce'
  BY <1>1, <1>2 DEF FreshInv, BuiltOnce, TypeOK
<1> QED BY <1>1, <1>2, <1>3, <1>4
  DEF FreshInv, ReconfiguresOlder, ServedIsOwed, RefreshIsOwed, InFlight, SaveSteps

LEMMA FreshNext ==
  ASSUME TypeOK, TypeOK', LockHeld, FreshInv, HostCalls = "boot" => BootInv, [Next]_vars
  PROVE  FreshInv'
<1>1. CASE \E c \in Configures : ConfigureCall(c) \/ ConfigureStep(c)
  BY <1>1, FreshConfigure, FreshPublish
<1>2. CASE \E s \in Saves : SaveCall(s) \/ SaveStep(s)
  BY <1>2, FreshSave, FreshBuild
<1>3. CASE Crash
  BY <1>3, FreshCrash
<1>4. CASE UNCHANGED vars
  BY <1>4
  DEF vars, FreshInv, NothingAhead, BuiltOnce, ReconfiguresOlder, ServedIsOwed, RefreshIsOwed,
      Owing, Fresh, LiveConf
<1> QED BY <1>1, <1>2, <1>3, <1>4 DEF Next

LEMMA FreshInit == Init => FreshInv
<1> SUFFICES ASSUME Init PROVE FreshInv
  OBVIOUS
<1>1. /\ \A p \in Procs : pc[p] = "idle" /\ local[p] = FirstRow
      /\ \A h \in Handlers : built[h].conf = FirstRow
      /\ \A s \in Saves : via[s] = Boot
      /\ live = Boot /\ row = FirstRow
  BY DEF Init
<1>2. FirstRow.ver = 0
  BY DEF FirstRow
<1> QED BY <1>1, <1>2, ConfigAssumption
  DEF FreshInv, NothingAhead, BuiltOnce, ReconfiguresOlder, ServedIsOwed, RefreshIsOwed, Procs

LEMMA FreshSpec == Spec => []FreshInv
<1>1. Spec => [](HostCalls = "boot" => BootInv)
  <2>1. CASE HostCalls = "boot"
    BY <2>1, BootSpec, PTL
  <2>2. CASE HostCalls # "boot"
    <3>1. HostCalls = "boot" => BootInv
      BY <2>2
    <3> QED BY <3>1, PTL
  <2> QED BY <2>1, <2>2
<1>2. TypeOK /\ TypeOK' /\ LockHeld /\ FreshInv /\ (HostCalls = "boot" => BootInv)
        /\ [Next]_vars => FreshInv'
  BY FreshNext
<1> QED BY <1>1, <1>2, FreshInit, LockSpec, TypeCorrect, PTL DEF Spec

(* However the host's calls overlap with saves and with each other: a live      *)
(* handler that a save's refresh built serves the persisted row with a client   *)
(* that points where the row says, unless the call that wrote the row reported  *)
(* an error (main.go:103-115, server.go:102-122).                               *)
THEOREM SavesServeTheStoredRow == Spec => []SavesServeTheRow
<1>1. FreshInv => SavesServeTheRow
  BY DEF FreshInv, ServedIsOwed, SavesServeTheRow, Quiescent, Fresh, Owing, InFlight,
    ConfigureSteps, SaveSteps
<1> QED BY <1>1, FreshSpec, PTL

(* And for a host that calls Configure only while nothing is served, every live *)
(* handler does, or an admin was told that the save failed.                     *)
THEOREM LiveConfigPersisted ==
  ASSUME HostCalls = "boot"
  PROVE  Spec => []LiveConfigIsPersisted
<1>1. FreshInv => LiveConfigIsPersisted
  BY DEF FreshInv, ServedIsOwed, LiveConfigIsPersisted, Quiescent, Fresh, Owing, InFlight,
    ConfigureSteps, SaveSteps
<1> QED BY <1>1, FreshSpec, PTL

----
(* The refinement of LiveConfig                                                 *)

(* What a refresh is about to serve is no older than what is served. *)
RefreshNotOlder ==
  \A s \in Saves : pc[s] = "rebuild" => LiveConf.ver <= local[s].ver

LEMMA NotOlderNext ==
  ASSUME TypeOK, LockHeld, FreshInv, RefreshNotOlder, [Next]_vars
  PROVE  RefreshNotOlder'
<1> USE ConfigAssumption DEF Procs, Handlers
<1>1. ASSUME NEW c \in Configures, ConfigureCall(c) \/ ConfigureStep(c)
      PROVE  RefreshNotOlder'
  <2>1. \A s \in Saves : s # c /\ pc'[s] = pc[s]
    BY <1>1, ConfigureMoves
  <2>2. CASE Publish(c)
    <3>1. pc[c] = "publish"
      BY <2>2 DEF Publish, Goto
    <3> QED BY <2>1, <3>1 DEF RefreshNotOlder, LockHeld, UnderLock
  <2>3. CASE ~Publish(c)
    BY <1>1, <2>1, <2>3, ConfigureQuiet DEF RefreshNotOlder, LiveConf
  <2> QED BY <2>2, <2>3
<1>2. ASSUME NEW s \in Saves, SaveCall(s) \/ SaveStep(s)
      PROVE  RefreshNotOlder'
  <2>1. \A q \in Procs \ {s} : pc'[q] = pc[q]
    BY <1>2, SaveMoves
  <2>2. CASE RefreshBuild(s)
    <3>1. pc[s] = "rebuild" /\ pc'[s] = "done"
      BY <2>2, GotoMoves DEF RefreshBuild
    <3> QED BY <2>1, <3>1 DEF RefreshNotOlder, LockHeld, UnderLock
  <2>3. CASE ~RefreshBuild(s)
    <3>1. /\ UNCHANGED <<live, built>>
          /\ \A q \in Procs \ {s} : local'[q] = local[q]
          /\ pc'[s] = "rebuild" => local'[s] = row
      BY <1>2, <2>3, SaveQuiet
    <3>2. LiveConf' = LiveConf /\ LiveConf.ver <= row.ver
      BY <3>1 DEF LiveConf, FreshInv, NothingAhead, TypeOK
    <3> QED BY <2>1, <3>1, <3>2 DEF RefreshNotOlder
  <2> QED BY <2>2, <2>3
<1>3. CASE Crash
  BY <1>3 DEF Crash, RefreshNotOlder, InFlight, SaveSteps
<1>4. CASE UNCHANGED vars
  BY <1>4 DEF vars, RefreshNotOlder, LiveConf
<1> QED BY <1>1, <1>2, <1>3, <1>4 DEF Next

(* The mapping of PluginConfig's state to LiveConfig's *)
Served == IF live = Boot THEN None ELSE LiveConf.ver
Acked == {wrote[s] : s \in {x \in Saves : pc[x] = "done"}}

LEMMA PromiseVars ==
  ASSUME row'.ver = row.ver, Served' = Served, Acked' = Acked
  PROVE  UNCHANGED LC!vars
  BY DEF LC!vars, Served, Acked

LEMMA AckedKept ==
  ASSUME \A s \in Saves : (pc'[s] = "done" <=> pc[s] = "done") /\ (pc[s] = "done" => wrote'[s] = wrote[s])
  PROVE  Acked' = Acked
  BY DEF Acked

(* A write of the row is the abstract Store; any other step that swaps no       *)
(* handler is a stutter.                                                        *)
LEMMA PromiseQuiet ==
  ASSUME row'.ver = row.ver + 1 \/ row' = row, UNCHANGED <<live, built>>, Acked' = Acked
  PROVE  [LC!Next]_(LC!vars)
<1>1. Served' = Served
  BY DEF Served, LiveConf
<1>2. CASE row' = row
  BY <1>1, <1>2, PromiseVars
<1>3. CASE row'.ver = row.ver + 1
  <2>1. LC!Store
    BY <1>1, <1>3 DEF LC!Store, Served, Acked
  <2> QED BY <2>1 DEF LC!Next
<1> QED BY <1>2, <1>3

(* Publish serves the row, which is as new as every save that was acknowledged. *)
LEMMA PromisePublish ==
  ASSUME TypeOK, BootInv, NEW c \in Configures, Publish(c)
  PROVE  [LC!Next]_(LC!vars)
<1> USE ConfigAssumption DEF Procs, Handlers
<1>1. pc[c] = "publish" /\ pc'[c] = "swap" /\ \A q \in Procs \ {c} : pc'[q] = pc[q]
  BY GotoMoves DEF Publish
<1>2. /\ UNCHANGED <<row, wrote>> /\ live' = c
      /\ built'[c].conf = local[c]
  BY DEF Publish, Rebuild, TypeOK
<1>3. live = Boot /\ local[c] = row
  BY <1>1 DEF BootInv, StartsAlone, ImportIsCurrent, Starting
<1>4. Served = None /\ Served' = row.ver
  BY <1>2, <1>3 DEF Served, LiveConf
<1>5. Acked' = Acked
  BY <1>1, <1>2, AckedKept
<1>6. PICK v \in 0..row.ver : v = row.ver /\ v \in Nat
  BY DEF TypeOK, Versioned
<1>7. \A a \in Acked : v >= a
  BY <1>6 DEF Acked, BootInv, NothingNewer, TypeOK
<1>8. LC!Serve(v)
  BY <1>2, <1>4, <1>5, <1>6, <1>7 DEF LC!Serve, Served, Acked
<1> QED BY <1>6, <1>8 DEF LC!Next

(* RefreshBuild serves what it read and acknowledges its save. *)
LEMMA PromiseBuild ==
  ASSUME TypeOK, BootInv, FreshInv, RefreshNotOlder, NEW s \in Saves, RefreshBuild(s)
  PROVE  [LC!Next]_(LC!vars)
<1> USE ConfigAssumption DEF Procs, Handlers
<1>1. pc[s] = "rebuild" /\ pc'[s] = "done" /\ \A q \in Procs \ {s} : pc'[q] = pc[q]
  BY GotoMoves DEF RefreshBuild
<1>2. /\ UNCHANGED <<row, wrote>> /\ live' = s
      /\ built'[s].conf = local[s]
  BY DEF RefreshBuild, Rebuild, TypeOK
<1>3. PICK v \in 0..row.ver : v = local[s].ver /\ v \in Nat /\ row.ver \in Nat
  BY DEF TypeOK, Versioned, FreshInv, NothingAhead
<1>4. /\ live # Boot /\ LiveConf.ver <= v
      /\ wrote[s] \in 0..v
      /\ \A t \in Saves : pc[t] = "done" => wrote[t] <= v
  <2>1. live # Boot
    BY <1>1 DEF BootInv, NoSaveAtBoot, InFlight, SaveSteps
  <2>2. LiveConf.ver <= v
    BY <1>1, <1>3 DEF RefreshNotOlder
  <2>3. \A t \in Saves : t = s \/ pc[t] = "done" => wrote[t] <= v
    BY <1>1, <1>3 DEF BootInv, RefreshIsCurrent
  <2>4. wrote[s] \in Nat
    BY DEF TypeOK
  <2> QED BY <1>3, <2>1, <2>2, <2>3, <2>4
<1>5. Served = LiveConf.ver /\ Served' = v /\ LiveConf.ver \in Nat
  BY <1>2, <1>3, <1>4 DEF Served, LiveConf, TypeOK, Versioned
<1>6. Acked' = Acked \cup {wrote[s]}
  BY <1>1, <1>2 DEF Acked
<1>7. \A a \in Acked : v >= a
  BY <1>3, <1>4 DEF Acked, TypeOK
<1>8. LC!Serve(v)
  BY <1>2, <1>3, <1>4, <1>5, <1>6, <1>7 DEF LC!Serve, Served, Acked
<1> QED BY <1>3, <1>8 DEF LC!Next

LEMMA PromiseNext ==
  ASSUME TypeOK, BootInv, FreshInv, RefreshNotOlder, [Next]_vars
  PROVE  [LC!Next]_(LC!vars)
<1> USE ConfigAssumption DEF Procs, Handlers
<1>1. ASSUME NEW c \in Configures, ConfigureCall(c) \/ ConfigureStep(c), ~Publish(c)
      PROVE  [LC!Next]_(LC!vars)
  <2>1. \A s \in Saves : s # c /\ pc'[s] = pc[s]
    BY <1>1, ConfigureMoves
  <2>2. Acked' = Acked
    BY <1>1, <2>1, ConfigureQuiet, AckedKept
  <2>3. UNCHANGED <<live, built>> /\ (row'.ver = row.ver + 1 \/ row' = row)
    BY <1>1, ConfigureQuiet DEF Writes
  <2> QED BY <2>2, <2>3, PromiseQuiet
<1>2. ASSUME NEW s \in Saves, SaveCall(s) \/ SaveStep(s), ~RefreshBuild(s)
      PROVE  [LC!Next]_(LC!vars)
  <2>1. PICK from, to : Goto(s, from, to) /\ from # "done" /\ to # "done"
    BY <1>2 DEF SaveCall, SaveStep, SaveRead, SaveWrite, SaveReconfigure, RefreshLock, Acquire,
      RefreshRead
  <2>2. pc[s] = from /\ pc'[s] = to /\ \A q \in Procs \ {s} : pc'[q] = pc[q]
    BY <2>1, GotoMoves
  <2>3. Acked' = Acked
    BY <1>2, <2>1, <2>2, SaveQuiet, AckedKept
  <2>4. UNCHANGED <<live, built>> /\ (row'.ver = row.ver + 1 \/ row' = row)
    BY <1>2, SaveQuiet DEF Writes
  <2> QED BY <2>3, <2>4, PromiseQuiet
<1>3. CASE Crash
  <2>1. \A s \in Saves : pc'[s] = "done" <=> pc[s] = "done"
    BY <1>3 DEF Crash, InFlight, ConfigureSteps, SaveSteps
  <2>2. Acked' = Acked
    BY <1>3, <2>1, AckedKept DEF Crash
  <2>3. row' = row /\ Served' = None
    BY <1>3 DEF Crash, Served
  <2>4. LC!Restart
    BY <2>2, <2>3 DEF LC!Restart, Served, Acked
  <2> QED BY <2>4 DEF LC!Next
<1>4. CASE UNCHANGED vars
  <2>1. Acked' = Acked
    BY <1>4, AckedKept DEF vars
  <2> QED BY <1>4, <2>1, PromiseQuiet DEF vars
<1> QED BY <1>1, <1>2, <1>3, <1>4, PromisePublish, PromiseBuild DEF Next

(* PluginConfig implements LiveConfig: what is served only moves to newer rows  *)
(* until the process dies, and an acknowledged save, or a newer one, is what is *)
(* served from then on, for a host that calls Configure only while nothing is.  *)
THEOREM PluginKeepsPromise ==
  ASSUME HostCalls = "boot"
  PROVE  Spec => KeepsPromise
<1>1. Init => LC!Init
  BY DEF Init, LC!Init, FirstRow, Procs
<1>2. Init => RefreshNotOlder
  BY DEF Init, RefreshNotOlder, Procs
<1>3. TypeOK /\ LockHeld /\ FreshInv /\ RefreshNotOlder /\ [Next]_vars => RefreshNotOlder'
  BY NotOlderNext
<1>4. TypeOK /\ BootInv /\ FreshInv /\ RefreshNotOlder /\ [Next]_vars => [LC!Next]_(LC!vars)
  BY PromiseNext
<1> QED BY <1>1, <1>2, <1>3, <1>4, TypeCorrect, LockSpec, BootSpec, FreshSpec, PTL
        DEF Spec, KeepsPromise, LC!Spec
====
