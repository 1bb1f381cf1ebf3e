---- MODULE PluginConfig_proofs ----
(* Theorems about PluginConfig, for any number of Configure calls and saves,    *)
(* any configurations, any number of faults and crashes: rebuilds, saves, and   *)
(* the stores and pools, of which what is opened is closed and what is used is  *)
(* open.                                                                        *)
EXTENDS PluginConfig, TLAPS

----
(* Values                                                                       *)

(* A version of the row is one whatever step read or wrote it. *)
LEMMA FirstRowType == FirstRow \in Versioned
  BY ConfigAssumption DEF FirstRow, Versioned

(* The client of a handler points at a url and a key of its configuration. *)
LEMMA NewClientType ==
  ASSUME NEW c \in Configs
  PROVE  NewClient(c) \in Targets \cup {NoClient}
  BY DEF NewClient, Targets, Configs

(* What a save writes, and what an import writes, is a configuration. *)
LEMMA MergedType ==
  ASSUME TypeOK, NEW s \in Saves
  PROVE  Merged(s) \in Configs
<1>1. body[s] \in Configs /\ local[s].cfg \in Configs
  BY DEF TypeOK, Procs, Versioned
<1> QED BY <1>1 DEF Merged, Configs

LEMMA LegacyType ==
  ASSUME TypeOK, NEW c \in Configures
  PROVE  Legacy(c) \in Configs
<1>1. body[c] \in Configs
  BY DEF TypeOK, Procs
<1>2. DefaultUrl \in Urls
  BY ConfigAssumption DEF DefaultAppConfig, Configs
<1> QED BY <1>1, <1>2 DEF Legacy, Configs

----
(* Type correctness                                                             *)

LEMMA TypeInit == Init => TypeOK
<1> SUFFICES ASSUME Init PROVE TypeOK
  OBVIOUS
<1> USE ConfigAssumption, FirstRowType
<1>1. row \in Versioned /\ lock \in Procs \cup {None}
  BY DEF Init
<1>2. storePtr \in Configures \cup {None} /\ poolPtr \in Configures \cup {None}
  BY DEF Init
<1>3. pool \in [Configures -> {"none", "open", "closed"}] /\ live \in Handlers
  BY DEF Init, Handlers
<1>4. built \in [Handlers -> [store : Configures \cup {None}, conf : Versioned]]
  BY DEF Init
<1>5. client \in [Handlers -> Targets \cup {NoClient}]
  BY DEF Init
<1>6. pc \in [Procs -> {"idle"} \cup InFlight \cup Ends]
  BY DEF Init
<1>7. body \in [Procs -> Configs] /\ local \in [Procs -> Versioned]
  BY DEF Init
<1>8. via \in [Saves -> Handlers] /\ old \in [Configures -> Configures \cup {None}]
  BY DEF Init, Handlers
<1>9. wrote \in [Procs -> Nat] /\ faults \in Nat /\ crashes \in Nat
  BY DEF Init
<1> QED BY <1>1, <1>2, <1>3, <1>4, <1>5, <1>6, <1>7, <1>8, <1>9 DEF TypeOK

(* The building blocks keep the types of the variables they set. *)
LEMMA GotoType ==
  ASSUME TypeOK, NEW p \in Procs, NEW from,
         NEW to \in {"idle"} \cup InFlight \cup Ends, Goto(p, from, to)
  PROVE  pc' \in [Procs -> {"idle"} \cup InFlight \cup Ends]
  BY DEF Goto, TypeOK

LEMMA ReadType ==
  ASSUME TypeOK, NEW p \in Procs, GetAppConfig(p)
  PROVE  local' \in [Procs -> Versioned]
  BY DEF GetAppConfig, TypeOK

LEMMA UpdateType ==
  ASSUME TypeOK, NEW p \in Procs, NEW c \in Configs, UpdateAppConfig(p, c)
  PROVE  row' \in Versioned /\ wrote' \in [Procs -> Nat]
  BY DEF UpdateAppConfig, TypeOK, Versioned

LEMMA RebuildType ==
  ASSUME TypeOK, NEW p \in Procs, NEW st \in Configures \cup {None},
         NEW v \in Versioned, Rebuild(p, st, v)
  PROVE  /\ built' \in [Handlers -> [store : Configures \cup {None}, conf : Versioned]]
         /\ client' \in [Handlers -> Targets \cup {NoClient}]
         /\ live' \in Handlers
<1>1. v.cfg \in Configs
  BY DEF Versioned
<1>2. NewClient(v.cfg) \in Targets \cup {NoClient}
  BY <1>1, NewClientType
<1> QED BY <1>2 DEF Rebuild, TypeOK, Handlers

LEMMA TypeConfigure ==
  ASSUME TypeOK, NEW c \in Configures, ConfigureCall(c) \/ ConfigureStep(c)
  PROVE  TypeOK'
<1> USE ConfigAssumption
<1>0. c \in Procs /\ c \in Handlers
  BY DEF Procs, Handlers
<1>1. CASE ConfigureCall(c)
  <2>1. pc' \in [Procs -> {"idle"} \cup InFlight \cup Ends]
    BY <1>0, <1>1 DEF ConfigureCall, Goto, TypeOK, InFlight, ConfigureSteps, Ends
  <2>2. body' \in [Procs -> Configs]
    BY <1>0, <1>1 DEF ConfigureCall, TypeOK
  <2> QED BY <1>1, <2>1, <2>2 DEF ConfigureCall, TypeOK, serving
<1>2. CASE OpenPool(c)
  <2>1. pc' \in [Procs -> {"idle"} \cup InFlight \cup Ends]
    BY <1>0, <1>2 DEF OpenPool, CloseAndFail, Goto, TypeOK, InFlight, ConfigureSteps, Ends
  <2>2. pool' \in [Configures -> {"none", "open", "closed"}] /\ faults' \in Nat
    BY <1>2 DEF OpenPool, CloseAndFail, Fault, TypeOK
  <2> QED BY <1>2, <2>1, <2>2 DEF OpenPool, TypeOK, serving, request
<1>3. CASE ImportRead(c)
  <2>1. pc' \in [Procs -> {"idle"} \cup InFlight \cup Ends]
    BY <1>0, <1>3 DEF ImportRead, CloseAndFail, Goto, TypeOK, InFlight, ConfigureSteps, Ends
  <2>2. pool' \in [Configures -> {"none", "open", "closed"}] /\ faults' \in Nat
    BY <1>3 DEF ImportRead, CloseAndFail, Fault, TypeOK
  <2>3. local' \in [Procs -> Versioned]
    BY <1>0, <1>3, ReadType DEF ImportRead, TypeOK
  <2> QED BY <1>3, <2>1, <2>2, <2>3 DEF ImportRead, TypeOK, serving, request
<1>4. CASE ImportWrite(c)
  <2>1. pc' \in [Procs -> {"idle"} \cup InFlight \cup Ends]
    BY <1>0, <1>4 DEF ImportWrite, CloseAndFail, Goto, TypeOK, InFlight, ConfigureSteps, Ends
  <2>2. pool' \in [Configures -> {"none", "open", "closed"}] /\ faults' \in Nat
    BY <1>4 DEF ImportWrite, CloseAndFail, Fault, TypeOK
  <2>3. row' \in Versioned /\ wrote' \in [Procs -> Nat]
    BY <1>0, <1>4, UpdateType, LegacyType DEF ImportWrite, TypeOK
  <2> QED BY <1>4, <2>1, <2>2, <2>3 DEF ImportWrite, TypeOK, serving, request
<1>5. CASE ImportReread(c)
  <2>1. pc' \in [Procs -> {"idle"} \cup InFlight \cup Ends]
    BY <1>0, <1>5 DEF ImportReread, CloseAndFail, Goto, TypeOK, InFlight, ConfigureSteps, Ends
  <2>2. pool' \in [Configures -> {"none", "open", "closed"}] /\ faults' \in Nat
    BY <1>5 DEF ImportReread, CloseAndFail, Fault, TypeOK
  <2>3. local' \in [Procs -> Versioned]
    BY <1>0, <1>5, ReadType DEF ImportReread, TypeOK
  <2> QED BY <1>5, <2>1, <2>2, <2>3 DEF ImportReread, TypeOK, serving, request
<1>6. CASE ConfigureLock(c)
  <2>1. pc' \in [Procs -> {"idle"} \cup InFlight \cup Ends] /\ lock' \in Procs \cup {None}
    BY <1>0, <1>6 DEF ConfigureLock, Acquire, Goto, TypeOK, InFlight, ConfigureSteps, Ends
  <2> QED BY <1>6, <2>1 DEF ConfigureLock, TypeOK, request
<1>7. CASE Publish(c)
  <2>1. pc' \in [Procs -> {"idle"} \cup InFlight \cup Ends]
    BY <1>0, <1>7 DEF Publish, Goto, TypeOK, InFlight, ConfigureSteps, Ends
  <2>2. local[c] \in Versioned
    BY <1>0 DEF TypeOK
  <2>3. /\ built' \in [Handlers -> [store : Configures \cup {None}, conf : Versioned]]
        /\ client' \in [Handlers -> Targets \cup {NoClient}]
        /\ live' \in Handlers
    BY <1>0, <1>7, <2>2, RebuildType DEF Publish
  <2> QED BY <1>7, <2>1, <2>3 DEF Publish, TypeOK, request
<1>8. CASE SwapPool(c)
  <2>1. pc' \in [Procs -> {"idle"} \cup InFlight \cup Ends]
    BY <1>0, <1>8 DEF SwapPool, Goto, TypeOK, InFlight, ConfigureSteps, Ends
  <2>2. poolPtr' \in Configures \cup {None} /\ old' \in [Configures -> Configures \cup {None}]
    BY <1>8 DEF SwapPool, TypeOK
  <2> QED BY <1>8, <2>1, <2>2 DEF SwapPool, TypeOK
<1>9. CASE CloseOld(c)
  <2>1. pc' \in [Procs -> {"idle"} \cup InFlight \cup Ends]
    BY <1>0, <1>9 DEF CloseOld, Goto, TypeOK, InFlight, ConfigureSteps, Ends
  <2>2. pool' \in [Configures -> {"none", "open", "closed"}]
    BY <1>9 DEF CloseOld, TypeOK
  <2> QED BY <1>9, <2>1, <2>2 DEF CloseOld, TypeOK, serving, request
<1> QED BY <1>1, <1>2, <1>3, <1>4, <1>5, <1>6, <1>7, <1>8, <1>9 DEF ConfigureStep

LEMMA TypeSave ==
  ASSUME TypeOK, NEW s \in Saves, SaveCall(s) \/ SaveStep(s)
  PROVE  TypeOK'
<1> USE ConfigAssumption
<1>0. s \in Procs /\ s \in Handlers
  BY DEF Procs, Handlers
<1>1. CASE SaveCall(s)
  <2>1. pc' \in [Procs -> {"idle"} \cup InFlight \cup Ends]
    BY <1>0, <1>1 DEF SaveCall, Goto, TypeOK, InFlight, SaveSteps, Ends
  <2>2. body' \in [Procs -> Configs] /\ via' \in [Saves -> Handlers]
    BY <1>0, <1>1 DEF SaveCall, TypeOK
  <2> QED BY <1>1, <2>1, <2>2 DEF SaveCall, TypeOK, serving
<1>2. CASE SaveRead(s)
  <2>1. pc' \in [Procs -> {"idle"} \cup InFlight \cup Ends]
    BY <1>0, <1>2 DEF SaveRead, Goto, TypeOK, InFlight, SaveSteps, Ends
  <2>2. local' \in [Procs -> Versioned] /\ faults' \in Nat
    BY <1>0, <1>2, ReadType DEF SaveRead, Fault, TypeOK
  <2> QED BY <1>2, <2>1, <2>2 DEF SaveRead, TypeOK, serving, request
<1>3. CASE SaveWrite(s)
  <2>1. pc' \in [Procs -> {"idle"} \cup InFlight \cup Ends]
    BY <1>0, <1>3 DEF SaveWrite, Goto, TypeOK, InFlight, SaveSteps, Ends
  <2>2. row' \in Versioned /\ wrote' \in [Procs -> Nat] /\ faults' \in Nat
    BY <1>0, <1>3, UpdateType, MergedType DEF SaveWrite, Fault, TypeOK
  <2> QED BY <1>3, <2>1, <2>2 DEF SaveWrite, TypeOK, serving, request
<1>4. CASE SaveReconfigure(s)
  <2>1. pc' \in [Procs -> {"idle"} \cup InFlight \cup Ends]
    BY <1>0, <1>4 DEF SaveReconfigure, Goto, TypeOK, InFlight, SaveSteps, Ends
  <2>2. [url |-> Merged(s).url, key |-> Merged(s).key] \in Targets
    BY MergedType DEF Targets, Configs
  <2>3. client' \in [Handlers -> Targets \cup {NoClient}]
    BY <1>4, <2>2 DEF SaveReconfigure, TypeOK
  <2> QED BY <1>4, <2>1, <2>3 DEF SaveReconfigure, TypeOK, request
<1>5. CASE RefreshLock(s)
  <2>1. pc' \in [Procs -> {"idle"} \cup InFlight \cup Ends] /\ lock' \in Procs \cup {None}
    BY <1>0, <1>5 DEF RefreshLock, Acquire, Goto, TypeOK, InFlight, SaveSteps, Ends
  <2> QED BY <1>5, <2>1 DEF RefreshLock, TypeOK, request
<1>6. CASE RefreshRead(s)
  <2>1. pc' \in [Procs -> {"idle"} \cup InFlight \cup Ends]
    BY <1>0, <1>6 DEF RefreshRead, Goto, TypeOK, InFlight, SaveSteps, Ends
  <2>2. local' \in [Procs -> Versioned] /\ faults' \in Nat
    BY <1>0, <1>6, ReadType DEF RefreshRead, Fault, TypeOK
  <2>3. lock' \in Procs \cup {None}
    BY <1>6 DEF RefreshRead, TypeOK
  <2> QED BY <1>6, <2>1, <2>2, <2>3 DEF RefreshRead, TypeOK, request
<1>7. CASE RefreshBuild(s)
  <2>1. pc' \in [Procs -> {"idle"} \cup InFlight \cup Ends]
    BY <1>0, <1>7 DEF RefreshBuild, Goto, TypeOK, InFlight, SaveSteps, Ends
  <2>2. local[s] \in Versioned /\ storePtr \in Configures \cup {None}
    BY <1>0 DEF TypeOK
  <2>3. /\ built' \in [Handlers -> [store : Configures \cup {None}, conf : Versioned]]
        /\ client' \in [Handlers -> Targets \cup {NoClient}]
        /\ live' \in Handlers
    BY <1>0, <1>7, <2>2, RebuildType DEF RefreshBuild
  <2> QED BY <1>7, <2>1, <2>3 DEF RefreshBuild, TypeOK, request
<1> QED BY <1>1, <1>2, <1>3, <1>4, <1>5, <1>6, <1>7 DEF SaveStep

LEMMA TypeCrash ==
  ASSUME TypeOK, Crash
  PROVE  TypeOK'
<1> USE ConfigAssumption, FirstRowType
<1>1. pc' \in [Procs -> {"idle"} \cup InFlight \cup Ends]
  BY DEF Crash, TypeOK, Ends
<1>2. pool' \in [Configures -> {"none", "open", "closed"}]
  BY DEF Crash, TypeOK
<1>3. /\ built' \in [Handlers -> [store : Configures \cup {None}, conf : Versioned]]
      /\ client' \in [Handlers -> Targets \cup {NoClient}]
      /\ live' \in Handlers
  BY DEF Crash, Handlers
<1> QED BY <1>1, <1>2, <1>3 DEF Crash, TypeOK, request

(* Every variable keeps its type: in particular no nil store or pool is ever    *)
(* captured under a type that its readers do not expect.                        *)
THEOREM TypeCorrect == Spec => []TypeOK
<1>1. Init => TypeOK
  BY TypeInit
<1>2. TypeOK /\ [Next]_vars => TypeOK'
  <2> SUFFICES ASSUME TypeOK, [Next]_vars PROVE TypeOK'
    OBVIOUS
  <2>1. CASE \E c \in Configures : ConfigureCall(c) \/ ConfigureStep(c)
    BY <2>1, TypeConfigure
  <2>2. CASE \E s \in Saves : SaveCall(s) \/ SaveStep(s)
    BY <2>2, TypeSave
  <2>3. CASE Crash
    BY <2>3, TypeCrash
  <2>4. CASE UNCHANGED vars
    BY <2>4 DEF vars, TypeOK
  <2> QED BY <2>1, <2>2, <2>3, <2>4 DEF Next
<1> QED BY <1>1, <1>2, PTL DEF Spec

----
(* rebuildMu                                                                    *)

UnderLock == {"publish", "refreshRead", "rebuild"}

(* The holder of rebuildMu is the one process between Lock and Unlock. *)
LockHeld == \A p \in Procs : pc[p] \in UnderLock <=> lock = p

(* Whoever moves to or from a step under the lock takes or gives up the lock.   *)
LEMMA LockKept ==
  ASSUME TypeOK, LockHeld, NEW p \in Procs, NEW from, NEW to,
         Goto(p, from, to), from \in UnderLock <=> to \in UnderLock, UNCHANGED lock
  PROVE  LockHeld'
  BY DEF TypeOK, LockHeld, Goto

LEMMA LockTaken ==
  ASSUME TypeOK, LockHeld, NEW p \in Procs, NEW to \in UnderLock, Acquire(p, to)
  PROVE  LockHeld'
  BY ConfigAssumption DEF TypeOK, LockHeld, Acquire, Goto, Handlers

LEMMA LockReleased ==
  ASSUME TypeOK, LockHeld, NEW p \in Procs, NEW from \in UnderLock, NEW to,
         to \notin UnderLock, Goto(p, from, to), lock' = None
  PROVE  LockHeld'
  BY ConfigAssumption DEF TypeOK, LockHeld, Goto, Handlers

LEMMA LockConfigure ==
  ASSUME TypeOK, LockHeld, NEW c \in Configures, ConfigureCall(c) \/ ConfigureStep(c)
  PROVE  LockHeld'
<1>0. c \in Procs
  BY DEF Procs
<1>1. CASE ConfigureCall(c)
  BY <1>0, <1>1, LockKept DEF ConfigureCall, serving, UnderLock
<1>2. CASE OpenPool(c)
  BY <1>0, <1>2, LockKept DEF OpenPool, CloseAndFail, serving, UnderLock
<1>3. CASE ImportRead(c)
  BY <1>0, <1>3, LockKept DEF ImportRead, CloseAndFail, serving, UnderLock
<1>4. CASE ImportWrite(c)
  BY <1>0, <1>4, LockKept DEF ImportWrite, CloseAndFail, serving, UnderLock
<1>5. CASE ImportReread(c)
  BY <1>0, <1>5, LockKept DEF ImportReread, CloseAndFail, serving, UnderLock
<1>6. CASE ConfigureLock(c)
  BY <1>0, <1>6, LockTaken DEF ConfigureLock, UnderLock
<1>7. CASE Publish(c)
  BY <1>0, <1>7, LockReleased DEF Publish, UnderLock
<1>8. CASE SwapPool(c)
  BY <1>0, <1>8, LockKept DEF SwapPool, UnderLock
<1>9. CASE CloseOld(c)
  BY <1>0, <1>9, LockKept DEF CloseOld, serving, UnderLock
<1> QED BY <1>1, <1>2, <1>3, <1>4, <1>5, <1>6, <1>7, <1>8, <1>9 DEF ConfigureStep

LEMMA LockSave ==
  ASSUME TypeOK, LockHeld, NEW s \in Saves, SaveCall(s) \/ SaveStep(s)
  PROVE  LockHeld'
<1>0. s \in Procs
  BY DEF Procs
<1>1. CASE SaveCall(s)
  BY <1>0, <1>1, LockKept DEF SaveCall, serving, UnderLock
<1>2. CASE SaveRead(s)
  BY <1>0, <1>2, LockKept DEF SaveRead, serving, UnderLock
<1>3. CASE SaveWrite(s)
  BY <1>0, <1>3, LockKept DEF SaveWrite, serving, UnderLock
<1>4. CASE SaveReconfigure(s)
  BY <1>0, <1>4, LockKept DEF SaveReconfigure, UnderLock
<1>5. CASE RefreshLock(s)
  BY <1>0, <1>5, LockTaken DEF RefreshLock, UnderLock
<1>6. CASE RefreshRead(s)
  BY <1>0, <1>6, LockKept, LockReleased DEF RefreshRead, UnderLock
<1>7. CASE RefreshBuild(s)
  BY <1>0, <1>7, LockReleased DEF RefreshBuild, UnderLock
<1> QED BY <1>1, <1>2, <1>3, <1>4, <1>5, <1>6, <1>7 DEF SaveStep

LEMMA LockNext ==
  ASSUME TypeOK, LockHeld, [Next]_vars
  PROVE  LockHeld'
<1>1. CASE \E c \in Configures : ConfigureCall(c) \/ ConfigureStep(c)
  BY <1>1, LockConfigure
<1>2. CASE \E s \in Saves : SaveCall(s) \/ SaveStep(s)
  BY <1>2, LockSave
<1>3. CASE Crash
  BY <1>3, ConfigAssumption
  DEF Crash, LockHeld, UnderLock, InFlight, ConfigureSteps, SaveSteps, Handlers
<1>4. CASE UNCHANGED vars
  BY <1>4 DEF vars, LockHeld
<1> QED BY <1>1, <1>2, <1>3, <1>4 DEF Next

LEMMA LockSpec == Spec => []LockHeld
<1>1. Init => LockHeld
  BY ConfigAssumption DEF Init, LockHeld, UnderLock, Handlers
<1>2. TypeOK /\ LockHeld /\ [Next]_vars => LockHeld'
  BY LockNext
<1> QED BY <1>1, <1>2, TypeCorrect, PTL DEF Spec

(* "rebuildMu serializes rebuild() so concurrent admin saves and host Configure *)
(* RPCs don't race to swap the http handler" (main.go:53): of all the calls in  *)
(* flight one at most is between reading what to build and swapping it in.      *)
OneRebuilder ==
  \A p, q \in Procs : pc[p] \in UnderLock /\ pc[q] \in UnderLock => p = q

THEOREM RebuildsAreSerial == Spec => []OneRebuilder
<1>1. LockHeld => OneRebuilder
  BY DEF LockHeld, OneRebuilder
<1> QED BY <1>1, LockSpec, PTL

----
(* An acknowledged save is live                                                 *)

(* main's first handler has no store, so no save gets past it. *)
BootHandler == built[Boot].store = None

(* Before it has published, a Configure is alone: nothing is served yet and no  *)
(* other Configure runs.                                                        *)
Starting == {"open", "importRead", "importWrite", "importReread", "lock", "publish"}

StartsAlone ==
  \A c \in Configures : pc[c] \in Starting =>
    live = Boot /\ \A d \in Configures \ {c} : pc[d] \notin InFlight

NoSaveAtBoot == live = Boot => \A s \in Saves : pc[s] \notin InFlight

(* So the row a Configure is about to publish is the one in the database. *)
ImportIsCurrent ==
  \A c \in Configures : pc[c] \in {"lock", "publish"} => local[c] = row

NothingNewer == \A s \in Saves : wrote[s] <= row.ver

(* And what a refresh is about to publish is as new as its own save and as      *)
(* every save acknowledged so far: those came through the same lock.            *)
RefreshIsCurrent ==
  \A s \in Saves : pc[s] = "rebuild" =>
    \A t \in Saves : t = s \/ pc[t] = "done" => wrote[t] <= local[s].ver

BootInv ==
  /\ BootHandler
  /\ StartsAlone
  /\ NoSaveAtBoot
  /\ ImportIsCurrent
  /\ NothingNewer
  /\ RefreshIsCurrent
  /\ AckedSaveIsLive

LEMMA GotoMoves ==
  ASSUME TypeOK, NEW p \in Procs, NEW from, NEW to, Goto(p, from, to)
  PROVE  pc[p] = from /\ pc'[p] = to /\ \A q \in Procs \ {p} : pc'[q] = pc[q]
  BY DEF Goto, TypeOK

(* A step of a Configure that does not publish: it may write the row, under its *)
(* own name, and it has read the row when it reaches the lock.                  *)
LEMMA BootQuietConfigure ==
  ASSUME TypeOK, TypeOK', BootInv, NEW c \in Configures,
         NEW from \in InFlight, NEW to, Goto(c, from, to),
         to \in Starting => from \in Starting,
         to \in {"lock", "publish"} => local'[c] = row',
         row'.ver >= row.ver,
         \A s \in Saves : wrote'[s] = wrote[s] /\ local'[s] = local[s],
         UNCHANGED <<live, built>>
  PROVE  BootInv'
<1> USE ConfigAssumption DEF Procs, Handlers
<1>1. pc[c] = from /\ pc'[c] = to /\ \A q \in Procs \ {c} : pc'[q] = pc[q]
  BY GotoMoves
<1>2. \A s \in Saves : s # c /\ pc'[s] = pc[s]
  BY <1>1
<1>3. BootHandler' /\ NoSaveAtBoot'
  BY <1>2 DEF BootInv, BootHandler, NoSaveAtBoot
<1>4. StartsAlone'
  <2> SUFFICES ASSUME NEW d \in Configures, pc'[d] \in Starting
               PROVE  live = Boot /\ \A e \in Configures \ {d} : pc'[e] \notin InFlight
    BY DEF StartsAlone
  <2>1. pc[d] \in Starting
    BY <1>1
  <2>2. d = c
    BY <1>1, <2>1 DEF BootInv, StartsAlone
  <2> QED BY <1>1, <2>1, <2>2 DEF BootInv, StartsAlone
<1>5. ImportIsCurrent'
  <2> SUFFICES ASSUME NEW d \in Configures, pc'[d] \in {"lock", "publish"}
               PROVE  local'[d] = row'
    BY DEF ImportIsCurrent
  <2>1. CASE d = c
    BY <1>1, <2>1
  <2>2. CASE d # c
    BY <1>1, <2>2 DEF BootInv, StartsAlone, Starting
  <2> QED BY <2>1, <2>2
<1>6. NothingNewer'
  BY DEF BootInv, NothingNewer, TypeOK, Versioned
<1>7. RefreshIsCurrent' /\ AckedSaveIsLive'
  BY <1>2 DEF BootInv, RefreshIsCurrent, AckedSaveIsLive, LiveConf
<1> QED BY <1>3, <1>4, <1>5, <1>6, <1>7 DEF BootInv

(* A step of a save that neither reads for its rebuild nor swaps the handler.   *)
LEMMA BootQuietSave ==
  ASSUME TypeOK, TypeOK', BootInv, NEW s \in Saves,
         NEW from \in InFlight, NEW to, Goto(s, from, to), to \notin {"rebuild", "done"},
         row'.ver >= row.ver, wrote'[s] <= row'.ver,
         \A q \in Procs \ {s} : wrote'[q] = wrote[q] /\ local'[q] = local[q],
         UNCHANGED <<live, built>>
  PROVE  BootInv'
<1> USE ConfigAssumption DEF Procs, Handlers
<1>1. pc[s] = from /\ pc'[s] = to /\ \A q \in Procs \ {s} : pc'[q] = pc[q]
  BY GotoMoves
<1>2. live # Boot
  BY <1>1 DEF BootInv, NoSaveAtBoot
<1>3. \A c \in Configures : pc'[c] = pc[c] /\ pc[c] \notin Starting
  BY <1>1, <1>2 DEF BootInv, StartsAlone
<1>4. BootHandler' /\ NoSaveAtBoot'
  BY <1>2 DEF BootInv, BootHandler, NoSaveAtBoot
<1>5. StartsAlone' /\ ImportIsCurrent'
  BY <1>3 DEF StartsAlone, ImportIsCurrent, Starting
<1>6. NothingNewer'
  <2>1. row.ver \in Nat /\ row'.ver \in Nat /\ \A t \in Saves : wrote[t] \in Nat
    BY DEF TypeOK, Versioned
  <2>2. \A t \in Saves \ {s} : wrote'[t] = wrote[t] /\ wrote[t] <= row.ver
    BY DEF BootInv, NothingNewer
  <2> QED BY <2>1, <2>2 DEF NothingNewer
<1>7. RefreshIsCurrent' /\ AckedSaveIsLive'
  BY <1>1 DEF BootInv, RefreshIsCurrent, AckedSaveIsLive, LiveConf
<1> QED BY <1>4, <1>5, <1>6, <1>7 DEF BootInv

LEMMA BootConfigureCall ==
  ASSUME TypeOK, BootInv, HostCalls = "boot", NEW c \in Configures, ConfigureCall(c)
  PROVE  BootInv'
<1> USE ConfigAssumption DEF Procs, Handlers
<1>0. PICK to \in {"open", "failed"} : Goto(c, "idle", to)
  BY DEF ConfigureCall
<1>1. pc[c] = "idle" /\ pc'[c] = to /\ \A q \in Procs \ {c} : pc'[q] = pc[q]
  BY <1>0, GotoMoves
<1>2. live = Boot /\ \A d \in Configures : pc[d] \notin InFlight
  BY DEF ConfigureCall, HostMayCall
<1>3. UNCHANGED <<live, built, row, wrote, local>>
  BY DEF ConfigureCall, serving
<1>4. \A s \in Saves : s # c /\ pc'[s] = pc[s]
  BY <1>1
<1>5. BootHandler' /\ NoSaveAtBoot' /\ NothingNewer' /\ RefreshIsCurrent' /\ AckedSaveIsLive'
  BY <1>3, <1>4
  DEF BootInv, BootHandler, NoSaveAtBoot, NothingNewer, RefreshIsCurrent, AckedSaveIsLive, LiveConf
<1>6. \A d \in Configures : pc'[d] \in Starting => d = c /\ to = "open"
  BY <1>1, <1>2 DEF Starting, InFlight, ConfigureSteps, SaveSteps
<1>7. StartsAlone'
  BY <1>1, <1>2, <1>3, <1>6 DEF StartsAlone
<1>8. ImportIsCurrent'
  BY <1>1, <1>6 DEF ImportIsCurrent, Starting
<1> QED BY <1>5, <1>7, <1>8 DEF BootInv

LEMMA BootPublish ==
  ASSUME TypeOK, BootInv, NEW c \in Configures, Publish(c)
  PROVE  BootInv'
<1> USE ConfigAssumption DEF Procs, Handlers
<1>1. pc[c] = "publish" /\ pc'[c] = "swap" /\ \A q \in Procs \ {c} : pc'[q] = pc[q]
  BY GotoMoves DEF Publish
<1>2. UNCHANGED <<row, wrote, local>>
  BY DEF Publish
<1>3. /\ live' = c
      /\ built' = [built EXCEPT ![c] = [store |-> c, conf |-> local[c]]]
  BY DEF Publish, Rebuild
<1>4. local[c] = row
  BY <1>1 DEF BootInv, ImportIsCurrent
<1>5. \A s \in Saves : s # c /\ pc'[s] = pc[s]
  BY <1>1
<1>6. BootHandler' /\ NoSaveAtBoot'
  BY <1>3 DEF BootInv, BootHandler, NoSaveAtBoot
<1>7. \A d \in Configures : pc'[d] \notin Starting
  BY <1>1 DEF BootInv, StartsAlone, Starting, InFlight, ConfigureSteps
<1>8. StartsAlone' /\ ImportIsCurrent'
  BY <1>7 DEF StartsAlone, ImportIsCurrent, Starting
<1>9. NothingNewer' /\ RefreshIsCurrent'
  BY <1>2, <1>5 DEF BootInv, NothingNewer, RefreshIsCurrent
<1>10. built'[live'].conf = row
  BY <1>3, <1>4 DEF TypeOK
<1>11. AckedSaveIsLive'
  BY <1>2, <1>10 DEF BootInv, NothingNewer, AckedSaveIsLive, LiveConf, TypeOK, Versioned
<1> QED BY <1>6, <1>8, <1>9, <1>11 DEF BootInv

LEMMA BootConfigure ==
  ASSUME TypeOK, TypeOK', BootInv, HostCalls = "boot",
         NEW c \in Configures, ConfigureCall(c) \/ ConfigureStep(c)
  PROVE  BootInv'
<1> USE ConfigAssumption DEF Procs, Handlers
<1>0. /\ \A s \in Saves : s # c
      /\ row \in Versioned /\ row.ver \in Nat /\ local \in [Procs -> Versioned]
      /\ wrote \in [Procs -> Nat]
  BY DEF TypeOK, Versioned
<1> DEFINE Quiet(from, to) ==
      /\ Goto(c, from, to)
      /\ to \in {"lock", "publish"} => local'[c] = row'
      /\ row'.ver >= row.ver
      /\ \A s \in Saves : wrote'[s] = wrote[s] /\ local'[s] = local[s]
      /\ UNCHANGED <<live, built>>
<1>q. ASSUME NEW from \in InFlight, NEW to, Quiet(from, to),
             to \in Starting => from \in Starting
      PROVE  BootInv'
  BY <1>q, BootQuietConfigure
<1>1. CASE ConfigureCall(c)
  BY <1>1, BootConfigureCall
<1>2. CASE OpenPool(c)
  <2>1. Quiet("open", "importRead") \/ Quiet("open", "failed")
    BY <1>0, <1>2 DEF OpenPool, CloseAndFail, serving
  <2> QED BY <1>q, <2>1 DEF Starting, InFlight, ConfigureSteps
<1>3. CASE ImportRead(c)
  <2>1. \/ Quiet("importRead", "importWrite")
        \/ Quiet("importRead", "lock")
        \/ Quiet("importRead", "failed")
    BY <1>0, <1>3 DEF ImportRead, CloseAndFail, GetAppConfig, serving
  <2> QED BY <1>q, <2>1 DEF Starting, InFlight, ConfigureSteps
<1>4. CASE ImportWrite(c)
  <2>1. Quiet("importWrite", "importReread") \/ Quiet("importWrite", "failed")
    BY <1>0, <1>4 DEF ImportWrite, CloseAndFail, UpdateAppConfig, serving
  <2> QED BY <1>q, <2>1 DEF Starting, InFlight, ConfigureSteps
<1>5. CASE ImportReread(c)
  <2>1. Quiet("importReread", "lock") \/ Quiet("importReread", "failed")
    BY <1>0, <1>5 DEF ImportReread, CloseAndFail, GetAppConfig, serving
  <2> QED BY <1>q, <2>1 DEF Starting, InFlight, ConfigureSteps
<1>6. CASE ConfigureLock(c)
  <2>1. local[c] = row
    BY <1>6 DEF ConfigureLock, Acquire, Goto, BootInv, ImportIsCurrent
  <2>2. Quiet("lock", "publish")
    BY <1>0, <1>6, <2>1 DEF ConfigureLock, Acquire
  <2> QED BY <1>q, <2>2 DEF Starting, InFlight, ConfigureSteps
<1>7. CASE Publish(c)
  BY <1>7, BootPublish
<1>8. CASE SwapPool(c)
  <2>1. Quiet("swap", "done") \/ Quiet("swap", "close")
    BY <1>0, <1>8 DEF SwapPool
  <2> QED BY <1>q, <2>1 DEF Starting, InFlight, ConfigureSteps
<1>9. CASE CloseOld(c)
  <2>1. Quiet("close", "done")
    BY <1>0, <1>9 DEF CloseOld, serving
  <2> QED BY <1>q, <2>1 DEF Starting, InFlight, ConfigureSteps
<1> QED BY <1>1, <1>2, <1>3, <1>4, <1>5, <1>6, <1>7, <1>8, <1>9 DEF ConfigureStep

LEMMA BootRefreshRead ==
  ASSUME TypeOK, TypeOK', BootInv, NEW s \in Saves, Goto(s, "refreshRead", "rebuild"),
         local' = [local EXCEPT ![s] = row], UNCHANGED <<live, built, row, wrote>>
  PROVE  BootInv'
<1> USE ConfigAssumption DEF Procs, Handlers
<1>1. pc[s] = "refreshRead" /\ pc'[s] = "rebuild" /\ \A q \in Procs \ {s} : pc'[q] = pc[q]
  BY GotoMoves
<1>2. live # Boot
  BY <1>1 DEF BootInv, NoSaveAtBoot, InFlight, SaveSteps
<1>3. \A c \in Configures : pc'[c] = pc[c] /\ pc[c] \notin Starting
  BY <1>1, <1>2 DEF BootInv, StartsAlone
<1>4. BootHandler' /\ NoSaveAtBoot' /\ NothingNewer'
  BY <1>2 DEF BootInv, BootHandler, NoSaveAtBoot, NothingNewer
<1>5. StartsAlone' /\ ImportIsCurrent'
  BY <1>3 DEF StartsAlone, ImportIsCurrent, Starting
<1>6. local'[s] = row /\ \A q \in Procs \ {s} : local'[q] = local[q]
  BY DEF TypeOK
<1>7. RefreshIsCurrent'
  <2> SUFFICES ASSUME NEW r \in Saves, pc'[r] = "rebuild",
                      NEW t \in Saves, t = r \/ pc'[t] = "done"
               PROVE  wrote[t] <= local'[r].ver
    BY DEF RefreshIsCurrent
  <2>1. CASE r = s
    BY <1>6, <2>1 DEF BootInv, NothingNewer
  <2>2. CASE r # s
    BY <1>1, <1>6, <2>2 DEF BootInv, RefreshIsCurrent
  <2> QED BY <2>1, <2>2
<1>8. AckedSaveIsLive'
  BY <1>1 DEF BootInv, AckedSaveIsLive, LiveConf
<1> QED BY <1>4, <1>5, <1>7, <1>8 DEF BootInv

LEMMA BootRefreshBuild ==
  ASSUME TypeOK, LockHeld, BootInv, NEW s \in Saves, RefreshBuild(s)
  PROVE  BootInv'
<1> USE ConfigAssumption DEF Procs, Handlers
<1>1. pc[s] = "rebuild" /\ pc'[s] = "done" /\ \A q \in Procs \ {s} : pc'[q] = pc[q]
  BY GotoMoves DEF RefreshBuild
<1>2. UNCHANGED <<row, wrote, local>>
  BY DEF RefreshBuild
<1>3. /\ live' = s
      /\ built' = [built EXCEPT ![s] = [store |-> storePtr, conf |-> local[s]]]
  BY DEF RefreshBuild, Rebuild
<1>4. live # Boot
  BY <1>1 DEF BootInv, NoSaveAtBoot, InFlight, SaveSteps
<1>5. \A c \in Configures : pc'[c] = pc[c] /\ pc[c] \notin Starting
  BY <1>1, <1>4 DEF BootInv, StartsAlone
<1>6. BootHandler' /\ NoSaveAtBoot' /\ NothingNewer'
  BY <1>2, <1>3 DEF BootInv, BootHandler, NoSaveAtBoot, NothingNewer
<1>7. StartsAlone' /\ ImportIsCurrent'
  BY <1>5 DEF StartsAlone, ImportIsCurrent, Starting
<1>8. \A r \in Saves : pc'[r] # "rebuild"
  BY <1>1 DEF LockHeld, UnderLock
<1>9. RefreshIsCurrent'
  BY <1>8 DEF RefreshIsCurrent
<1>10. built'[live'].conf = local[s]
  BY <1>3 DEF TypeOK
<1>11. \A t \in Saves : pc'[t] = "done" => wrote[t] <= local[s].ver
  BY <1>1 DEF BootInv, RefreshIsCurrent
<1>12. \A t \in Saves : wrote[t] \in Nat /\ local[s].ver \in Nat
  BY DEF TypeOK, Versioned
<1>13. AckedSaveIsLive'
  BY <1>2, <1>10, <1>11, <1>12 DEF AckedSaveIsLive, LiveConf
<1> QED BY <1>6, <1>7, <1>9, <1>13 DEF BootInv

LEMMA BootSaveCall ==
  ASSUME TypeOK, BootInv, NEW s \in Saves, SaveCall(s)
  PROVE  BootInv'
<1> USE ConfigAssumption DEF Procs, Handlers
<1>0. PICK to \in {"read", "failed"} :
        Goto(s, "idle", to) /\ (live = Boot => to = "failed")
  BY DEF SaveCall, BootInv, BootHandler
<1>1. pc[s] = "idle" /\ pc'[s] = to /\ \A q \in Procs \ {s} : pc'[q] = pc[q]
  BY <1>0, GotoMoves
<1>2. UNCHANGED <<live, built, row, wrote, local>>
  BY DEF SaveCall, serving
<1>3. \A c \in Configures : pc'[c] = pc[c]
  BY <1>1
<1>4. BootHandler' /\ NothingNewer' /\ StartsAlone' /\ ImportIsCurrent'
  BY <1>2, <1>3 DEF BootInv, BootHandler, NothingNewer, StartsAlone, ImportIsCurrent
<1>5. NoSaveAtBoot'
  BY <1>0, <1>1, <1>2
  DEF BootInv, NoSaveAtBoot, InFlight, ConfigureSteps, SaveSteps
<1>6. RefreshIsCurrent' /\ AckedSaveIsLive'
  BY <1>1, <1>2 DEF BootInv, RefreshIsCurrent, AckedSaveIsLive, LiveConf
<1> QED BY <1>4, <1>5, <1>6 DEF BootInv

LEMMA BootSave ==
  ASSUME TypeOK, TypeOK', LockHeld, BootInv, NEW s \in Saves, SaveCall(s) \/ SaveStep(s)
  PROVE  BootInv'
<1> USE ConfigAssumption DEF Procs, Handlers
<1>0. /\ row.ver \in Nat /\ row \in Versioned
      /\ local \in [Procs -> Versioned]
      /\ wrote \in [Procs -> Nat]
      /\ wrote[s] <= row.ver
  BY DEF TypeOK, Versioned, BootInv, NothingNewer
<1> DEFINE Quiet(from, to) ==
      /\ Goto(s, from, to)
      /\ row'.ver >= row.ver
      /\ wrote'[s] <= row'.ver
      /\ \A q \in Procs \ {s} : wrote'[q] = wrote[q] /\ local'[q] = local[q]
      /\ UNCHANGED <<live, built>>
<1>q. ASSUME NEW from \in InFlight, NEW to, Quiet(from, to), to \notin {"rebuild", "done"}
      PROVE  BootInv'
  BY <1>q, BootQuietSave
<1>1. CASE SaveCall(s)
  BY <1>1, BootSaveCall
<1>2. CASE SaveRead(s)
  <2>1. Quiet("read", "write") \/ Quiet("read", "failed")
    BY <1>0, <1>2 DEF SaveRead, GetAppConfig, serving
  <2> QED BY <1>q, <2>1 DEF InFlight, SaveSteps
<1>3. CASE SaveWrite(s)
  <2>1. \/ Quiet("write", "failed")
        \/ Quiet("write", "reconfigure")
        \/ Quiet("write", "writeFailed")
    BY <1>0, <1>3 DEF SaveWrite, UpdateAppConfig, serving
  <2> QED BY <1>q, <2>1 DEF InFlight, SaveSteps
<1>4. CASE SaveReconfigure(s)
  <2>1. Quiet("reconfigure", "lock")
    BY <1>0, <1>4 DEF SaveReconfigure
  <2> QED BY <1>q, <2>1 DEF InFlight, SaveSteps
<1>5. CASE RefreshLock(s)
  <2>1. Quiet("lock", "refreshRead")
    BY <1>0, <1>5 DEF RefreshLock, Acquire
  <2> QED BY <1>q, <2>1 DEF InFlight, SaveSteps
<1>6. CASE RefreshRead(s)
  <2>1. CASE Goto(s, "refreshRead", "rebuild") /\ GetAppConfig(s)
    BY <1>6, <2>1, BootRefreshRead DEF RefreshRead, GetAppConfig
  <2>2. CASE Quiet("refreshRead", "refreshFailed")
    BY <1>q, <2>2 DEF InFlight, SaveSteps
  <2> QED BY <1>0, <1>6, <2>1, <2>2 DEF RefreshRead
<1>7. CASE RefreshBuild(s)
  BY <1>7, BootRefreshBuild
<1> QED BY <1>1, <1>2, <1>3, <1>4, <1>5, <1>6, <1>7 DEF SaveStep

LEMMA BootCrash ==
  ASSUME TypeOK, BootInv, Crash
  PROVE  BootInv'
<1> USE ConfigAssumption DEF Procs, Handlers
<1>1. \A p \in Procs : pc'[p] \notin InFlight /\ (pc'[p] = "done" => pc[p] = "done")
  BY DEF Crash, InFlight, ConfigureSteps, SaveSteps, TypeOK
<1>2. live' = Boot /\ built'[Boot].store = None /\ UNCHANGED <<row, wrote, local>>
  BY DEF Crash
<1> QED BY <1>1, <1>2
  DEF BootInv, BootHandler, StartsAlone, NoSaveAtBoot, ImportIsCurrent, NothingNewer,
      RefreshIsCurrent, AckedSaveIsLive, Starting, InFlight, ConfigureSteps, SaveSteps

LEMMA BootSpec ==
  ASSUME HostCalls = "boot"
  PROVE  Spec => []BootInv
<1>1. Init => BootInv
  <2> SUFFICES ASSUME Init PROVE BootInv
    OBVIOUS
  <2>1. /\ \A p \in Procs : pc[p] = "idle" /\ wrote[p] = 0
        /\ live = Boot /\ built[Boot].store = None /\ row.ver = 0
    BY DEF Init, FirstRow, Handlers
  <2> QED BY <2>1
    DEF Procs, BootInv, BootHandler, StartsAlone, NoSaveAtBoot, ImportIsCurrent, NothingNewer,
        RefreshIsCurrent, AckedSaveIsLive, Starting, InFlight, ConfigureSteps, SaveSteps
<1>2. TypeOK /\ TypeOK' /\ LockHeld /\ BootInv /\ [Next]_vars => BootInv'
  <2> SUFFICES ASSUME TypeOK, TypeOK', LockHeld, BootInv, [Next]_vars PROVE BootInv'
    OBVIOUS
  <2>1. CASE \E c \in Configures : ConfigureCall(c) \/ ConfigureStep(c)
    BY <2>1, BootConfigure
  <2>2. CASE \E s \in Saves : SaveCall(s) \/ SaveStep(s)
    BY <2>2, BootSave
  <2>3. CASE Crash
    BY <2>3, BootCrash
  <2>4. CASE UNCHANGED vars
    BY <2>4 DEF vars, BootInv, BootHandler, StartsAlone, NoSaveAtBoot, ImportIsCurrent,
      NothingNewer, RefreshIsCurrent, AckedSaveIsLive, LiveConf
  <2> QED BY <2>1, <2>2, <2>3, <2>4 DEF Next
<1> QED BY <1>1, <1>2, LockSpec, TypeCorrect, PTL DEF Spec

(* A PATCH that was answered 200 is in force from then on, over later saves,    *)
(* failures and restarts, as long as the host calls Configure only for a        *)
(* process that serves nothing yet.                                             *)
THEOREM AckedSavesAreLive ==
  ASSUME HostCalls = "boot"
  PROVE  Spec => []AckedSaveIsLive
<1>1. BootInv => AckedSaveIsLive
  BY DEF BootInv
<1> QED BY <1>1, BootSpec, PTL

----
(* No pool leaks                                                                *)

(* A Configure that has opened its pool and not yet handed it to main. *)
Opened == {"importRead", "importWrite", "importReread", "lock", "publish", "swap"}

(* An open pool has somebody who will close it: the Configure that opened it,   *)
(* main, or the Configure that swapped it out.                                  *)
Owned(c) ==
  \/ pc[c] \in Opened
  \/ poolPtr = c
  \/ \E d \in Configures : pc[d] = "close" /\ old[d] = c

PoolsOwned == \A c \in Configures : pool[c] = "open" => Owned(c)

(* A step of a Configure before the swap: it keeps its pool, or has closed it.  *)
LEMMA OwnedBeforeSwap ==
  ASSUME TypeOK, PoolsOwned, NEW c \in Configures,
         NEW from, NEW to, Goto(c, from, to), from \notin {"swap", "close"},
         \A d \in Configures \ {c} : pool'[d] = pool[d],
         pool'[c] = "open" => to \in Opened \/ (from \notin Opened /\ pool[c] = "open"),
         UNCHANGED <<poolPtr, old>>
  PROVE  PoolsOwned'
<1> USE DEF Procs
<1>1. pc[c] = from /\ pc'[c] = to /\ \A q \in Procs \ {c} : pc'[q] = pc[q]
  BY GotoMoves
<1>2. \A d \in Configures : pc[d] = "close" => pc'[d] = "close"
  BY <1>1
<1> SUFFICES ASSUME NEW d \in Configures, pool'[d] = "open" PROVE Owned(d)'
  BY DEF PoolsOwned
<1>3. CASE d = c /\ to \in Opened
  BY <1>1, <1>3 DEF Owned
<1>4. CASE d = c /\ to \notin Opened
  <2>1. Owned(c) /\ pc[c] \notin Opened
    BY <1>1, <1>4 DEF PoolsOwned
  <2> QED BY <1>2, <1>4, <2>1 DEF Owned
<1>5. CASE d # c
  <2>1. Owned(d) /\ pc'[d] = pc[d]
    BY <1>1, <1>5 DEF PoolsOwned
  <2> QED BY <1>2, <2>1 DEF Owned
<1> QED BY <1>3, <1>4, <1>5

LEMMA OwnedConfigure ==
  ASSUME TypeOK, PoolsOwned, NEW c \in Configures, ConfigureCall(c) \/ ConfigureStep(c)
  PROVE  PoolsOwned'
<1> USE DEF Procs
<1>0. c \in Procs /\ pool \in [Configures -> {"none", "open", "closed"}]
  BY DEF TypeOK
<1>1. CASE ConfigureCall(c)
  <2>1. PICK to \in {"open", "failed"} : Goto(c, "idle", to)
    BY <1>1 DEF ConfigureCall
  <2> QED BY <1>1, <2>1, OwnedBeforeSwap DEF ConfigureCall, serving, Opened
<1>2. CASE OpenPool(c)
  BY <1>0, <1>2, OwnedBeforeSwap DEF OpenPool, CloseAndFail, serving, request, Opened
<1>3. CASE ImportRead(c)
  BY <1>0, <1>3, OwnedBeforeSwap DEF ImportRead, CloseAndFail, serving, request, Opened
<1>4. CASE ImportWrite(c)
  BY <1>0, <1>4, OwnedBeforeSwap DEF ImportWrite, CloseAndFail, serving, request, Opened
<1>5. CASE ImportReread(c)
  BY <1>0, <1>5, OwnedBeforeSwap DEF ImportReread, CloseAndFail, serving, request, Opened
<1>6. CASE ConfigureLock(c)
  BY <1>0, <1>6, OwnedBeforeSwap DEF ConfigureLock, Acquire, request, Opened
<1>7. CASE Publish(c)
  BY <1>0, <1>7, OwnedBeforeSwap DEF Publish, request, Opened
<1>8. CASE SwapPool(c)
  <2>1. PICK to \in {"done", "close"} :
          Goto(c, "swap", to) /\ (poolPtr # None => to = "close")
    BY <1>8 DEF SwapPool
  <2>2. pc[c] = "swap" /\ pc'[c] = to /\ \A q \in Procs \ {c} : pc'[q] = pc[q]
    BY <1>0, <2>1, GotoMoves
  <2>3. /\ poolPtr' = c /\ pool' = pool /\ old'[c] = poolPtr
        /\ \A d \in Configures \ {c} : old'[d] = old[d]
    BY <1>8 DEF SwapPool, TypeOK
  <2> SUFFICES ASSUME NEW d \in Configures, pool[d] = "open", d # c PROVE Owned(d)'
    BY <2>3 DEF PoolsOwned, Owned
  <2>4. Owned(d)
    BY DEF PoolsOwned
  <2>5. CASE poolPtr = d
    BY <2>1, <2>2, <2>3, <2>5, ConfigAssumption DEF Owned, Handlers
  <2>6. CASE poolPtr # d
    BY <2>2, <2>3, <2>4, <2>6 DEF Owned
  <2> QED BY <2>5, <2>6
<1>9. CASE CloseOld(c)
  <2>1. pc[c] = "close" /\ pc'[c] = "done" /\ \A q \in Procs \ {c} : pc'[q] = pc[q]
    BY <1>0, <1>9, GotoMoves DEF CloseOld
  <2>2. \A d \in Configures : pool'[d] = "open" => pool[d] = "open" /\ d # old[c]
    BY <1>0, <1>9 DEF CloseOld
  <2>3. UNCHANGED <<poolPtr, old>>
    BY <1>9 DEF CloseOld, serving, request
  <2> SUFFICES ASSUME NEW d \in Configures, pool'[d] = "open" PROVE Owned(d)'
    BY DEF PoolsOwned
  <2>4. Owned(d) /\ d # old[c]
    BY <2>2 DEF PoolsOwned
  <2> QED BY <2>1, <2>3, <2>4 DEF Owned, Opened
<1> QED BY <1>1, <1>2, <1>3, <1>4, <1>5, <1>6, <1>7, <1>8, <1>9 DEF ConfigureStep

(* A save moves no Configure and touches no pool. *)
LEMMA SaveLeavesPools ==
  ASSUME TypeOK, NEW s \in Saves, SaveCall(s) \/ SaveStep(s)
  PROVE  /\ \A c \in Configures : pc'[c] = pc[c]
         /\ UNCHANGED <<pool, poolPtr, storePtr, old>>
<1>1. PICK from, to : Goto(s, from, to)
  BY DEF SaveCall, SaveStep, SaveRead, SaveWrite, SaveReconfigure, RefreshLock, Acquire,
    RefreshRead, RefreshBuild
<1>2. \A c \in Configures : c # s /\ c \in Procs
  BY ConfigAssumption DEF Procs
<1>3. \A c \in Configures : pc'[c] = pc[c]
  BY <1>1, <1>2, GotoMoves DEF Procs
<1>4. UNCHANGED <<pool, poolPtr, storePtr, old>>
  BY DEF SaveCall, SaveStep, SaveRead, SaveWrite, SaveReconfigure, RefreshLock,
    RefreshRead, RefreshBuild, serving, request
<1> QED BY <1>3, <1>4

LEMMA OwnedNext ==
  ASSUME TypeOK, PoolsOwned, [Next]_vars
  PROVE  PoolsOwned'
<1>1. CASE \E c \in Configures : ConfigureCall(c) \/ ConfigureStep(c)
  BY <1>1, OwnedConfigure
<1>2. CASE \E s \in Saves : SaveCall(s) \/ SaveStep(s)
  BY <1>2, SaveLeavesPools DEF PoolsOwned, Owned
<1>3. CASE Crash
  BY <1>3 DEF Crash, PoolsOwned, TypeOK
<1>4. CASE UNCHANGED vars
  BY <1>4 DEF vars, PoolsOwned, Owned
<1> QED BY <1>1, <1>2, <1>3, <1>4 DEF Next

(* When nothing is in flight, the only pool that is still open is the one main  *)
(* has (the error paths of main.go:129-149 close their own, main.go:152 the one  *)
(* that was swapped out), however many Configure calls overlap, fail and crash.   *)
THEOREM NoPoolLeaks == Spec => []NoPoolLeak
<1>1. Init => PoolsOwned
  BY DEF Init, PoolsOwned
<1>2. TypeOK /\ PoolsOwned /\ [Next]_vars => PoolsOwned'
  BY OwnedNext
<1>3. PoolsOwned => NoPoolLeak
  BY DEF PoolsOwned, Owned, NoPoolLeak, Quiescent, Opened, InFlight, ConfigureSteps, Procs
<1> QED BY <1>1, <1>2, <1>3, TypeCorrect, PTL DEF Spec

----
(* The store in use is open                                                     *)

Unpublished == {"idle", "open", "importRead", "importWrite", "importReread", "lock", "publish"}

(* The live handler uses main's store, *)
LiveStoreIsCurrent == live # Boot => storePtr # None /\ built[live].store = storePtr

RefreshHasStore == \A s \in Saves : pc[s] = "rebuild" => storePtr # None

(* which is open, and was published by its Configure; *)
CurrentStoreOpen ==
  storePtr # None => pool[storePtr] = "open" /\ pc[storePtr] \notin Unpublished

OpenUntilSwap == \A c \in Configures : pc[c] \in Opened => pool[c] = "open"

(* and a Configure that closes a pool has published its own before, which is    *)
(* not the one it closes.                                                       *)
SwapsOwnStore == \A c \in Configures : pc[c] \in {"swap", "close"} => storePtr = c

ClosesOther == \A c \in Configures : pc[c] = "close" => old[c] # c

CurrentPoolSwapped == poolPtr # None => pc[poolPtr] \notin Unpublished \cup {"swap"}

StoreInv ==
  /\ LiveStoreIsCurrent
  /\ RefreshHasStore
  /\ CurrentStoreOpen
  /\ OpenUntilSwap
  /\ SwapsOwnStore
  /\ ClosesOther
  /\ CurrentPoolSwapped

(* A step of a Configure before it publishes: it may close its own pool, which  *)
(* nobody else knows yet.                                                       *)
LEMMA StoreBeforePublish ==
  ASSUME TypeOK, StoreInv, NEW c \in Configures, NEW from, NEW to, Goto(c, from, to),
         from \in Unpublished, to \in Unpublished \cup {"failed"},
         to \in Opened => pool'[c] = "open",
         \A d \in Configures \ {c} : pool'[d] = pool[d],
         UNCHANGED <<poolPtr, old, storePtr, live, built>>
  PROVE  StoreInv'
<1> USE ConfigAssumption DEF Procs, Handlers
<1>1. pc[c] = from /\ pc'[c] = to /\ \A q \in Procs \ {c} : pc'[q] = pc[q]
  BY GotoMoves
<1>2. storePtr # c /\ poolPtr # c
  BY <1>1 DEF StoreInv, CurrentStoreOpen, CurrentPoolSwapped
<1>3. LiveStoreIsCurrent' /\ RefreshHasStore'
  BY <1>1 DEF StoreInv, LiveStoreIsCurrent, RefreshHasStore
<1>4. CurrentStoreOpen' /\ CurrentPoolSwapped'
  BY <1>1, <1>2 DEF TypeOK, StoreInv, CurrentStoreOpen, CurrentPoolSwapped
<1>5. OpenUntilSwap'
  BY <1>1 DEF StoreInv, OpenUntilSwap
<1>6. SwapsOwnStore' /\ ClosesOther'
  BY <1>1 DEF StoreInv, SwapsOwnStore, ClosesOther, Unpublished
<1> QED BY <1>3, <1>4, <1>5, <1>6 DEF StoreInv

(* Publish, SwapPool and CloseOld: while no other Configure is under way, the   *)
(* store that was published is the one that stays current.                      *)
LEMMA StorePublish ==
  ASSUME TypeOK, StoreInv, ~Overlapping, NEW c \in Configures, Publish(c)
  PROVE  StoreInv'
<1> USE ConfigAssumption DEF Procs, Handlers
<1>1. pc[c] = "publish" /\ pc'[c] = "swap" /\ \A q \in Procs \ {c} : pc'[q] = pc[q]
  BY GotoMoves DEF Publish
<1>2. /\ storePtr' = c /\ live' = c /\ built'[c].store = c
      /\ UNCHANGED <<pool, poolPtr, old>>
  BY DEF Publish, Rebuild, request, TypeOK
<1>3. pool[c] = "open" /\ poolPtr # c
  BY <1>1 DEF StoreInv, OpenUntilSwap, CurrentPoolSwapped, Opened, Unpublished
<1>4. \A d \in Configures \ {c} : pc[d] \notin ConfigureSteps
  BY <1>1 DEF Overlapping, ConfigureSteps
<1>5. LiveStoreIsCurrent' /\ RefreshHasStore'
  BY <1>2 DEF LiveStoreIsCurrent, RefreshHasStore
<1>6. CurrentStoreOpen' /\ OpenUntilSwap'
  BY <1>1, <1>2, <1>3 DEF StoreInv, CurrentStoreOpen, OpenUntilSwap, Unpublished
<1>7. SwapsOwnStore' /\ ClosesOther'
  BY <1>1, <1>2, <1>4 DEF StoreInv, SwapsOwnStore, ClosesOther, ConfigureSteps
<1>8. CurrentPoolSwapped'
  BY <1>1, <1>2, <1>3 DEF TypeOK, StoreInv, CurrentPoolSwapped
<1> QED BY <1>5, <1>6, <1>7, <1>8 DEF StoreInv

LEMMA StoreSwap ==
  ASSUME TypeOK, StoreInv, ~Overlapping, NEW c \in Configures, SwapPool(c)
  PROVE  StoreInv'
<1> USE ConfigAssumption DEF Procs, Handlers
<1>1. PICK to \in {"done", "close"} : Goto(c, "swap", to)
  BY DEF SwapPool
<1>2. pc[c] = "swap" /\ pc'[c] = to /\ \A q \in Procs \ {c} : pc'[q] = pc[q]
  BY <1>1, GotoMoves
<1>3. /\ poolPtr' = c /\ old'[c] = poolPtr /\ \A d \in Configures \ {c} : old'[d] = old[d]
      /\ UNCHANGED <<storePtr, pool, live, built>>
  BY DEF SwapPool, TypeOK
<1>4. storePtr = c /\ poolPtr # c
  BY <1>2 DEF StoreInv, SwapsOwnStore, CurrentPoolSwapped
<1>5. LiveStoreIsCurrent' /\ RefreshHasStore'
  BY <1>2, <1>3 DEF StoreInv, LiveStoreIsCurrent, RefreshHasStore
<1>6. CurrentStoreOpen' /\ OpenUntilSwap' /\ CurrentPoolSwapped'
  BY <1>2, <1>3, <1>4
  DEF StoreInv, CurrentStoreOpen, OpenUntilSwap, CurrentPoolSwapped, Unpublished, Opened
<1>7. SwapsOwnStore' /\ ClosesOther'
  BY <1>2, <1>3, <1>4 DEF StoreInv, SwapsOwnStore, ClosesOther
<1> QED BY <1>5, <1>6, <1>7 DEF StoreInv

LEMMA StoreClose ==
  ASSUME TypeOK, StoreInv, ~Overlapping, NEW c \in Configures, CloseOld(c)
  PROVE  StoreInv'
<1> USE ConfigAssumption DEF Procs, Handlers
<1>1. pc[c] = "close" /\ pc'[c] = "done" /\ \A q \in Procs \ {c} : pc'[q] = pc[q]
  BY GotoMoves DEF CloseOld
<1>2. /\ \A d \in Configures : d # old[c] => pool'[d] = pool[d]
      /\ UNCHANGED <<storePtr, poolPtr, old, live, built>>
  BY DEF CloseOld, serving, request, TypeOK
<1>3. storePtr = c /\ old[c] # c
  BY <1>1 DEF StoreInv, SwapsOwnStore, ClosesOther
<1>4. \A d \in Configures \ {c} : pc[d] \notin ConfigureSteps
  BY <1>1 DEF Overlapping, ConfigureSteps
<1>5. LiveStoreIsCurrent' /\ RefreshHasStore'
  BY <1>1, <1>2 DEF StoreInv, LiveStoreIsCurrent, RefreshHasStore
<1>6. CurrentStoreOpen' /\ CurrentPoolSwapped'
  BY <1>1, <1>2, <1>3
  DEF TypeOK, StoreInv, CurrentStoreOpen, CurrentPoolSwapped, Unpublished
<1>7. OpenUntilSwap'
  BY <1>1, <1>4 DEF OpenUntilSwap, Opened, ConfigureSteps
<1>8. SwapsOwnStore' /\ ClosesOther'
  BY <1>1, <1>2 DEF StoreInv, SwapsOwnStore, ClosesOther
<1> QED BY <1>5, <1>6, <1>7, <1>8 DEF StoreInv

LEMMA StoreConfigure ==
  ASSUME TypeOK, StoreInv, ~Overlapping,
         NEW c \in Configures, ConfigureCall(c) \/ ConfigureStep(c)
  PROVE  StoreInv'
<1> USE StoreBeforePublish DEF serving, request, Unpublished, Opened
<1>0. pool \in [Configures -> {"none", "open", "closed"}] /\ c \in Procs
  BY DEF TypeOK, Procs
<1>o. pc[c] \in Opened => pool[c] = "open"
  BY DEF StoreInv, OpenUntilSwap
<1>1. CASE ConfigureCall(c)
  <2>1. PICK to \in {"open", "failed"} : Goto(c, "idle", to)
    BY <1>1 DEF ConfigureCall
  <2> QED BY <1>1, <2>1 DEF ConfigureCall
<1>2. CASE OpenPool(c)
  BY <1>0, <1>2 DEF OpenPool, CloseAndFail
<1>3. CASE ImportRead(c)
  <2>1. pool[c] = "open"
    BY <1>o, <1>3 DEF ImportRead, CloseAndFail, Goto
  <2> QED BY <1>0, <1>3, <2>1 DEF ImportRead, CloseAndFail
<1>4. CASE ImportWrite(c)
  <2>1. pool[c] = "open"
    BY <1>o, <1>4 DEF ImportWrite, CloseAndFail, Goto
  <2> QED BY <1>0, <1>4, <2>1 DEF ImportWrite, CloseAndFail
<1>5. CASE ImportReread(c)
  <2>1. pool[c] = "open"
    BY <1>o, <1>5 DEF ImportReread, CloseAndFail, Goto
  <2> QED BY <1>0, <1>5, <2>1 DEF ImportReread, CloseAndFail
<1>6. CASE ConfigureLock(c)
  <2>1. pool[c] = "open"
    BY <1>o, <1>6 DEF ConfigureLock, Acquire, Goto
  <2> QED BY <1>0, <1>6, <2>1 DEF ConfigureLock, Acquire
<1>7. CASE Publish(c)
  BY <1>7, StorePublish
<1>8. CASE SwapPool(c)
  BY <1>8, StoreSwap
<1>9. CASE CloseOld(c)
  BY <1>9, StoreClose
<1> QED BY <1>1, <1>2, <1>3, <1>4, <1>5, <1>6, <1>7, <1>8, <1>9 DEF ConfigureStep

LEMMA StoreSave ==
  ASSUME TypeOK, StoreInv, NEW s \in Saves, SaveCall(s) \/ SaveStep(s)
  PROVE  StoreInv'
<1> USE ConfigAssumption DEF Procs, Handlers
<1>1. /\ \A c \in Configures : pc'[c] = pc[c]
      /\ UNCHANGED <<pool, poolPtr, storePtr, old>>
  BY SaveLeavesPools
<1>2. CurrentStoreOpen' /\ OpenUntilSwap' /\ SwapsOwnStore' /\ ClosesOther' /\ CurrentPoolSwapped'
  BY <1>1
  DEF TypeOK, StoreInv, CurrentStoreOpen, OpenUntilSwap, SwapsOwnStore, ClosesOther,
      CurrentPoolSwapped
<1>3. CASE RefreshBuild(s)
  <2>1. pc[s] = "rebuild" /\ pc'[s] = "done" /\ \A q \in Procs \ {s} : pc'[q] = pc[q]
    BY <1>3, GotoMoves DEF RefreshBuild
  <2>2. live' = s /\ built'[s].store = storePtr
    BY <1>3 DEF RefreshBuild, Rebuild, TypeOK
  <2>3. LiveStoreIsCurrent' /\ RefreshHasStore'
    BY <1>1, <2>1, <2>2 DEF StoreInv, LiveStoreIsCurrent, RefreshHasStore
  <2> QED BY <1>2, <2>3 DEF StoreInv
<1>4. CASE ~RefreshBuild(s)
  <2>1. PICK from, to : /\ Goto(s, from, to)
                        /\ to = "rebuild" => storePtr # None
    BY <1>4 DEF SaveCall, SaveStep, SaveRead, SaveWrite, SaveReconfigure, RefreshLock, Acquire,
      RefreshRead, Usable
  <2>2. pc'[s] = to /\ \A q \in Procs \ {s} : pc'[q] = pc[q]
    BY <2>1, GotoMoves
  <2>3. UNCHANGED <<live, built>>
    BY <1>4 DEF SaveCall, SaveStep, SaveRead, SaveWrite, SaveReconfigure, RefreshLock,
      RefreshRead, serving
  <2>4. LiveStoreIsCurrent' /\ RefreshHasStore'
    BY <1>1, <2>1, <2>2, <2>3 DEF StoreInv, LiveStoreIsCurrent, RefreshHasStore
  <2> QED BY <1>2, <2>4 DEF StoreInv
<1> QED BY <1>3, <1>4

LEMMA StoreNext ==
  ASSUME TypeOK, StoreInv, ~Overlapping, [Next]_vars
  PROVE  StoreInv'
<1>1. CASE \E c \in Configures : ConfigureCall(c) \/ ConfigureStep(c)
  BY <1>1, StoreConfigure
<1>2. CASE \E s \in Saves : SaveCall(s) \/ SaveStep(s)
  BY <1>2, StoreSave
<1>3. CASE Crash
  <2>1. \A p \in Procs : pc'[p] \notin InFlight
    BY <1>3 DEF Crash, TypeOK, InFlight, ConfigureSteps, SaveSteps
  <2>2. storePtr' = None /\ poolPtr' = None /\ live' = Boot
    BY <1>3 DEF Crash
  <2> QED BY <2>1, <2>2
    DEF StoreInv, LiveStoreIsCurrent, RefreshHasStore, CurrentStoreOpen, OpenUntilSwap,
        SwapsOwnStore, ClosesOther, CurrentPoolSwapped, InFlight, ConfigureSteps, SaveSteps,
        Opened, Procs
<1>4. CASE UNCHANGED vars
  BY <1>4
  DEF vars, StoreInv, LiveStoreIsCurrent, RefreshHasStore, CurrentStoreOpen, OpenUntilSwap,
      SwapsOwnStore, ClosesOther, CurrentPoolSwapped
<1> QED BY <1>1, <1>2, <1>3, <1>4 DEF Next

LEMMA StoreInit == Init => StoreInv
<1> SUFFICES ASSUME Init PROVE StoreInv
  OBVIOUS
<1>1. storePtr = None /\ poolPtr = None /\ live = Boot /\ \A p \in Procs : pc[p] = "idle"
  BY DEF Init
<1> QED BY <1>1
  DEF StoreInv, LiveStoreIsCurrent, RefreshHasStore, CurrentStoreOpen, OpenUntilSwap,
      SwapsOwnStore, ClosesOther, CurrentPoolSwapped, Opened, Procs

(* In every behaviour in which no two Configure calls overlap, the store that   *)
(* the live handler captured has an open pool, so that a save, a diagnosis or a *)
(* refresh never fails because a Configure closed the pool under it             *)
(* (main.go:143-156). With overlapping calls this is not so.                    *)
THEOREM SerialStoreIsOpen == Spec => SerialStoreOpen
<1>1. TypeOK /\ StoreInv /\ ~Overlapping /\ [Next]_vars => StoreInv'
  BY StoreNext
<1>2. TypeOK /\ StoreInv => LiveStoreOpen
  BY DEF StoreInv, LiveStoreIsCurrent, CurrentStoreOpen, LiveStoreOpen, Usable
<1> QED BY <1>1, <1>2, StoreInit, TypeCorrect, PTL DEF Spec, SerialStoreOpen

(* A host that waits for an answer before it calls again never lets two calls   *)
(* overlap, so that for such a host the live store is always open.              *)
LEMMA SerialNext ==
  ASSUME TypeOK, HostCalls # "parallel", ~Overlapping, [Next]_vars
  PROVE  ~Overlapping'
<1> USE ConfigAssumption DEF Procs
<1>1. ASSUME NEW c \in Configures, ConfigureCall(c)
      PROVE  ~Overlapping'
  <2>1. PICK to : Goto(c, "idle", to)
    BY <1>1 DEF ConfigureCall
  <2>2. \A q \in Procs \ {c} : pc'[q] = pc[q]
    BY <2>1, GotoMoves
  <2>3. \A d \in Configures : pc[d] \notin ConfigureSteps
    BY <1>1 DEF ConfigureCall, HostMayCall, InFlight
  <2> QED BY <2>2, <2>3 DEF Overlapping
<1>2. ASSUME NEW c \in Configures, ConfigureStep(c)
      PROVE  ~Overlapping'
  <2>1. PICK from, to : from \in ConfigureSteps /\ Goto(c, from, to)
    BY <1>2 DEF ConfigureStep, OpenPool, ImportRead, ImportWrite, ImportReread, CloseAndFail,
      ConfigureLock, Acquire, Publish, SwapPool, CloseOld, ConfigureSteps
  <2>2. pc[c] \in ConfigureSteps /\ \A q \in Procs \ {c} : pc'[q] = pc[q]
    BY <2>1, GotoMoves
  <2> QED BY <2>2 DEF Overlapping
<1>3. CASE \E s \in Saves : SaveCall(s) \/ SaveStep(s)
  BY <1>3, SaveLeavesPools DEF Overlapping
<1>4. CASE Crash
  BY <1>4 DEF Crash, Overlapping, TypeOK, InFlight, ConfigureSteps, SaveSteps
<1>5. CASE UNCHANGED vars
  BY <1>5 DEF vars, Overlapping
<1> QED BY <1>1, <1>2, <1>3, <1>4, <1>5 DEF Next

THEOREM SerialHostKeepsStore ==
  ASSUME HostCalls # "parallel"
  PROVE  Spec => []LiveStoreOpen
<1>1. Init => ~Overlapping
  BY DEF Init, Overlapping, ConfigureSteps, Procs
<1>2. TypeOK /\ ~Overlapping /\ [Next]_vars => ~Overlapping'
  BY SerialNext
<1>3. Spec => []~Overlapping
  BY <1>1, <1>2, TypeCorrect, PTL DEF Spec
<1> QED BY <1>3, SerialStoreIsOpen, PTL DEF SerialStoreOpen
====
