---- MODULE PluginConfig ----
(* How the plugin's configuration is persisted, turned into a running handler   *)
(* and replaced: the host's Configure RPC (internal/runtime, cmd/.../main.go),  *)
(* the admin page's PATCH /admin/config (internal/server), the app_config row   *)
(* (internal/store) and the swappable HTTP handler (internal/httproutes).       *)
(* Every RPC and every PATCH is a process that runs once; its steps are the     *)
(* points where it touches something another process can see.                   *)
EXTENDS Naturals

CONSTANTS
  Configures,      \* host Configure RPCs; one that succeeds names a pool, a store and a handler
  Saves,           \* PATCH requests; one that succeeds names the handler its refresh built
  Boot,            \* the handler main installs before any configuration exists
  None,            \* a nil pointer
  NoClient,        \* no BookWarehouse client: its url or its key is empty
  Blank,           \* the empty string
  Urls, Keys, Secrets, Roots,   \* base_url, api_key, stream_signing_secret, library paths
  DefaultUrl,      \* store.DefaultAppConfig's base_url
  BadUrls,         \* urls ValidateBaseURL refuses
  RelativeRoots,   \* library paths that are not absolute
  HostBodies,      \* configurations the host sends with Configure
  SaveBodies,      \* configurations admins send with PATCH
  HostCalls,       \* when the host may call Configure: "boot", "serial" or "parallel"
  MaxFaults,       \* bound: database statements that fail
  MaxCrashes       \* bound: times the plugin process dies

Procs == Configures \cup Saves
Handlers == Procs \cup {Boot}

Configs == [url : Urls, key : Keys, secret : Secrets, root : Roots]
Versioned == [cfg : Configs, ver : Nat]
Targets == [url : Urls, key : Keys]

DefaultAppConfig == [url |-> DefaultUrl, key |-> Blank, secret |-> Blank, root |-> Blank]

ASSUME ConfigAssumption ==
  /\ Configures \cap Saves = {}
  /\ Boot \notin Procs
  /\ None \notin Handlers
  /\ DefaultAppConfig \in Configs
  /\ DefaultUrl \notin BadUrls
  /\ HostBodies \subseteq Configs
  /\ SaveBodies \subseteq Configs
  /\ NoClient \notin Targets
  /\ HostCalls \in {"boot", "serial", "parallel"}
  /\ MaxFaults \in Nat
  /\ MaxCrashes \in Nat

VARIABLES
  row,        \* the app_config row, with a count of the writes it has seen
  lock,       \* the holder of rebuildMu, or None
  storePtr,   \* main's current store, named by the Configure that opened its pool
  poolPtr,    \* main's current pool
  pool,       \* each Configure's pgx pool: "none", "open" or "closed"
  live,       \* httproutes.Server.handler
  built,      \* what each handler captured: its store and its configuration
  client,     \* where each handler's BookWarehouse client points; changed in place
  pc,         \* control point of every RPC and request
  body,       \* the configuration a process was called with
  local,      \* the row as the process last read it
  via,        \* the handler a request was dispatched to
  old,        \* the pool a Configure swapped out
  wrote,      \* history: the version of the row the process wrote, 0 for none
  faults, crashes

vars == <<row, lock, storePtr, poolPtr, pool, live, built, client,
          pc, body, local, via, old, wrote, faults, crashes>>

ConfigureSteps == {"open", "importRead", "importWrite", "importReread",
                   "lock", "publish", "swap", "close"}
SaveSteps == {"read", "write", "reconfigure", "lock", "refreshRead", "rebuild"}
Ends == {"done", "failed", "writeFailed", "refreshFailed", "dead"}
InFlight == ConfigureSteps \cup SaveSteps

(* The configuration is normalised the same way on every path, so the row '{}'  *)
(* of the migration, a missing row and the defaults decode alike.               *)
FirstRow == [cfg |-> DefaultAppConfig, ver |-> 0]

NewClient(c) ==
  IF c.url # Blank /\ c.key # Blank THEN [url |-> c.url, key |-> c.key] ELSE NoClient

TypeOK ==
  /\ row \in Versioned
  /\ lock \in Procs \cup {None}
  /\ storePtr \in Configures \cup {None}
  /\ poolPtr \in Configures \cup {None}
  /\ pool \in [Configures -> {"none", "open", "closed"}]
  /\ live \in Handlers
  /\ built \in [Handlers -> [store : Configures \cup {None}, conf : Versioned]]
  /\ client \in [Handlers -> Targets \cup {NoClient}]
  /\ pc \in [Procs -> {"idle"} \cup InFlight \cup Ends]
  /\ body \in [Procs -> Configs]
  /\ local \in [Procs -> Versioned]
  /\ via \in [Saves -> Handlers]
  /\ old \in [Configures -> Configures \cup {None}]
  /\ wrote \in [Procs -> Nat]
  /\ faults \in Nat
  /\ crashes \in Nat

Init ==
  /\ row = FirstRow
  /\ lock = None
  /\ storePtr = None
  /\ poolPtr = None
  /\ pool = [c \in Configures |-> "none"]
  /\ live = Boot
  /\ built = [h \in Handlers |-> [store |-> None, conf |-> FirstRow]]
  /\ client = [h \in Handlers |-> NoClient]
  /\ pc = [p \in Procs |-> "idle"]
  /\ body = [p \in Procs |-> DefaultAppConfig]
  /\ local = [p \in Procs |-> FirstRow]
  /\ via = [s \in Saves |-> Boot]
  /\ old = [c \in Configures |-> None]
  /\ wrote = [p \in Procs |-> 0]
  /\ faults = 0
  /\ crashes = 0

----
(* Building blocks                                                              *)

Goto(p, from, to) ==
  /\ pc[p] = from
  /\ pc' = [pc EXCEPT ![p] = to]

Usable(st) == st # None /\ pool[st] = "open"

Fault ==
  /\ faults < MaxFaults
  /\ faults' = faults + 1

(* store.GetAppConfig, in the one statement that reads the row *)
GetAppConfig(p) == local' = [local EXCEPT ![p] = row]

(* store.UpdateAppConfig: the upsert replaces the whole row *)
UpdateAppConfig(p, c) ==
  /\ row' = [cfg |-> c, ver |-> row.ver + 1]
  /\ wrote' = [wrote EXCEPT ![p] = row.ver + 1]

(* Mutant: rebuildMu is not taken. *)
AcquireLockless(p, to) ==
  /\ Goto(p, "lock", to)
  /\ lock' = p

Acquire(p, to) ==
  /\ lock = None
  /\ Goto(p, "lock", to)
  /\ lock' = p

(* main's rebuild: a fresh handler that captures its store and configuration,   *)
(* a fresh client when both the url and the key are set, and the atomic swap.   *)
Rebuild(p, st, v) ==
  /\ built' = [built EXCEPT ![p] = [store |-> st, conf |-> v]]
  /\ client' = [client EXCEPT ![p] = NewClient(v.cfg)]
  /\ live' = p

CloseAndFail(c, from) ==
  /\ Goto(c, from, "failed")
  /\ pool' = [pool EXCEPT ![c] = "closed"]

serving == <<lock, storePtr, poolPtr, live, built, client>>
request == <<body, via, old>>

----
(* The host's Configure RPC                                                     *)

HostMayCall ==
  /\ HostCalls # "parallel" => \A d \in Configures : pc[d] \notin InFlight
  /\ HostCalls = "boot" => live = Boot

Acceptable(b) == b.url \notin BadUrls /\ b.root \notin RelativeRoots

ConfigureCall(c) ==
  /\ HostMayCall
  /\ \E b \in HostBodies :
       /\ Goto(c, "idle", IF Acceptable(b) THEN "open" ELSE "failed")
       /\ body' = [body EXCEPT ![c] = b]
  /\ UNCHANGED <<row, serving, pool, local, via, old, wrote, faults, crashes>>

OpenPool(c) ==
  /\ \/ /\ Goto(c, "open", "importRead")
        /\ pool' = [pool EXCEPT ![c] = "open"]
        /\ UNCHANGED faults
     \/ Fault /\ CloseAndFail(c, "open")
  /\ UNCHANGED <<row, serving, request, local, wrote, crashes>>

(* store.ImportLegacyAppConfig: what the host sent, where it has a url to offer *)
Legacy(c) ==
  IF body[c].url = Blank THEN [body[c] EXCEPT !.url = DefaultUrl] ELSE body[c]

(* Mutant: the import does not look at what is already stored. *)
ImportableAlways(c) == Legacy(c) # row.cfg

Importable(c) == row.cfg = DefaultAppConfig /\ Legacy(c) # row.cfg

ImportRead(c) ==
  /\ \/ /\ Goto(c, "importRead", IF Importable(c) THEN "importWrite" ELSE "lock")
        /\ GetAppConfig(c)
        /\ UNCHANGED <<pool, faults>>
     \/ Fault /\ CloseAndFail(c, "importRead") /\ UNCHANGED local
  /\ UNCHANGED <<row, serving, request, wrote, crashes>>

(* A statement whose answer is lost may or may not have been executed.          *)
ImportWrite(c) ==
  /\ \/ /\ Goto(c, "importWrite", "importReread")
        /\ UpdateAppConfig(c, Legacy(c))
        /\ UNCHANGED <<pool, faults>>
     \/ /\ Fault
        /\ CloseAndFail(c, "importWrite")
        /\ UpdateAppConfig(c, Legacy(c)) \/ UNCHANGED <<row, wrote>>
  /\ UNCHANGED <<serving, request, local, crashes>>

ImportReread(c) ==
  /\ \/ /\ Goto(c, "importReread", "lock")
        /\ GetAppConfig(c)
        /\ UNCHANGED <<pool, faults>>
     \/ Fault /\ CloseAndFail(c, "importReread") /\ UNCHANGED local
  /\ UNCHANGED <<row, serving, request, wrote, crashes>>

ConfigureLock(c) ==
  /\ Acquire(c, "publish")
  /\ UNCHANGED <<row, storePtr, poolPtr, pool, live, built, client,
                 request, local, wrote, faults, crashes>>

(* Mutant: a second Configure leaves the first one's store current. *)
PublishKeepsStore(c) ==
  /\ Goto(c, "publish", "swap")
  /\ storePtr' = IF storePtr = None THEN c ELSE storePtr
  /\ Rebuild(c, c, local[c])
  /\ lock' = None
  /\ UNCHANGED <<row, poolPtr, pool, request, local, wrote, faults, crashes>>

(* storePtr.Store, rebuild and Unlock: nobody looks at storePtr without the lock *)
Publish(c) ==
  /\ Goto(c, "publish", "swap")
  /\ storePtr' = c
  /\ Rebuild(c, c, local[c])
  /\ lock' = None
  /\ UNCHANGED <<row, poolPtr, pool, request, local, wrote, faults, crashes>>

(* Mutant: the pool that was swapped out is forgotten. *)
SwapPoolLeaks(c) ==
  /\ Goto(c, "swap", "done")
  /\ poolPtr' = c
  /\ UNCHANGED <<row, lock, storePtr, pool, live, built, client,
                 request, local, wrote, faults, crashes>>

SwapPool(c) ==
  /\ Goto(c, "swap", IF poolPtr = None THEN "done" ELSE "close")
  /\ old' = [old EXCEPT ![c] = poolPtr]
  /\ poolPtr' = c
  /\ UNCHANGED <<row, lock, storePtr, pool, live, built, client,
                 body, local, via, wrote, faults, crashes>>

CloseOld(c) ==
  /\ Goto(c, "close", "done")
  /\ pool' = [pool EXCEPT ![old[c]] = "closed"]
  /\ UNCHANGED <<row, serving, request, local, wrote, faults, crashes>>

----
(* The admin's PATCH /admin/config                                              *)

(* The handler is loaded once per request; main's first one has no store: 503.  *)
SaveCall(s) ==
  /\ \E b \in SaveBodies :
       /\ Goto(s, "idle", IF built[live].store = None THEN "failed" ELSE "read")
       /\ body' = [body EXCEPT ![s] = b]
  /\ via' = [via EXCEPT ![s] = live]
  /\ UNCHANGED <<row, serving, pool, local, old, wrote, faults, crashes>>

SaveStore(s) == built[via[s]].store

(* The request ends here when the statement fails, the pool is closed or the    *)
(* body is not JSON: nothing has been changed yet.                              *)
SaveRead(s) ==
  /\ \/ /\ Usable(SaveStore(s))
        /\ Goto(s, "read", "write")
        /\ GetAppConfig(s)
     \/ /\ Goto(s, "read", "failed")
        /\ UNCHANGED local
  /\ UNCHANGED <<row, serving, pool, request, wrote, faults, crashes>>

(* Mutant: an absent key is stored as null. *)
MergedNull(s) ==
  IF body[s].key = Blank THEN [body[s] EXCEPT !.key = None] ELSE body[s]

(* An empty api_key keeps the one read a step earlier; everything else is       *)
(* replaced by the body, absent fields included.                                *)
Merged(s) ==
  IF body[s].key = Blank THEN [body[s] EXCEPT !.key = local[s].cfg.key] ELSE body[s]

Refused(s) == body[s].url \in BadUrls \/ ~Usable(SaveStore(s))

SaveWrite(s) ==
  /\ \/ /\ Refused(s)
        /\ Goto(s, "write", "failed")
        /\ UNCHANGED <<row, wrote, faults>>
     \/ /\ ~Refused(s)
        /\ Goto(s, "write", "reconfigure")
        /\ UpdateAppConfig(s, Merged(s))
        /\ UNCHANGED faults
     \/ /\ ~Refused(s)
        /\ Fault
        /\ Goto(s, "write", "writeFailed")
        /\ UpdateAppConfig(s, Merged(s)) \/ UNCHANGED <<row, wrote>>
  /\ UNCHANGED <<serving, pool, request, local, crashes>>

(* bookwarehouse.Client.Reconfigure on the client of the handler that serves    *)
(* this request, which may no longer be the live one; no test for empty values. *)
SaveReconfigure(s) ==
  /\ Goto(s, "reconfigure", "lock")
  /\ client' = IF client[via[s]] = NoClient THEN client
               ELSE [client EXCEPT ![via[s]] =
                       [url |-> Merged(s).url, key |-> Merged(s).key]]
  /\ UNCHANGED <<row, lock, storePtr, poolPtr, pool, live, built,
                 request, local, wrote, faults, crashes>>

RefreshLock(s) ==
  /\ Acquire(s, "refreshRead")
  /\ UNCHANGED <<row, storePtr, poolPtr, pool, live, built, client,
                 request, local, wrote, faults, crashes>>

(* Mutant: the refresh applies the body it was called with, not the row. *)
RefreshReadBody(s) ==
  /\ Goto(s, "refreshRead", "rebuild")
  /\ local' = [local EXCEPT ![s] = [cfg |-> Merged(s), ver |-> wrote[s]]]
  /\ UNCHANGED <<row, serving, pool, request, wrote, faults, crashes>>

(* Mutant: the error path returns without unlocking. *)
RefreshReadKeepsLock(s) ==
  /\ \/ /\ Usable(storePtr)
        /\ Goto(s, "refreshRead", "rebuild")
        /\ GetAppConfig(s)
        /\ UNCHANGED faults
     \/ /\ Goto(s, "refreshRead", "refreshFailed")
        /\ Fault \/ (~Usable(storePtr) /\ UNCHANGED faults)
        /\ UNCHANGED local
  /\ UNCHANGED <<row, serving, pool, request, wrote, crashes>>

RefreshRead(s) ==
  /\ \/ /\ Usable(storePtr)
        /\ Goto(s, "refreshRead", "rebuild")
        /\ GetAppConfig(s)
        /\ UNCHANGED <<lock, faults>>
     \/ /\ Goto(s, "refreshRead", "refreshFailed")
        /\ Fault \/ (~Usable(storePtr) /\ UNCHANGED faults)
        /\ lock' = None
        /\ UNCHANGED local
  /\ UNCHANGED <<row, storePtr, poolPtr, pool, live, built, client,
                 request, wrote, crashes>>

RefreshBuild(s) ==
  /\ Goto(s, "rebuild", "done")
  /\ Rebuild(s, storePtr, local[s])
  /\ lock' = None
  /\ UNCHANGED <<row, storePtr, poolPtr, pool, request, local, wrote, faults, crashes>>

----
(* The plugin process dies and is started again: only the row survives.         *)
Crash ==
  /\ crashes < MaxCrashes
  /\ crashes' = crashes + 1
  /\ pc' = [p \in Procs |-> IF pc[p] \in InFlight THEN "dead" ELSE pc[p]]
  /\ lock' = None
  /\ storePtr' = None
  /\ poolPtr' = None
  /\ pool' = [c \in Configures |-> IF pool[c] = "open" THEN "closed" ELSE pool[c]]
  /\ live' = Boot
  /\ built' = [h \in Handlers |-> [store |-> None, conf |-> FirstRow]]
  /\ client' = [h \in Handlers |-> NoClient]
  /\ UNCHANGED <<row, request, local, wrote, faults>>

ConfigureStep(c) ==
  \/ OpenPool(c) \/ ImportRead(c) \/ ImportWrite(c) \/ ImportReread(c)
  \/ ConfigureLock(c) \/ Publish(c) \/ SwapPool(c) \/ CloseOld(c)

SaveStep(s) ==
  \/ SaveRead(s) \/ SaveWrite(s) \/ SaveReconfigure(s)
  \/ RefreshLock(s) \/ RefreshRead(s) \/ RefreshBuild(s)

Next ==
  \/ \E c \in Configures : ConfigureCall(c) \/ ConfigureStep(c)
  \/ \E s \in Saves : SaveCall(s) \/ SaveStep(s)
  \/ Crash

Spec == Init /\ [][Next]_vars

(* Every started RPC or request is run by its goroutine until it returns; the   *)
(* database answers every statement, if only with an error; rebuildMu is handed *)
(* to a waiter whenever it is free. Calls, failures and crashes are not owed.   *)
Fairness ==
  /\ \A c \in Configures : WF_vars(ConfigureStep(c))
  /\ \A s \in Saves : WF_vars(SaveStep(s))

FairSpec == Spec /\ Fairness

----
(* Properties                                                                   *)

Quiescent == \A p \in Procs : pc[p] \notin InFlight

LiveConf == built[live].conf

(* When nothing is in flight, the live handler serves the persisted row and its *)
(* client points where the row says, unless the admin whose save produced the   *)
(* row was told that it failed (server.go:105-122 against main.go:103-115).     *)
LiveConfigIsPersisted ==
  (Quiescent /\ live # Boot) =>
    \/ LiveConf = row /\ client[live] = NewClient(row.cfg)
    \/ \E s \in Saves : wrote[s] = row.ver /\ pc[s] \in {"writeFailed", "refreshFailed"}

(* However the host's calls overlap with saves, a live handler built by a save's *)
(* refresh is not stale: a stale one was built by a Configure (which reads the   *)
(* row before it takes rebuildMu, main.go:135-145), or the call that wrote the   *)
(* row reported an error.                                                        *)
SavesServeTheRow ==
  (Quiescent /\ live \in Saves) =>
    \/ LiveConf = row /\ client[live] = NewClient(row.cfg)
    \/ \E p \in Procs :
         wrote[p] = row.ver /\ pc[p] \in {"failed", "writeFailed", "refreshFailed"}

(* A save answered 200 is in force from then on: whatever handler is live was   *)
(* built from the row that save wrote or from a later one.                      *)
AckedSaveIsLive ==
  \A s \in Saves : pc[s] = "done" => live = Boot \/ LiveConf.ver >= wrote[s]

(* The import of the host's legacy configuration only ever replaces the         *)
(* defaults, never what an admin saved: store.go:76-96 looks at the row and     *)
(* overwrites it in two statements, with the whole row as the unit.             *)
ImportReplacesDefaults ==
  [][(\E c \in Configures : wrote'[c] # wrote[c]) => row.cfg = DefaultAppConfig]_vars

(* The live handler's store, which answers the next save and the diagnostics,   *)
(* never has a closed pool (main.go:144-153 publishes, then closes the old).    *)
LiveStoreOpen == live # Boot => Usable(built[live].store)

(* As long as the host calls Configure one at a time, the store that the live   *)
(* handler captured has an open pool: the one that SwapPool closes belongs to a *)
(* handler that is no longer live (main.go:143-156).                            *)
Overlapping == \E c, d \in Configures : c # d /\ {pc[c], pc[d]} \subseteq ConfigureSteps

SerialStoreOpen == []~Overlapping => []LiveStoreOpen

(* When nothing is in flight the one pool still open is the current one: none   *)
(* leaks, on the error paths of Configure either.                               *)
NoPoolLeak ==
  Quiescent => \A c \in Configures : pool[c] = "open" => c = poolPtr

(* Every Configure RPC and every PATCH returns, whatever the others do and      *)
(* however their statements fail (the lock is released on every path).          *)
EveryCallReturns ==
  \A p \in Procs : pc[p] \in InFlight ~> pc[p] \notin InFlight

LC == INSTANCE LiveConfig WITH
  Nothing <- None,
  stored <- row.ver,
  serving <- IF live = Boot THEN None ELSE LiveConf.ver,
  promised <- {wrote[s] : s \in {x \in Saves : pc[x] = "done"}}

(* The plugin keeps the promise of LiveConfig: what is served only moves to     *)
(* newer rows, and an acknowledged save is served from then on.                 *)
KeepsPromise == LC!Spec

(* What the documents say of the configuration, and the code does not do.        *)

(* "Empty input on Save keeps the previously stored key"                         *)
(* (docs/setup-debug-flows.md:39): whatever key is stored when a save that       *)
(* carries none is written is still stored after it.                             *)
BlankKeyKeepsStored ==
  [][\A s \in Saves :
       wrote'[s] # wrote[s] /\ body[s].key = Blank => row'.cfg.key = row.cfg.key]_vars
====
