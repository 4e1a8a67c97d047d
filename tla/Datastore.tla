----------------------------- MODULE Datastore -----------------------------
(***************************************************************************)
(* The shared-memory data update of OSRM: osrm-datastore processes         *)
(* (Stores) load a dataset into System V segments and swap it in under     *)
(* the feet of running osrm-routed processes (Routers), whose watchdog     *)
(* threads sleep on the condition variable of the register of regions.     *)
(*                                                                         *)
(*   src/storage/storage.cpp              setupRegion, swapData, Run       *)
(*   include/storage/shared_datatype.hpp  SharedRegionRegister             *)
(*   include/storage/shared_monitor.hpp   the mutex and the ring of        *)
(*                                        semaphores                       *)
(*   include/storage/shared_memory.hpp    segments, Remove, WaitForDetach  *)
(*   include/engine/data_watchdog.hpp     the watchdog of a router         *)
(*                                                                         *)
(* There is one dataset name, hence two regions. A segment is named by     *)
(* its kind and by the run of osrm-datastore that created it; shm maps a   *)
(* key to the segment a process that attaches by that key would get. A     *)
(* segment marked for destruction is at no key any more and lives as long  *)
(* as a facade holds it. The register is an object of its own that         *)
(* --remove-locks and the signal handlers of osrm-datastore unlink:        *)
(* processes that mapped it keep it, the next store makes a new one, so    *)
(* the register's fields are functions of a generation.                    *)
(***************************************************************************)
EXTENDS Integers, Sequences, FiniteSets

CONSTANTS
  Stores,         \* osrm-datastore processes
  Routers,        \* osrm-routed processes with --shared-memory
  MaxKeys,        \* bound: SharedRegionRegister::MAX_SHM_KEYS
  RingLimit,      \* bound: half the size of the ring of semaphores
  MaxRuns,        \* bound: runs of osrm-datastore
  MaxGens,        \* bound: register objects made
  MaxDeaths,      \* bound: processes killed
  MayTimeOut,     \* whether --max-wait is given
  MetricRuns,     \* whether --only-metric is used
  Dead,           \* the holder of a mutex whose process is gone
  None

Keys  == 0..(MaxKeys - 1)
Runs  == 1..MaxRuns
Gens  == 1..MaxGens
Kinds == {"static", "updatable"}
Segs  == [kind : Kinds, run : Runs]
Facades == [Kinds -> Segs]   \* of one allocator: what its two keys led to
Lost  == <<"lost">>          \* what a router on a removed register serves

ASSUME ConstantsAssumption ==
  /\ MaxKeys \in Nat \ {0} /\ RingLimit \in Nat \ {0}
  /\ MaxRuns \in Nat \ {0} /\ MaxGens \in Nat \ {0} /\ MaxDeaths \in Nat
  /\ {MayTimeOut, MetricRuns} \subseteq BOOLEAN
  /\ Stores \cap Routers = {} /\ Dead \notin Stores \cup Routers
  /\ None \notin Stores \cup Routers \cup Segs \cup Keys \cup [Kinds -> Segs \cup {None}] \cup {Dead}
  /\ None # Lost

VARIABLES
  \* the operating system
  fileLock,   \* holder of osrm-datastore.lock
  shm,        \* [Keys -> Segs \cup {None}]
  filled,     \* segments whose data is loaded
  \* the register objects
  named,      \* generation found under the name "osrm-region", 0 when there is none
  gens,       \* generations made so far
  region,     \* [Gens -> [Kinds -> [key, time]]], time 0: an empty region
  inUse,      \* [Gens -> SUBSET Keys], shm_key_in_use
  mutex,      \* [Gens -> Stores \cup Routers \cup {Dead, None}]
  ring,       \* [Gens -> Seq(Routers \cup {Dead})], queued semaphores
  posted,     \* routers whose semaphore was posted
  \* osrm-datastore
  runs,       \* runs begun
  base,       \* [Runs -> 0..MaxRuns], the static run a run's metric belongs to
  sPC, sGen, sRun,
  sStatic,    \* the run whose static region --only-metric attached, 0 without it
  sNew,       \* [Stores -> [Kinds -> Keys \cup {None}]], keys of the new regions
  sOld,       \* [Stores -> Seq([key, seg])], handles of the regions swapped out
  \* osrm-routed
  rPC,        \* where the constructor, later the watchdog thread, is
  rMain,      \* where the main thread is: "serve" is active = true
  rGen, rSeen, rFacade,
  rHeld,      \* facades that running queries hold
  \* history: the pair of segments last swapped in, in each register
  published,
  \* faults
  deaths, removals, abandoned

osVars     == <<fileLock, shm, filled>>
regVars    == <<named, gens, region, inUse, mutex, ring, posted>>
storeVars  == <<runs, base, sPC, sGen, sRun, sStatic, sNew, sOld>>
routerVars == <<rPC, rMain, rGen, rSeen, rFacade, rHeld>>
faultVars  == <<deaths, removals, abandoned>>
vars == <<osVars, regVars, storeVars, routerVars, published, faultVars>>

EmptyRegion == [key |-> 0, time |-> 0]
NoKeys      == [k \in Kinds |-> None]

Init ==
  /\ fileLock = None /\ shm = [k \in Keys |-> None] /\ filled = {}
  /\ named = 0 /\ gens = 0 /\ posted = {}
  /\ region = [g \in Gens |-> [k \in Kinds |-> EmptyRegion]]
  /\ inUse = [g \in Gens |-> {}]
  /\ mutex = [g \in Gens |-> None]
  /\ ring = [g \in Gens |-> <<>>]
  /\ runs = 0 /\ base = [v \in Runs |-> 0]
  /\ sPC = [w \in Stores |-> "idle"] /\ sGen = [w \in Stores |-> 0]
  /\ sRun = [w \in Stores |-> 0] /\ sStatic = [w \in Stores |-> 0]
  /\ sNew = [w \in Stores |-> NoKeys] /\ sOld = [w \in Stores |-> <<>>]
  /\ rPC = [r \in Routers |-> "down"] /\ rMain = [r \in Routers |-> "serve"]
  /\ rGen = [r \in Routers |-> 0]
  /\ rSeen = [r \in Routers |-> [k \in Kinds |-> EmptyRegion]]
  /\ rFacade = [r \in Routers |-> None] /\ rHeld = [r \in Routers |-> {}]
  /\ published = [g \in Gens |-> None]
  /\ deaths = 0 /\ removals = 0 /\ abandoned = 0

-----------------------------------------------------------------------------
(* The register and the segments.                                          *)

Registered(g, k) == region[g][k].time > 0
RegisteredKeys(g) == {region[g][k].key : k \in {k \in Kinds : Registered(g, k)}}

\* The segments the two registered keys lead to.
AtRegister(g) == [k \in Kinds |-> shm[region[g][k].key]]

\* shm_nattch > 1: somebody but the waiting store is attached.
HeldByAnyone(s) == \E k \in Kinds : s.kind = k

HeldByRouters(s) ==
  \E r \in Routers : \E f \in rHeld[r] \cup ({rFacade[r]} \ {None}) :
    \E k \in Kinds : f[k] = s

\* ReserveKey takes the first key that is not in use.
KeyByCount(g)   == Cardinality(inUse[g])

FirstFree(g) == CHOOSE k \in Keys \ inUse[g] : \A j \in Keys \ inUse[g] : k <= j

KeepKey(g, k) == UNCHANGED inUse

ReleaseKey(g, k) == inUse' = [inUse EXCEPT ![g] = @ \ {k}]

RemoveSegments(ks) == shm' = [k \in Keys |-> IF k \in ks THEN None ELSE shm[k]]

\* Locking the register's mutex.
TakeAnyway(p, g) == mutex' = [mutex EXCEPT ![g] = p]

Lock(p, g) == mutex[g] = None /\ mutex' = [mutex EXCEPT ![g] = p]

\* notify_all: the mutex is taken, every queued semaphore is posted.
NotifyAll(g) ==
  /\ mutex[g] = None
  /\ posted' = posted \cup {r \in Routers : \E i \in DOMAIN ring[g] : ring[g][i] = r}
  /\ ring' = [ring EXCEPT ![g] = <<>>]

-----------------------------------------------------------------------------
(* osrm-datastore.                                                         *)

Goto(w, pc) == sPC' = [sPC EXCEPT ![w] = pc]

\* The process ends: the file lock and every segment it had attached go.
Leave(w) ==
  /\ Goto(w, "idle")
  /\ fileLock' = None
  /\ sGen' = [sGen EXCEPT ![w] = 0] /\ sRun' = [sRun EXCEPT ![w] = 0]
  /\ sStatic' = [sStatic EXCEPT ![w] = 0]
  /\ sNew' = [sNew EXCEPT ![w] = NoKeys] /\ sOld' = [sOld EXCEPT ![w] = <<>>]

\* Storage::Run up to the first region: the exclusive file lock, then the
\* register, which is made when there is none. Given a full dataset the run's
\* metric is its own. --only-metric needs a static region, which it attaches,
\* and gets a metric somebody computed for some dataset loaded before.
Begin(w) ==
  /\ sPC[w] = "idle" /\ fileLock = None /\ runs < MaxRuns
  /\ named = 0 => gens < MaxGens
  /\ gens' = IF named = 0 THEN gens + 1 ELSE gens
  /\ named' = IF named = 0 THEN gens' ELSE named
  /\ sGen' = [sGen EXCEPT ![w] = named']
  /\ \/ /\ fileLock' = w /\ runs' = runs + 1
        /\ sRun' = [sRun EXCEPT ![w] = runs']
        /\ sStatic' = [sStatic EXCEPT ![w] = 0]
        /\ base' = [base EXCEPT ![runs'] = runs']
        /\ Goto(w, "static")
     \/ /\ MetricRuns /\ named # 0
        /\ Registered(named, "static") /\ shm[region[named]["static"].key] # None
        /\ fileLock' = w /\ runs' = runs + 1
        /\ sRun' = [sRun EXCEPT ![w] = runs']
        /\ sStatic' = [sStatic EXCEPT ![w] = shm[region[named]["static"].key].run]
        /\ \E d \in {base[v] : v \in 1..runs} : base' = [base EXCEPT ![runs'] = d]
        /\ Goto(w, "updatable")
  /\ UNCHANGED <<shm, filled, region, inUse, mutex, ring, posted, sNew, sOld,
                 routerVars, faultVars, published>>

\* --only-metric without a static region throws, but a register is there now.
MetricRefused(w) ==
  /\ MetricRuns /\ sPC[w] = "idle" /\ fileLock = None
  /\ named = 0 /\ gens < MaxGens
  /\ gens' = gens + 1 /\ named' = gens'
  /\ UNCHANGED <<osVars, region, inUse, mutex, ring, posted, storeVars, routerVars, published,
                 faultVars>>

\* setupRegion: reserve a key, remove what a failed run left at it, make the
\* segment. With every key in use ReserveKey throws and the process ends.
SetupRegion(w, kind) ==
  /\ sPC[w] = kind
  /\ LET g == sGen[w]
         k == FirstFree(g)
     IN  \/ /\ inUse[g] # Keys
            /\ inUse' = [inUse EXCEPT ![g] = @ \cup {k}]
            /\ shm' = [shm EXCEPT ![k] = [kind |-> kind, run |-> sRun[w]]]
            /\ sNew' = [sNew EXCEPT ![w][kind] = k]
            /\ Goto(w, IF kind = "static" THEN "updatable" ELSE "populate")
            /\ UNCHANGED <<fileLock, sGen, sRun, sStatic, sOld, abandoned>>
         \/ /\ inUse[g] = Keys
            /\ Leave(w)
            /\ abandoned' = 1
            /\ UNCHANGED <<shm, inUse>>
  /\ UNCHANGED <<filled, named, gens, region, mutex, ring, posted, runs, base,
                 routerVars, deaths, removals, published>>

\* The connectivity checksum of a metric is compared with that of the static
\* data: the data just loaded or, with --only-metric, the region attached.
ChecksumsAgree(w) == sStatic[w] # 0 => base[sRun[w]] = sStatic[w]

\* PopulateStaticData and PopulateUpdatableData copy the files.
Populate(w) ==
  /\ sPC[w] = "populate" /\ ChecksumsAgree(w)
  /\ filled' = filled \cup {[kind |-> k, run |-> sRun[w]] : k \in {k \in Kinds : sNew[w][k] # None}}
  /\ Goto(w, "lock")
  /\ UNCHANGED <<fileLock, shm, regVars, runs, base, sGen, sRun, sStatic, sNew, sOld,
                 routerVars, faultVars, published>>

\* readGraph is followed by a throw: key and segment stay, the process ends.
MetricMismatch(w) ==
  /\ sPC[w] = "populate" /\ ~ChecksumsAgree(w)
  /\ abandoned' = 1
  /\ Leave(w)
  /\ UNCHANGED <<shm, filled, regVars, runs, base, routerVars, deaths, removals, published>>

\* swapData takes the mutex.
LockRegister(w) ==
  /\ sPC[w] = "lock"
  /\ Lock(w, sGen[w])
  /\ Goto(w, IF sStatic[w] # 0 THEN "swap updatable" ELSE "swap static")
  /\ UNCHANGED <<osVars, named, gens, region, inUse, ring, posted, runs, base, sGen, sRun,
                 sStatic, sNew, sOld, routerVars, faultVars, published>>

\* timed_lock gives up after max_wait seconds: the new segments are removed,
\* their keys stay in use.
TimeOut(w) ==
  /\ MayTimeOut /\ sPC[w] = "lock" /\ mutex[sGen[w]] # None
  /\ RemoveSegments({sNew[w][k] : k \in Kinds})
  /\ abandoned' = 1
  /\ Leave(w)
  /\ UNCHANGED <<filled, regVars, runs, base, routerVars, deaths, removals, published>>

\* One turn of swapData's loop over the handles, in the order of their names.
SwapRegion(w, kind) ==
  /\ sPC[w] = (IF kind = "static" THEN "swap static" ELSE "swap updatable")
  /\ LET g == sGen[w]
         old == region[g][kind]
     IN  /\ Registered(g, kind) => shm[old.key] # None
         /\ region' = [region EXCEPT ![g][kind] = [key |-> sNew[w][kind], time |-> old.time + 1]]
         /\ published' = IF kind = "updatable"
                           THEN [published EXCEPT ![g] = [k \in Kinds |-> shm[region'[g][k].key]]]
                           ELSE published
         /\ sOld' = IF Registered(g, kind)
                      THEN [sOld EXCEPT ![w] = Append(@, [key |-> old.key, seg |-> shm[old.key]])]
                      ELSE sOld
  /\ sNew' = [sNew EXCEPT ![w][kind] = None]
  /\ Goto(w, IF kind = "static" THEN "swap updatable" ELSE "unlock")
  /\ UNCHANGED <<osVars, named, gens, inUse, mutex, ring, posted, runs, base, sGen, sRun,
                 sStatic, routerVars, faultVars>>

\* End of the lock's scope, then notify_all.
UnlockRegister(w) ==
  /\ sPC[w] = "unlock"
  /\ mutex' = [mutex EXCEPT ![sGen[w]] = None]
  /\ Goto(w, "notify")
  /\ UNCHANGED <<osVars, named, gens, region, inUse, ring, posted, runs, base, sGen, sRun,
                 sStatic, sNew, sOld, routerVars, faultVars, published>>

NotifyRouters(w) ==
  /\ sPC[w] = "notify"
  /\ NotifyAll(sGen[w])
  /\ Goto(w, "retire")
  /\ UNCHANGED <<osVars, named, gens, region, inUse, mutex, runs, base, sGen, sRun, sStatic,
                 sNew, sOld, routerVars, faultVars, published>>

\* The loop over the old handles: mark the segment for destruction,
MarkOld(w) ==
  /\ sPC[w] = "retire" /\ sOld[w] # <<>> /\ shm[Head(sOld[w]).key] # None
  /\ RemoveSegments({Head(sOld[w]).key})
  /\ Goto(w, "detach")
  /\ UNCHANGED <<fileLock, filled, regVars, runs, base, sGen, sRun, sStatic, sNew, sOld,
                 routerVars, faultVars, published>>

\* wait until nobody else is attached to it, give its key back.
ReleaseOld(w) ==
  /\ sPC[w] = "detach" /\ ~HeldByRouters(Head(sOld[w]).seg)
  /\ ReleaseKey(sGen[w], Head(sOld[w]).key)
  /\ sOld' = [sOld EXCEPT ![w] = Tail(@)]
  /\ Goto(w, "retire")
  /\ UNCHANGED <<osVars, named, gens, region, mutex, ring, posted, runs, base, sGen, sRun,
                 sStatic, sNew, routerVars, faultVars, published>>

Finish(w) ==
  /\ sPC[w] = "retire" /\ sOld[w] = <<>>
  /\ Leave(w)
  /\ UNCHANGED <<shm, filled, regVars, runs, base, routerVars, faultVars, published>>

\* The process is killed, or an exception (a file that cannot be read) ends it:
\* the keys it reserved stay in use, its segments stay at their keys and a
\* mutex it holds stays locked.
StoreDies(w) ==
  /\ sPC[w] # "idle" /\ deaths < MaxDeaths
  /\ deaths' = deaths + 1
  /\ mutex' = [mutex EXCEPT ![sGen[w]] = IF @ = w THEN Dead ELSE @]
  /\ Leave(w)
  /\ UNCHANGED <<shm, filled, named, gens, region, inUse, ring, posted, runs, base, routerVars,
                 removals, abandoned, published>>

\* A segment --spring-clean took away cannot be attached or removed: the
\* exception frees the mutex and ends the process, between two regions too.
SegmentGone(w) ==
  /\ LET g == sGen[w]
         gone(kind) == Registered(g, kind) /\ shm[region[g][kind].key] = None
     IN  \/ sPC[w] = "swap static" /\ gone("static")
         \/ sPC[w] = "swap updatable" /\ gone("updatable")
         \/ sPC[w] = "retire" /\ sOld[w] # <<>> /\ shm[Head(sOld[w]).key] = None
  /\ mutex' = [mutex EXCEPT ![sGen[w]] = IF @ = w THEN None ELSE @]
  /\ abandoned' = 1
  /\ Leave(w)
  /\ UNCHANGED <<shm, filled, named, gens, region, inUse, ring, posted, runs, base, routerVars,
                 deaths, removals, published>>

\* --remove-locks, and the handler of SIGTERM and its like in every store,
\* the one that waits for the file lock included.
RemoveLocks ==
  /\ named # 0 /\ gens < MaxGens
  /\ named' = 0 /\ removals' = removals + 1
  /\ UNCHANGED <<osVars, gens, region, inUse, mutex, ring, posted, storeVars, routerVars,
                 deaths, abandoned, published>>

\* --spring-clean does so after it has removed every segment.
SpringClean ==
  /\ named # 0 /\ gens < MaxGens
  /\ RemoveSegments(Keys)
  /\ named' = 0 /\ removals' = removals + 1
  /\ UNCHANGED <<fileLock, filled, gens, region, inUse, mutex, ring, posted, storeVars, routerVars,
                 deaths, abandoned, published>>

-----------------------------------------------------------------------------
(* osrm-routed: the constructor of the watchdog and its thread.            *)

AlwaysActive(r) == rGen[r] \in Gens

Active(r) == rMain[r] = "serve"

RGoto(r, pc) == rPC' = [rPC EXCEPT ![r] = pc]

\* The process ends.
Quit(r) ==
  /\ RGoto(r, "down")
  /\ rMain' = [rMain EXCEPT ![r] = "serve"]
  /\ rGen' = [rGen EXCEPT ![r] = 0]
  /\ rSeen' = [rSeen EXCEPT ![r] = [k \in Kinds |-> EmptyRegion]]
  /\ rFacade' = [rFacade EXCEPT ![r] = None]

\* The process opens the register; there must be one.
Start(r) ==
  /\ rPC[r] = "down" /\ named # 0
  /\ rGen' = [rGen EXCEPT ![r] = named]
  /\ rMain' = [rMain EXCEPT ![r] = "serve"]
  /\ RGoto(r, "starting")
  /\ UNCHANGED <<osVars, regVars, storeVars, rSeen, rFacade, rHeld, faultVars, published>>

\* Who wants the mutex takes it: the constructor, the thread's loop while the
\* process is active, a waiter that was woken.
LockWatch(r) ==
  /\ \/ rPC[r] \in {"starting", "woken"}
     \/ rPC[r] = "loop" /\ Active(r)
  /\ Lock(r, rGen[r])
  /\ RGoto(r, IF rPC[r] = "starting" THEN "reading" ELSE "watching")
  /\ UNCHANGED <<osVars, named, gens, region, inUse, ring, posted, storeVars, rMain, rGen,
                 rSeen, rFacade, rHeld, faultVars, published>>

\* Both regions found: copy them, attach their segments, start the thread.
\* Otherwise the constructor throws.
Construct(r) ==
  /\ rPC[r] = "reading"
  /\ LET g == rGen[r]
     IN  \/ /\ \A k \in Kinds : Registered(g, k) /\ AtRegister(g)[k] # None
            /\ rSeen' = [rSeen EXCEPT ![r] = region[g]]
            /\ rFacade' = [rFacade EXCEPT ![r] = AtRegister(g)]
            /\ RGoto(r, "loop")
            /\ UNCHANGED <<rMain, rGen>>
         \/ /\ \E k \in Kinds : ~Registered(g, k)
            /\ Quit(r)
  /\ mutex' = [mutex EXCEPT ![rGen[r]] = None]
  /\ UNCHANGED <<osVars, named, gens, region, inUse, ring, posted, storeVars, rHeld, faultVars,
                 published>>

Unchanged(r) == \A k \in Kinds : rSeen[r][k].time = region[rGen[r]][k].time

\* Nothing new: wait queues a semaphore and lets the mutex go.
Sleep(r) ==
  /\ rPC[r] = "watching" /\ Active(r) /\ Unchanged(r)
  /\ Len(ring[rGen[r]]) + 1 < RingLimit
  /\ ring' = [ring EXCEPT ![rGen[r]] = Append(@, r)]
  /\ mutex' = [mutex EXCEPT ![rGen[r]] = None]
  /\ RGoto(r, "asleep")
  /\ UNCHANGED <<osVars, named, gens, region, inUse, posted, storeVars, rMain, rGen, rSeen,
                 rFacade, rHeld, faultVars, published>>

Wake(r) ==
  /\ rPC[r] = "asleep" /\ r \in posted
  /\ posted' = posted \ {r}
  /\ RGoto(r, "woken")
  /\ UNCHANGED <<osVars, named, gens, region, inUse, mutex, ring, storeVars, rMain, rGen, rSeen,
                 rFacade, rHeld, faultVars, published>>

\* New data: copy the regions that changed and attach both segments while the
\* mutex is held. A segment that is gone makes the thread throw, which ends the
\* process (RouterDies).
SwitchFacade(r) ==
  /\ rPC[r] = "watching" /\ Active(r) /\ ~Unchanged(r)
  /\ LET seen == [k \in Kinds |-> IF rSeen[r][k].time # region[rGen[r]][k].time
                                    THEN region[rGen[r]][k] ELSE rSeen[r][k]]
         facade == [k \in Kinds |-> shm[seen[k].key]]
     IN  /\ \A k \in Kinds : facade[k] # None
         /\ rSeen' = [rSeen EXCEPT ![r] = seen]
         /\ rFacade' = [rFacade EXCEPT ![r] = facade]
  /\ mutex' = [mutex EXCEPT ![rGen[r]] = None]
  /\ RGoto(r, "loop")
  /\ UNCHANGED <<osVars, named, gens, region, inUse, ring, posted, storeVars, rMain, rGen,
                 rHeld, faultVars, published>>

\* The thread finds active = false, with or without the mutex.
StopWatching(r) ==
  /\ rPC[r] \in {"loop", "watching"} /\ ~Active(r)
  /\ mutex' = [mutex EXCEPT ![rGen[r]] = IF rPC[r] = "watching" THEN None ELSE @]
  /\ RGoto(r, "stopped")
  /\ UNCHANGED <<osVars, named, gens, region, inUse, ring, posted, storeVars, rMain, rGen, rSeen,
                 rFacade, rHeld, faultVars, published>>

\* Get hands the facade to a query, which keeps its segments attached.
BeginQuery(r) ==
  /\ rFacade[r] # None /\ rMain[r] = "serve" /\ rFacade[r] \notin rHeld[r]
  /\ rHeld' = [rHeld EXCEPT ![r] = @ \cup {rFacade[r]}]
  /\ UNCHANGED <<osVars, regVars, storeVars, rPC, rMain, rGen, rSeen, rFacade, faultVars, published>>

EndQuery(r, f) ==
  /\ f \in rHeld[r]
  /\ rHeld' = [rHeld EXCEPT ![r] = @ \ {f}]
  /\ UNCHANGED <<osVars, regVars, storeVars, rPC, rMain, rGen, rSeen, rFacade, faultVars, published>>

\* The destructor: active = false, notify_all, join. The server has stopped.
Shutdown(r) ==
  /\ rFacade[r] # None /\ rMain[r] = "serve" /\ rHeld[r] = {}
  /\ rMain' = [rMain EXCEPT ![r] = "notify"]
  /\ UNCHANGED <<osVars, regVars, storeVars, rPC, rGen, rSeen, rFacade, rHeld, faultVars, published>>

WakeThread(r) ==
  /\ rMain[r] = "notify"
  /\ NotifyAll(rGen[r])
  /\ rMain' = [rMain EXCEPT ![r] = "join"]
  /\ UNCHANGED <<osVars, named, gens, region, inUse, mutex, storeVars, rPC, rGen, rSeen, rFacade,
                 rHeld, faultVars, published>>

Join(r) ==
  /\ rMain[r] = "join" /\ rPC[r] = "stopped"
  /\ Quit(r)
  /\ UNCHANGED <<osVars, regVars, storeVars, rHeld, faultVars, published>>

\* The process dies: its segments are detached, its queued semaphore stays in
\* the ring, a mutex it holds stays locked.
Vanish(r) ==
  /\ Quit(r)
  /\ rHeld' = [rHeld EXCEPT ![r] = {}]
  /\ posted' = posted \ {r}
  /\ mutex' = [g \in Gens |-> IF mutex[g] = r THEN Dead ELSE mutex[g]]
  /\ deaths' = deaths + 1
  /\ UNCHANGED <<osVars, named, gens, region, inUse, storeVars, removals, abandoned, published>>

RouterDies(r) ==
  /\ rPC[r] # "down" /\ deaths < MaxDeaths
  /\ ring' = [g \in Gens |-> [i \in DOMAIN ring[g] |-> IF ring[g][i] = r THEN Dead ELSE ring[g][i]]]
  /\ Vanish(r)

\* enqueue_semaphore throws when the ring is half full. Nothing catches it in
\* the thread: the process ends with the mutex locked and the ring's head moved.
RingFull(r) ==
  /\ rPC[r] = "watching" /\ Active(r) /\ Unchanged(r)
  /\ Len(ring[rGen[r]]) + 1 >= RingLimit
  /\ ring' = [ring EXCEPT ![rGen[r]] = Append(@, Dead)]
  /\ Vanish(r)

-----------------------------------------------------------------------------
StoreNext(w) ==
  \/ Begin(w) \/ MetricRefused(w) \/ \E k \in Kinds : SetupRegion(w, k)
  \/ Populate(w) \/ MetricMismatch(w) \/ LockRegister(w) \/ TimeOut(w)
  \/ \E k \in Kinds : SwapRegion(w, k)
  \/ UnlockRegister(w) \/ NotifyRouters(w) \/ MarkOld(w) \/ ReleaseOld(w)
  \/ Finish(w) \/ StoreDies(w) \/ SegmentGone(w)

RouterNext(r) ==
  \/ Start(r) \/ LockWatch(r) \/ Construct(r) \/ Sleep(r) \/ Wake(r) \/ SwitchFacade(r)
  \/ StopWatching(r) \/ BeginQuery(r) \/ (\E f \in rHeld[r] : EndQuery(r, f)) \/ Shutdown(r) \/ WakeThread(r)
  \/ Join(r) \/ RouterDies(r) \/ RingFull(r)

Next ==
  \/ \E w \in Stores : StoreNext(w)
  \/ \E r \in Routers : RouterNext(r)
  \/ RemoveLocks
  \/ SpringClean

Spec == Init /\ [][Next]_vars

(***************************************************************************)
(* Every process keeps running. A mutex or the sharing of it is not fair   *)
(* by itself, but each holder lets it go after a bounded piece of work, so *)
(* who keeps asking gets it: strong fairness. Queries on a facade that     *)
(* was replaced end one after the other.                                   *)
(***************************************************************************)
FairStore(w) ==
  /\ WF_vars(\E k \in Kinds : SetupRegion(w, k))
  /\ WF_vars(Populate(w)) /\ WF_vars(MetricMismatch(w)) /\ SF_vars(LockRegister(w))
  /\ WF_vars(\E k \in Kinds : SwapRegion(w, k))
  /\ WF_vars(UnlockRegister(w)) /\ SF_vars(NotifyRouters(w))
  /\ WF_vars(SegmentGone(w)) /\ WF_vars(MarkOld(w)) /\ WF_vars(ReleaseOld(w)) /\ WF_vars(Finish(w))

FairRouter(r) ==
  /\ SF_vars(LockWatch(r)) /\ WF_vars(Construct(r)) /\ WF_vars(Sleep(r)) /\ WF_vars(Wake(r))
  /\ WF_vars(SwitchFacade(r)) /\ WF_vars(StopWatching(r))
  /\ WF_vars(\E f \in rHeld[r] \ {rFacade[r]} : EndQuery(r, f))
  /\ SF_vars(WakeThread(r)) /\ WF_vars(Join(r))

FairSpec == Spec /\ (\A w \in Stores : FairStore(w)) /\ (\A r \in Routers : FairRouter(r))

-----------------------------------------------------------------------------
(* What the update protocol promises.                                      *)

TypeOK ==
  /\ fileLock \in Stores \cup {None}
  /\ shm \in [Keys -> Segs \cup {None}] /\ filled \subseteq Segs
  /\ named \in 0..MaxGens /\ gens \in 0..MaxGens
  /\ region \in [Gens -> [Kinds -> [key : Keys, time : Nat]]]
  /\ inUse \in [Gens -> SUBSET Keys]
  /\ mutex \in [Gens -> Stores \cup Routers \cup {Dead, None}]
  /\ ring \in [Gens -> Seq(Routers \cup {Dead})] /\ posted \subseteq Routers
  /\ runs \in 0..MaxRuns /\ base \in [Runs -> 0..MaxRuns]
  /\ sPC \in [Stores -> {"idle", "static", "updatable", "populate", "lock", "swap static",
                         "swap updatable", "unlock", "notify", "retire", "detach"}]
  /\ sGen \in [Stores -> 0..MaxGens] /\ sRun \in [Stores -> 0..MaxRuns]
  /\ sStatic \in [Stores -> 0..MaxRuns]
  /\ sNew \in [Stores -> [Kinds -> Keys \cup {None}]]
  /\ sOld \in [Stores -> Seq([key : Keys, seg : Segs])]
  /\ rPC \in [Routers -> {"down", "starting", "reading", "loop", "watching", "asleep", "woken",
                          "stopped"}]
  /\ rMain \in [Routers -> {"serve", "notify", "join"}]
  /\ rGen \in [Routers -> 0..MaxGens]
  /\ rSeen \in [Routers -> [Kinds -> [key : Keys, time : Nat]]]
  /\ rFacade \in [Routers -> Facades \cup {None}] /\ rHeld \in [Routers -> SUBSET Facades]
  /\ published \in [Gens -> [Kinds -> Segs \cup {None}] \cup {None}]
  /\ deaths \in Nat /\ removals \in Nat /\ abandoned \in {0, 1}

\* The routers that share the register stores find by name.
Follows(r) == rFacade[r] # None /\ rGen[r] = named

Matches(f) == base[f["updatable"].run] = f["static"].run

\* Whatever dies whenever, a router that follows the register serves two fully
\* loaded segments that belong together: never a region a store is filling,
\* never the static part of one dataset with the metric of another.
FacadeSound ==
  \A r \in Routers : Follows(r) =>
    /\ \A k \in Kinds : rFacade[r][k] \in filled
    /\ Matches(rFacade[r])

Faulty == deaths > 0 \/ removals > 0

\* Keys do not leak: between updates exactly the keys of the registered regions
\* are in use, unless a process was killed, the register was removed or an
\* update was abandoned for want of the mutex, of a key or of a metric that fits.
KeysAccounted ==
  named # 0 /\ ~Faulty /\ abandoned = 0 /\ (\A w \in Stores : sPC[w] = "idle")
    => inUse[named] = RegisteredKeys(named)

\* Each router serves a pair that was swapped in as a whole, and every switch
\* takes it to the pair current at that moment; a removed register loses its
\* routers.
Snapshots == INSTANCE Snapshots WITH
  Data <- Facades,
  forgotten <- removals > 0,
  current <- IF named = 0 THEN None ELSE published[named],
  serving <- [r \in Routers |-> IF rFacade[r] = None THEN None
                                ELSE IF rGen[r] = named THEN rFacade[r] ELSE Lost]
SnapshotSpec == Snapshots!Spec

\* A store ends: it gets the mutex and its WaitForDetach sees every router go.
UpdateEnds == \A w \in Stores : sPC[w] # "idle" ~> sPC[w] = "idle" \/ Faulty

\* No wake-up is lost: a router that serves old data switches, and one that
\* shuts down joins its watchdog's thread, wherever the thread is in its loop.
RoutersSettle ==
  \A r \in Routers :
    LET settled == /\ rMain[r] = "serve"
                   /\ rFacade[r] = None \/ rFacade[r] = published[rGen[r]]
    IN  ~settled ~> settled \/ Faulty

=============================================================================
