--------------------------- MODULE DatastoreProofs ---------------------------
(***************************************************************************)
(* Proofs about Datastore, for any number of osrm-datastore and            *)
(* osrm-routed processes, keys, runs, register objects and deaths.         *)
(***************************************************************************)
EXTENDS Datastore, SequenceTheorems, WellFoundedInduction, TLAPS

-----------------------------------------------------------------------------
(* The invariant. What a store has done so far, by the line it is at.       *)

Working(w) == sPC[w] # "idle"
OnFullRun(w) == sStatic[w] = 0
InSwap(w) == sPC[w] \in {"swap static", "swap updatable", "unlock"}

(* It holds the lock on the file, so it is alone, and its register is the one
   that stores find by name or was removed meanwhile. *)
Alone(w) == Working(w) =>
  /\ fileLock = w
  /\ sGen[w] \in 1..gens /\ named \in {0, sGen[w]}
  /\ sRun[w] = runs /\ runs \in Runs

Prepared(w) ==
  /\ sPC[w] \in {"idle", "static", "unlock", "notify", "retire", "detach"} => sNew[w] = NoKeys
  /\ sPC[w] \in {"static", "swap static"} => OnFullRun(w)
  /\ sPC[w] \in {"updatable", "populate", "lock", "swap static"} =>
       (sNew[w]["static"] \in Keys <=> OnFullRun(w))
  /\ sPC[w] = "updatable" => sNew[w]["updatable"] = None
  /\ sPC[w] \in {"populate", "lock", "swap static", "swap updatable"} =>
       sNew[w]["updatable"] \in Keys
  /\ sPC[w] = "swap updatable" => sNew[w]["static"] = None
  /\ sPC[w] \in {"idle", "static", "updatable", "populate", "lock", "swap static"} =>
       sOld[w] = <<>>
  /\ sPC[w] = "detach" => sOld[w] # <<>>

StoresInv == \A w \in Stores : Alone(w) /\ Prepared(w)

(* Who is inside the mutex's scope holds it. *)
Watching(r) == rPC[r] \in {"reading", "watching"}
LocksInv ==
  /\ \A w \in Stores : InSwap(w) => mutex[sGen[w]] = w
  /\ \A r \in Routers : Watching(r) => mutex[rGen[r]] = r

(* A router that is up knows its register's regions as of some time. *)
Up(r) == rPC[r] \notin {"down", "starting", "reading"}
RouterInv(r) ==
  /\ rPC[r] # "down" => rGen[r] \in 1..gens
  /\ ~Up(r) => rFacade[r] = None /\ rMain[r] = "serve"
  /\ Up(r) => \A k \in Kinds :
       /\ rSeen[r][k].time > 0
       /\ \/ rSeen[r][k] = region[rGen[r]][k]
          \/ rSeen[r][k].time < region[rGen[r]][k].time
RoutersInv == \A r \in Routers : RouterInv(r)

(* Registers not made yet are blank. Until one is removed there is at most one. *)
GensInv ==
  /\ named <= gens
  /\ removals = 0 => named = gens /\ gens <= 1
  /\ \A g \in Gens : g > gens =>
       /\ region[g] = [k \in Kinds |-> EmptyRegion] /\ inUse[g] = {}
       /\ mutex[g] = None /\ published[g] = None

(* No key serves two purposes, and every one that serves one is in use. *)
NewKeys(w) == {sNew[w][k] : k \in Kinds} \ {None}
OldKeys(w) == {sOld[w][i].key : i \in DOMAIN sOld[w]}
Spare(w) ==
  /\ RegisteredKeys(named) \cap (NewKeys(w) \cup OldKeys(w)) = {}
  /\ NewKeys(w) \cap OldKeys(w) = {}
  /\ sNew[w]["static"] = sNew[w]["updatable"] => sNew[w]["static"] = None
  /\ \A i, j \in DOMAIN sOld[w] : sOld[w][i].key = sOld[w][j].key => i = j
  /\ NewKeys(w) \cup OldKeys(w) \subseteq inUse[named]
Fault == Faulty \/ abandoned # 0
KeysInv == named # 0 =>
  /\ (\A k \in Kinds : Registered(named, k)) =>
       region[named]["static"].key # region[named]["updatable"].key
  /\ RegisteredKeys(named) \subseteq inUse[named]
  /\ \A w \in Stores : Spare(w)
  /\ Fault \/ inUse[named] \subseteq
       RegisteredKeys(named) \cup UNION {NewKeys(w) \cup OldKeys(w) : w \in Stores}

(* What is at the keys. *)
Seg(k) == [kind |-> k, run |-> runs]
Loaded(w) == sPC[w] \in {"lock", "swap static", "swap updatable"}
Stored(w) ==
  /\ \A k \in Kinds : sNew[w][k] # None =>
       shm[sNew[w][k]] = Seg(k) /\ (Loaded(w) => Seg(k) \in filled)
  /\ Working(w) /\ OnFullRun(w) => base[runs] = runs
  /\ Loaded(w) => base[runs] = IF OnFullRun(w) THEN runs ELSE sStatic[w]
  /\ sPC[w] \in {"updatable", "populate", "lock", "swap updatable"} /\ ~OnFullRun(w) =>
       Registered(named, "static") /\ shm[region[named]["static"].key].run = sStatic[w]
  /\ sPC[w] = "swap updatable" /\ OnFullRun(w) =>
       /\ Registered(named, "static") /\ shm[region[named]["static"].key] = Seg("static")
       /\ Seg("static") \in filled
SegsInv ==
  /\ \A s \in filled : s.run <= runs
  /\ named # 0 =>
       /\ \A k \in Kinds : Registered(named, k) => shm[region[named][k].key] # None
       /\ \A w \in Stores : Stored(w)

(* The register leads to a pair that belongs together, but for the store that
   is between the two regions, or died there. *)
Sound(f) == (\A k \in Kinds : f[k] \in filled) /\ Matches(f)
Whole ==
  \/ (\A k \in Kinds : ~Registered(named, k)) /\ published[named] = None
  \/ /\ \A k \in Kinds : Registered(named, k)
     /\ published[named] = AtRegister(named) /\ Sound(AtRegister(named))
Between(w) == sPC[w] = "swap updatable" /\ OnFullRun(w)
WholeInv == named # 0 =>
  mutex[named] = Dead \/ (\E w \in Stores : Between(w)) \/ Whole

DatastoreInv ==
  /\ TypeOK /\ StoresInv /\ LocksInv /\ RoutersInv /\ GensInv
  /\ KeysInv /\ SegsInv /\ WholeInv /\ FacadeSound

-----------------------------------------------------------------------------
(* Types, by who owns the state.                                            *)

OsType ==
  /\ fileLock \in Stores \cup {None}
  /\ shm \in [Keys -> Segs \cup {None}] /\ filled \subseteq Segs
RegType ==
  /\ named \in 0..MaxGens /\ gens \in 0..MaxGens
  /\ region \in [Gens -> [Kinds -> [key : Keys, time : Nat]]]
  /\ inUse \in [Gens -> SUBSET Keys]
  /\ mutex \in [Gens -> Stores \cup Routers \cup {Dead, None}]
RingType == ring \in [Gens -> Seq(Routers \cup {Dead})] /\ posted \subseteq Routers
RunType == runs \in 0..MaxRuns /\ base \in [Runs -> 0..MaxRuns]
StoreType ==
  /\ sPC \in [Stores -> {"idle", "static", "updatable", "populate", "lock", "swap static",
                         "swap updatable", "unlock", "notify", "retire", "detach"}]
  /\ sGen \in [Stores -> 0..MaxGens] /\ sRun \in [Stores -> 0..MaxRuns]
  /\ sStatic \in [Stores -> 0..MaxRuns]
  /\ sNew \in [Stores -> [Kinds -> Keys \cup {None}]]
  /\ sOld \in [Stores -> Seq([key : Keys, seg : Segs])]
RouterType ==
  /\ rPC \in [Routers -> {"down", "starting", "reading", "loop", "watching", "asleep", "woken",
                          "stopped"}]
  /\ rMain \in [Routers -> {"serve", "notify", "join"}]
  /\ rGen \in [Routers -> 0..MaxGens]
  /\ rSeen \in [Routers -> [Kinds -> [key : Keys, time : Nat]]]
  /\ rFacade \in [Routers -> Facades \cup {None}] /\ rHeld \in [Routers -> SUBSET Facades]
PastType ==
  /\ published \in [Gens -> [Kinds -> Segs \cup {None}] \cup {None}]
  /\ deaths \in Nat /\ removals \in Nat /\ abandoned \in {0, 1}

LEMMA Types ==
  TypeOK <=> /\ OsType /\ RegType /\ RingType /\ RunType /\ StoreType /\ RouterType /\ PastType
BY DEF TypeOK, OsType, RegType, RingType, RunType, StoreType, RouterType, PastType

(* Numbers and keys. *)
LEMMA Bounds ==
  /\ MaxKeys \in Nat \ {0} /\ MaxRuns \in Nat \ {0} /\ MaxGens \in Nat \ {0}
  /\ 0 \in Keys /\ Keys \subseteq Nat /\ None \notin Keys /\ None \notin Segs
  /\ None \notin Stores \cup Routers /\ None # Dead /\ None \notin Facades
  /\ Dead \notin Stores \cup Routers /\ Stores \cap Routers = {}
  /\ Gens \subseteq Nat /\ Runs \subseteq Nat
<1>1. Facades \subseteq [Kinds -> Segs \cup {None}]
  BY DEF Facades
<1> QED
  BY <1>1, ConstantsAssumption DEF Keys, Gens, Runs

LEMMA MadeOnes ==
  ASSUME RegType
  PROVE  /\ \A g : g \in 1..gens => g \in Gens
         /\ named # 0 => named \in Gens
         /\ gens \in Nat /\ named \in Nat
BY Bounds DEF RegType, Gens

(* ReserveKey finds a key that is free. *)
LEMMA FirstFreeIsFree ==
  ASSUME NEW g, inUse[g] \subseteq Keys, inUse[g] # Keys
  PROVE  FirstFree(g) \in Keys \ inUse[g]
<1> DEFINE S == Keys \ inUse[g]
<1>1. S \in SUBSET Nat /\ S # {}
  BY Bounds
<1> HIDE DEF S
<1>2. \E x \in S : \A y \in S : ~(y < x)
  <2>1. \E x \in S : \A y \in S : ~(<<y, x>> \in OpToRel(<, Nat))
    BY <1>1, NatLessThanWellFounded, WFMin
  <2>2. \A x, y \in S : y < x => <<y, x>> \in OpToRel(<, Nat)
    BY <1>1, Zenon DEF OpToRel
  <2> QED
    BY <2>1, <2>2, Zenon
<1>3. \E x \in S : \A y \in S : x <= y
  BY <1>1, <1>2
<1>4. FirstFree(g) = CHOOSE k \in S : \A j \in S : k <= j
  BY Zenon DEF FirstFree, S
<1>5. FirstFree(g) \in S
  BY <1>3, <1>4, Zenon
<1> QED
  BY <1>5 DEF S

(* The end of a run of osrm-datastore. *)
LEMMA LeaveTypes ==
  ASSUME StoreType, NEW w \in Stores, Leave(w)
  PROVE  /\ StoreType' /\ fileLock' = None
         /\ sPC'[w] = "idle" /\ sGen'[w] = 0 /\ sStatic'[w] = 0 /\ sNew'[w] = NoKeys
         /\ sOld'[w] = <<>>
         /\ \A v \in Stores \ {w} :
              /\ sPC'[v] = sPC[v] /\ sGen'[v] = sGen[v] /\ sRun'[v] = sRun[v]
              /\ sStatic'[v] = sStatic[v] /\ sNew'[v] = sNew[v] /\ sOld'[v] = sOld[v]
<1>1. NoKeys \in [Kinds -> Keys \cup {None}] /\ <<>> \in Seq([key : Keys, seg : Segs])
  BY DEF NoKeys
<1>2. 0 \in 0..MaxGens /\ 0 \in 0..MaxRuns
  BY Bounds
<1> QED
  BY <1>1, <1>2 DEF Leave, Goto, StoreType

(* The end of a router. *)
LEMMA QuitTypes ==
  ASSUME RouterType, NEW r \in Routers, Quit(r)
  PROVE  /\ rPC' \in [Routers -> {"down", "starting", "reading", "loop", "watching", "asleep",
                                  "woken", "stopped"}]
         /\ rMain' \in [Routers -> {"serve", "notify", "join"}]
         /\ rGen' \in [Routers -> 0..MaxGens]
         /\ rSeen' \in [Routers -> [Kinds -> [key : Keys, time : Nat]]]
         /\ rFacade' \in [Routers -> Facades \cup {None}]
         /\ rPC'[r] = "down" /\ rMain'[r] = "serve" /\ rGen'[r] = 0 /\ rFacade'[r] = None
         /\ \A q \in Routers \ {r} :
              /\ rPC'[q] = rPC[q] /\ rMain'[q] = rMain[q] /\ rGen'[q] = rGen[q]
              /\ rSeen'[q] = rSeen[q] /\ rFacade'[q] = rFacade[q]
<1> DEFINE blank == [k \in Kinds |-> EmptyRegion]
<1>1. blank \in [Kinds -> [key : Keys, time : Nat]] /\ 0 \in 0..MaxGens
  BY Bounds DEF EmptyRegion
<1>2. /\ rPC' = [rPC EXCEPT ![r] = "down"] /\ rMain' = [rMain EXCEPT ![r] = "serve"]
      /\ rGen' = [rGen EXCEPT ![r] = 0] /\ rSeen' = [rSeen EXCEPT ![r] = blank]
      /\ rFacade' = [rFacade EXCEPT ![r] = None]
  BY DEF Quit, RGoto
<1> HIDE DEF blank
<1> QED
  BY <1>1, <1>2 DEF RouterType

-----------------------------------------------------------------------------
(* What a step of a router leaves to the stores.                            *)

LEMMA SameRegister ==
  ASSUME UNCHANGED <<shm, named, region>>
  PROVE  /\ RegisteredKeys(named)' = RegisteredKeys(named)
         /\ AtRegister(named)' = AtRegister(named)
         /\ \A k \in Kinds : Registered(named, k)' = Registered(named, k)
BY DEF RegisteredKeys, AtRegister, Registered

LEMMA SameKeys ==
  ASSUME UNCHANGED <<sNew, sOld>>
  PROVE  \A w \in Stores : NewKeys(w)' = NewKeys(w) /\ OldKeys(w)' = OldKeys(w)
BY DEF NewKeys, OldKeys

LEMMA StoresUnmoved ==
  ASSUME DatastoreInv, NEW r \in Routers, UNCHANGED osVars, UNCHANGED storeVars,
         UNCHANGED <<named, gens, region, inUse, removals, abandoned, published>>,
         deaths' \in Nat, deaths' >= deaths,
         \A g \in Gens : mutex'[g] # mutex[g] => mutex[g] \in {None, r} /\ g <= gens
  PROVE  /\ StoresInv' /\ GensInv' /\ KeysInv' /\ SegsInv' /\ WholeInv'
         /\ \A w \in Stores : InSwap(w)' => mutex'[sGen[w]] = w
         /\ OsType' /\ RunType' /\ StoreType' /\ PastType'
<1> USE DEF DatastoreInv
<1>0. /\ OsType /\ RegType /\ RunType /\ StoreType /\ PastType
      /\ UNCHANGED <<fileLock, shm, filled>>
      /\ UNCHANGED <<runs, base, sPC, sGen, sRun, sStatic, sNew, sOld>>
  BY Types DEF osVars, storeVars
<1>1. StoresInv'
  BY <1>0 DEF StoresInv, Alone, Prepared, Working, OnFullRun
<1>2. GensInv'
  BY <1>0, Bounds DEF GensInv, RegType
<1>3. KeysInv'
  <2>1. Fault => Fault'
    BY <1>0 DEF Fault, Faulty, PastType
  <2>2. \A w \in Stores : Spare(w) => Spare(w)'
    BY <1>0, SameRegister, SameKeys DEF Spare
  <2>3. UNION {NewKeys(w)' \cup OldKeys(w)' : w \in Stores}
          = UNION {NewKeys(w) \cup OldKeys(w) : w \in Stores}
    BY <1>0, SameKeys
  <2> QED
    BY <1>0, <2>1, <2>2, <2>3, SameRegister DEF KeysInv
<1>4. SegsInv'
  BY <1>0 DEF SegsInv, Stored, Seg, Loaded, Working, OnFullRun, Registered
<1>5. WholeInv'
  <2>1. mutex[named] = Dead /\ named # 0 => mutex'[named] = Dead
    BY <1>0, Bounds DEF RegType, Gens
  <2>2. Whole => Whole'
    BY <1>0, SameRegister DEF Whole, Sound, Matches
  <2>3. (\E w \in Stores : Between(w)) => (\E w \in Stores : Between(w)')
    BY <1>0 DEF Between, OnFullRun
  <2> QED
    BY <1>0, <2>1, <2>2, <2>3 DEF WholeInv
<1>6. \A w \in Stores : InSwap(w)' => mutex'[sGen[w]] = w
  <2> SUFFICES ASSUME NEW w \in Stores, InSwap(w) PROVE mutex'[sGen[w]] = w
    BY <1>0 DEF InSwap
  <2>1. mutex[sGen[w]] = w /\ sGen[w] \in Gens
    <3>1. sGen[w] \in 1..gens
      BY DEF StoresInv, Alone, InSwap, Working
    <3> QED
      BY <1>0, <3>1, MadeOnes DEF LocksInv
  <2> QED
    BY <2>1, Bounds
<1>7. OsType' /\ RunType' /\ StoreType' /\ PastType'
  BY <1>0 DEF OsType, RunType, StoreType, PastType
<1> QED
  BY <1>1, <1>2, <1>3, <1>4, <1>5, <1>6, <1>7

(* The others stay as they are. *)
RoutersAside(r) == \A q \in Routers \ {r} :
  /\ rPC'[q] = rPC[q] /\ rMain'[q] = rMain[q] /\ rGen'[q] = rGen[q]
  /\ rSeen'[q] = rSeen[q] /\ rFacade'[q] = rFacade[q]
(* The mutex passes between nobody, and this process. *)
MutexMoves(r) == \A g \in Gens : mutex'[g] # mutex[g] => mutex[g] \in {None, r} /\ g <= gens
FacadeFine(r) == Follows(r) => Sound(rFacade[r])

LEMMA RouterMoves ==
  ASSUME DatastoreInv, NEW r \in Routers, UNCHANGED osVars, UNCHANGED storeVars,
         UNCHANGED <<named, gens, region, inUse, removals, abandoned, published>>,
         deaths' \in Nat, deaths' >= deaths, MutexMoves(r), RoutersAside(r),
         mutex' \in [Gens -> Stores \cup Routers \cup {Dead, None}], RingType', RouterType',
         RouterInv(r)', FacadeFine(r)', Watching(r)' => mutex'[rGen'[r]] = r
  PROVE  DatastoreInv'
<1>1. /\ StoresInv' /\ GensInv' /\ KeysInv' /\ SegsInv' /\ WholeInv'
      /\ \A w \in Stores : InSwap(w)' => mutex'[sGen[w]] = w
      /\ OsType' /\ RunType' /\ StoreType' /\ PastType'
  BY StoresUnmoved DEF MutexMoves
<1>2. /\ OsType /\ RegType /\ RouterType /\ UNCHANGED <<filled, base, sGen>>
  BY Types DEF DatastoreInv, osVars, storeVars
<1>3. TypeOK'
  <2>1. RegType'
    BY <1>2 DEF RegType
  <2> QED
    BY <1>1, <2>1, Types DEF OsType, RegType, RingType, RunType, StoreType, RouterType, PastType,
       TypeOK
<1>4. LocksInv'
  <2>1. ASSUME NEW q \in Routers \ {r}, Watching(q)' PROVE mutex'[rGen'[q]] = q
    <3>1. Watching(q) /\ rGen'[q] = rGen[q]
      BY <2>1 DEF RoutersAside, Watching
    <3>2. mutex[rGen[q]] = q /\ rGen[q] \in Gens
      <4>1. rGen[q] \in 1..gens
        BY <3>1 DEF DatastoreInv, RoutersInv, RouterInv, Watching
      <4> QED
        BY <1>2, <3>1, <4>1, MadeOnes DEF DatastoreInv, LocksInv
    <3> QED
      BY <3>1, <3>2, Bounds DEF MutexMoves
  <2> QED
    BY <1>1, <1>2, <2>1 DEF LocksInv
<1>5. RoutersInv'
  <2>1. ASSUME NEW q \in Routers \ {r} PROVE RouterInv(q)'
    BY DEF RoutersAside, DatastoreInv, RoutersInv, RouterInv, Up
  <2> QED
    BY <2>1 DEF RoutersInv
<1>6. FacadeSound'
  <2>1. ASSUME NEW q \in Routers \ {r}, Follows(q)' PROVE Sound(rFacade[q])'
    <3>1. Follows(q) /\ rFacade'[q] = rFacade[q]
      BY <2>1 DEF RoutersAside, Follows
    <3> QED
      BY <1>2, <3>1 DEF DatastoreInv, FacadeSound, Sound, Matches
  <2> QED
    BY <2>1 DEF FacadeSound, FacadeFine, Sound
<1> QED
  BY <1>1, <1>3, <1>4, <1>5, <1>6 DEF DatastoreInv

-----------------------------------------------------------------------------
(* The steps of a router.                                                   *)

RouterPCs == {"down", "starting", "reading", "loop", "watching", "asleep", "woken", "stopped"}

(* A step that changes where the thread is, and perhaps the mutex. *)
LEMMA ThreadMoves ==
  ASSUME DatastoreInv, NEW r \in Routers, UNCHANGED osVars, UNCHANGED storeVars,
         UNCHANGED <<named, gens, region, inUse, removals, abandoned, published, deaths>>,
         UNCHANGED <<rMain, rGen, rSeen, rFacade, rHeld>>, RingType',
         NEW to \in RouterPCs, RGoto(r, to), rPC[r] # "down", to # "down", Up(r) <=> Up(r)',
         \/ mutex' = mutex /\ to \notin {"reading", "watching"}
         \/ Lock(r, rGen[r])
         \/ mutex' = [mutex EXCEPT ![rGen[r]] = None] /\ to \notin {"reading", "watching"}
              /\ Watching(r)
  PROVE  DatastoreInv'
<1>0. /\ OsType /\ RegType /\ RouterType /\ PastType
      /\ rPC' = [rPC EXCEPT ![r] = to]
  BY Types DEF DatastoreInv, RGoto
<1>1. rPC'[r] = to /\ rPC' \in [Routers -> RouterPCs] /\ \A q \in Routers \ {r} : rPC'[q] = rPC[q]
  BY <1>0 DEF RouterType, RouterPCs
<1>2. rGen[r] \in Gens /\ rGen[r] \in 1..gens /\ RouterInv(r)
  BY <1>0, MadeOnes DEF DatastoreInv, RoutersInv, RouterInv
<1>3. MutexMoves(r) /\ mutex' \in [Gens -> Stores \cup Routers \cup {Dead, None}]
  <2>1. CASE mutex' = mutex
    BY <1>0, <2>1 DEF MutexMoves, RegType
  <2>2. CASE Lock(r, rGen[r])
    BY <1>0, <1>2, <2>2 DEF MutexMoves, RegType, Lock
  <2>3. CASE mutex' = [mutex EXCEPT ![rGen[r]] = None] /\ Watching(r)
    <3>1. mutex[rGen[r]] = r
      BY <2>3 DEF DatastoreInv, LocksInv
    <3> QED
      BY <1>0, <1>2, <2>3, <3>1 DEF MutexMoves, RegType
  <2> QED
    BY <2>1, <2>2, <2>3
<1>4. Watching(r)' => mutex'[rGen'[r]] = r
  BY <1>0, <1>1, <1>2 DEF Watching, Lock, RegType
<1>5. RouterType' /\ RoutersAside(r) /\ deaths' \in Nat /\ deaths' >= deaths
  BY <1>0, <1>1 DEF RouterType, RouterPCs, RoutersAside, PastType
<1>6. RouterInv(r)'
  BY <1>1, <1>2 DEF RouterInv
<1>7. FacadeFine(r)'
  BY DEF FacadeFine, Follows, DatastoreInv, FacadeSound, Sound, Matches, osVars, storeVars
<1> QED
  BY <1>3, <1>4, <1>5, <1>6, <1>7, RouterMoves

LEMMA StartStep ==
  ASSUME DatastoreInv, NEW r \in Routers, Start(r)
  PROVE  DatastoreInv'
<1>0. /\ OsType /\ RegType /\ RingType /\ RouterType /\ PastType /\ RouterInv(r)
      /\ rPC[r] = "down" /\ named # 0
      /\ rGen' = [rGen EXCEPT ![r] = named] /\ rMain' = [rMain EXCEPT ![r] = "serve"]
      /\ rPC' = [rPC EXCEPT ![r] = "starting"]
      /\ UNCHANGED <<rSeen, rFacade, rHeld, mutex, ring, posted, deaths>>
      /\ UNCHANGED osVars /\ UNCHANGED storeVars
      /\ UNCHANGED <<named, gens, region, inUse, removals, abandoned, published>>
  BY Types DEF DatastoreInv, RoutersInv, Start, RGoto, regVars, faultVars
<1>1. /\ rPC'[r] = "starting" /\ rMain'[r] = "serve" /\ rGen'[r] = named
      /\ RoutersAside(r) /\ RouterType'
  BY <1>0 DEF RouterType, RoutersAside, RegType
<1>2. RouterInv(r)'
  BY <1>0, <1>1, MadeOnes DEF RouterInv, Up, DatastoreInv, GensInv
<1>3. FacadeFine(r)' /\ ~Watching(r)'
  BY <1>0, <1>1 DEF RouterInv, Up, FacadeFine, Follows, Watching
<1>4. /\ RingType' /\ MutexMoves(r) /\ mutex' \in [Gens -> Stores \cup Routers \cup {Dead, None}]
      /\ deaths' \in Nat /\ deaths' >= deaths
  BY <1>0 DEF RingType, MutexMoves, RegType, PastType
<1> QED
  BY <1>0, <1>1, <1>2, <1>3, <1>4, RouterMoves

LEMMA LockWatchStep ==
  ASSUME DatastoreInv, NEW r \in Routers, LockWatch(r)
  PROVE  DatastoreInv'
<1> DEFINE to == IF rPC[r] = "starting" THEN "reading" ELSE "watching"
<1>0. RingType /\ RouterType
  BY Types DEF DatastoreInv
<1>1. RGoto(r, to) /\ Lock(r, rGen[r]) /\ to \in RouterPCs /\ rPC[r] \in {"starting", "woken", "loop"}
  BY DEF LockWatch, RouterPCs
<1>2. /\ UNCHANGED osVars /\ UNCHANGED storeVars
      /\ UNCHANGED <<named, gens, region, inUse, removals, abandoned, published, deaths>>
      /\ UNCHANGED <<rMain, rGen, rSeen, rFacade, rHeld>> /\ UNCHANGED <<ring, posted>>
  BY DEF LockWatch, faultVars
<1>3. RingType' /\ to # "down"
  BY <1>0, <1>2 DEF RingType
<1>4. Up(r) <=> Up(r)'
  BY <1>0, <1>1 DEF Up, RGoto, RouterType
<1> HIDE DEF to
<1> QED
  BY <1>1, <1>2, <1>3, <1>4, ThreadMoves

LEMMA SleepStep ==
  ASSUME DatastoreInv, NEW r \in Routers, Sleep(r)
  PROVE  DatastoreInv'
<1>0. RingType /\ RouterType /\ RegType
  BY Types DEF DatastoreInv
<1>1. /\ RGoto(r, "asleep") /\ mutex' = [mutex EXCEPT ![rGen[r]] = None] /\ rPC[r] = "watching"
      /\ UNCHANGED osVars /\ UNCHANGED storeVars
      /\ UNCHANGED <<named, gens, region, inUse, removals, abandoned, published, deaths>>
      /\ UNCHANGED <<rMain, rGen, rSeen, rFacade, rHeld>>
      /\ ring' = [ring EXCEPT ![rGen[r]] = Append(@, r)] /\ posted' = posted
  BY DEF Sleep, faultVars
<1>2. rGen[r] \in Gens
  BY <1>0, <1>1, MadeOnes DEF DatastoreInv, RoutersInv, RouterInv
<1>3. RingType'
  BY <1>0, <1>1, <1>2 DEF RingType
<1>4. (Up(r) <=> Up(r)') /\ Watching(r) /\ "asleep" \in RouterPCs
  BY <1>0, <1>1 DEF Up, RGoto, RouterType, Watching, RouterPCs
<1> QED
  BY <1>1, <1>3, <1>4, ThreadMoves

LEMMA WakeStep ==
  ASSUME DatastoreInv, NEW r \in Routers, Wake(r)
  PROVE  DatastoreInv'
<1>0. RingType /\ RouterType
  BY Types DEF DatastoreInv
<1>1. /\ RGoto(r, "woken") /\ mutex' = mutex /\ rPC[r] = "asleep"
      /\ UNCHANGED osVars /\ UNCHANGED storeVars
      /\ UNCHANGED <<named, gens, region, inUse, removals, abandoned, published, deaths>>
      /\ UNCHANGED <<rMain, rGen, rSeen, rFacade, rHeld>>
      /\ ring' = ring /\ posted' = posted \ {r}
  BY DEF Wake, faultVars
<1>3. RingType'
  BY <1>0, <1>1 DEF RingType
<1>4. (Up(r) <=> Up(r)') /\ "woken" \in RouterPCs
  BY <1>0, <1>1 DEF Up, RGoto, RouterType, RouterPCs
<1> QED
  BY <1>1, <1>3, <1>4, ThreadMoves

LEMMA StopStep ==
  ASSUME DatastoreInv, NEW r \in Routers, StopWatching(r)
  PROVE  DatastoreInv'
<1>0. RingType /\ RouterType /\ RegType
  BY Types DEF DatastoreInv
<1>1. /\ RGoto(r, "stopped") /\ rPC[r] \in {"loop", "watching"}
      /\ mutex' = [mutex EXCEPT ![rGen[r]] = IF rPC[r] = "watching" THEN None ELSE @]
      /\ UNCHANGED osVars /\ UNCHANGED storeVars
      /\ UNCHANGED <<named, gens, region, inUse, removals, abandoned, published, deaths>>
      /\ UNCHANGED <<rMain, rGen, rSeen, rFacade, rHeld>> /\ UNCHANGED <<ring, posted>>
  BY DEF StopWatching, faultVars
<1>2. \/ mutex' = mutex
      \/ mutex' = [mutex EXCEPT ![rGen[r]] = None] /\ Watching(r)
  BY <1>0, <1>1 DEF RegType, Watching
<1>3. RingType'
  BY <1>0, <1>1 DEF RingType
<1>4. (Up(r) <=> Up(r)') /\ "stopped" \in RouterPCs
  BY <1>0, <1>1 DEF Up, RGoto, RouterType, RouterPCs
<1> QED
  BY <1>1, <1>2, <1>3, <1>4, ThreadMoves

(* Who holds the mutex finds the register whole. *)
LEMMA HolderFindsWhole ==
  ASSUME DatastoreInv, NEW r \in Routers, Watching(r), rGen[r] = named
  PROVE  Whole /\ named # 0
<1>1. mutex[named] = r /\ named # 0
  BY DEF DatastoreInv, LocksInv, RoutersInv, RouterInv, Watching
<1>2. r # Dead
  BY Bounds
<1>3. ASSUME NEW w \in Stores, Between(w) PROVE FALSE
  <2>1. mutex[sGen[w]] = w /\ named \in {0, sGen[w]}
    BY <1>3 DEF DatastoreInv, LocksInv, StoresInv, Alone, Between, InSwap, Working
  <2> QED
    BY <1>1, <2>1, Bounds
<1> QED
  BY <1>1, <1>2, <1>3 DEF DatastoreInv, WholeInv

(* Reading the register: all but the mutex is the router's own. *)
LEMMA Reads ==
  ASSUME DatastoreInv, NEW r \in Routers, Watching(r), UNCHANGED osVars, UNCHANGED storeVars,
         UNCHANGED <<named, gens, region, inUse, ring, posted, removals, abandoned, published,
                     deaths>>,
         mutex' = [mutex EXCEPT ![rGen[r]] = None]
  PROVE  /\ MutexMoves(r) /\ mutex' \in [Gens -> Stores \cup Routers \cup {Dead, None}]
         /\ RingType' /\ deaths' \in Nat /\ deaths' >= deaths
         /\ rGen[r] \in Gens /\ rGen[r] \in 1..gens
<1>0. RegType /\ RingType /\ PastType
  BY Types DEF DatastoreInv
<1>1. mutex[rGen[r]] = r /\ rGen[r] \in 1..gens /\ rGen[r] \in Gens /\ gens \in Nat
  BY <1>0, MadeOnes DEF DatastoreInv, LocksInv, RoutersInv, RouterInv, Watching
<1>2. MutexMoves(r) /\ mutex' \in [Gens -> Stores \cup Routers \cup {Dead, None}]
  BY <1>0, <1>1 DEF MutexMoves, RegType
<1> QED
  BY <1>0, <1>1, <1>2 DEF RingType, PastType

LEMMA ReadsTheRegister ==
  ASSUME DatastoreInv, NEW r \in Routers, Watching(r), UNCHANGED osVars, UNCHANGED storeVars,
         UNCHANGED <<named, gens, region, inUse, ring, posted, removals, abandoned, published,
                     deaths>>,
         mutex' = [mutex EXCEPT ![rGen[r]] = None],
         \A k \in Kinds : Registered(rGen[r], k) /\ AtRegister(rGen[r])[k] # None,
         rSeen' = [rSeen EXCEPT ![r] = region[rGen[r]]],
         rFacade' = [rFacade EXCEPT ![r] = AtRegister(rGen[r])],
         RGoto(r, "loop"), UNCHANGED <<rMain, rGen, rHeld>>
  PROVE  DatastoreInv'
<1> DEFINE g == rGen[r]
           f == AtRegister(g)
<1>0. OsType /\ RegType /\ RouterType
  BY Types DEF DatastoreInv
<1>1. g \in Gens /\ g \in 1..gens
  BY Reads
<1>2. f \in Facades
  <2>1. \A k \in Kinds : shm[region[g][k].key] \in Segs
    BY <1>0, <1>1 DEF AtRegister, OsType, RegType
  <2> QED
    BY <2>1 DEF AtRegister, Facades
<1> HIDE DEF f
<1>3. /\ rPC'[r] = "loop" /\ rGen'[r] = g /\ rSeen'[r] = region[g] /\ rFacade'[r] = f
      /\ RoutersAside(r)
  BY <1>0 DEF RouterType, RoutersAside, RGoto, f
<1>4. RouterType'
  BY <1>0, <1>1, <1>2 DEF RouterType, RegType, RGoto, f
<1>5. RouterInv(r)'
  <2>1. \A k \in Kinds : region[g][k].time > 0
    BY DEF Registered
  <2> QED
    BY <1>1, <1>3, <2>1 DEF RouterInv, Up
<1>6. FacadeFine(r)'
  <2> SUFFICES ASSUME Follows(r)' PROVE Sound(rFacade[r])'
    BY DEF FacadeFine
  <2>1. g = named
    BY <1>3 DEF Follows
  <2>2. Sound(f)
    <3>1. Whole
      BY <2>1, HolderFindsWhole
    <3>2. \E k \in Kinds : Registered(named, k)
      BY <2>1 DEF Kinds
    <3> QED
      BY <2>1, <3>1, <3>2 DEF Whole, f
  <2> QED
    BY <1>3, <2>2 DEF Sound, Matches, osVars, storeVars
<1>7. ~Watching(r)'
  BY <1>3 DEF Watching
<1> QED
  BY <1>3, <1>4, <1>5, <1>6, <1>7, Reads, RouterMoves

(* A router that ends. *)
LEMMA Quits ==
  ASSUME DatastoreInv, NEW r \in Routers, UNCHANGED osVars, UNCHANGED storeVars,
         UNCHANGED <<named, gens, region, inUse, removals, abandoned, published>>,
         deaths' \in Nat, deaths' >= deaths, MutexMoves(r),
         mutex' \in [Gens -> Stores \cup Routers \cup {Dead, None}], RingType',
         Quit(r), rHeld' \in [Routers -> SUBSET Facades]
  PROVE  DatastoreInv'
<1>0. RouterType
  BY Types DEF DatastoreInv
<1>1. RouterType' /\ RoutersAside(r) /\ rPC'[r] = "down" /\ rFacade'[r] = None /\ rMain'[r] = "serve"
  BY <1>0, QuitTypes DEF RouterType, RoutersAside
<1>2. RouterInv(r)' /\ FacadeFine(r)' /\ ~Watching(r)'
  BY <1>1 DEF RouterInv, Up, FacadeFine, Follows, Watching
<1> QED
  BY <1>1, <1>2, RouterMoves

LEMMA ConstructStep ==
  ASSUME DatastoreInv, NEW r \in Routers, Construct(r)
  PROVE  DatastoreInv'
<1>1. /\ Watching(r) /\ UNCHANGED osVars /\ UNCHANGED storeVars
      /\ UNCHANGED <<named, gens, region, inUse, ring, posted, removals, abandoned, published,
                     deaths>>
      /\ mutex' = [mutex EXCEPT ![rGen[r]] = None] /\ UNCHANGED rHeld
  BY DEF Construct, Watching, faultVars
<1>2. CASE Quit(r)
  <2>1. rHeld' \in [Routers -> SUBSET Facades]
    BY <1>1, Types DEF DatastoreInv, RouterType
  <2> QED
    BY <1>1, <1>2, <2>1, Reads, Quits
<1>3. CASE /\ \A k \in Kinds : Registered(rGen[r], k) /\ AtRegister(rGen[r])[k] # None
           /\ rSeen' = [rSeen EXCEPT ![r] = region[rGen[r]]]
           /\ rFacade' = [rFacade EXCEPT ![r] = AtRegister(rGen[r])]
           /\ RGoto(r, "loop") /\ UNCHANGED <<rMain, rGen>>
  BY <1>1, <1>3, ReadsTheRegister
<1> QED
  BY <1>2, <1>3 DEF Construct

(* A router whose regions changed ends up with those of the register. *)
LEMMA SwitchReads ==
  ASSUME DatastoreInv, NEW r \in Routers, SwitchFacade(r)
  PROVE  /\ Watching(r) /\ \A k \in Kinds : Registered(rGen[r], k) /\ AtRegister(rGen[r])[k] # None
         /\ rSeen' = [rSeen EXCEPT ![r] = region[rGen[r]]]
         /\ rFacade' = [rFacade EXCEPT ![r] = AtRegister(rGen[r])]
<1> DEFINE g == rGen[r]
           seen == [k \in Kinds |-> IF rSeen[r][k].time # region[g][k].time
                                      THEN region[g][k] ELSE rSeen[r][k]]
           facade == [k \in Kinds |-> shm[seen[k].key]]
<1>1. /\ Watching(r) /\ UNCHANGED osVars /\ UNCHANGED storeVars
      /\ UNCHANGED <<named, gens, region, inUse, ring, posted, removals, abandoned, published,
                     deaths>>
      /\ mutex' = [mutex EXCEPT ![rGen[r]] = None] /\ RGoto(r, "loop")
      /\ UNCHANGED <<rMain, rGen, rHeld>> /\ rPC[r] = "watching"
  BY DEF SwitchFacade, Watching, faultVars
<1>2. /\ \A k \in Kinds : facade[k] # None
      /\ rSeen' = [rSeen EXCEPT ![r] = seen] /\ rFacade' = [rFacade EXCEPT ![r] = facade]
  BY DEF SwitchFacade
<1>3. OsType /\ RegType /\ RouterType /\ g \in Gens /\ g \in 1..gens
  BY <1>1, Reads, Types DEF DatastoreInv
<1>4. \A k \in Kinds : region[g][k].time > 0 /\ seen[k] = region[g][k]
  <2>1. \A k \in Kinds : /\ rSeen[r][k].time > 0
                         /\ \/ rSeen[r][k] = region[g][k]
                            \/ rSeen[r][k].time < region[g][k].time
    BY <1>1 DEF DatastoreInv, RoutersInv, RouterInv, Up
  <2>2. \A k \in Kinds : rSeen[r][k].time \in Nat /\ region[g][k].time \in Nat
    BY <1>3 DEF RouterType, RegType
  <2> QED
    BY <2>1, <2>2
<1>5. seen = region[g]
  BY <1>3, <1>4 DEF RegType
<1>6. facade = AtRegister(g)
  BY <1>4 DEF AtRegister
<1> HIDE DEF seen, facade
<1>7. \A k \in Kinds : Registered(g, k) /\ AtRegister(g)[k] # None
  BY <1>2, <1>4, <1>6 DEF Registered
<1> QED
  BY <1>1, <1>2, <1>5, <1>6, <1>7

LEMMA SwitchStep ==
  ASSUME DatastoreInv, NEW r \in Routers, SwitchFacade(r)
  PROVE  DatastoreInv'
<1>1. /\ UNCHANGED osVars /\ UNCHANGED storeVars
      /\ UNCHANGED <<named, gens, region, inUse, ring, posted, removals, abandoned, published,
                     deaths>>
      /\ mutex' = [mutex EXCEPT ![rGen[r]] = None] /\ RGoto(r, "loop")
      /\ UNCHANGED <<rMain, rGen, rHeld>>
  BY DEF SwitchFacade, faultVars
<1> QED
  BY <1>1, SwitchReads, ReadsTheRegister

(* The steps of the main thread and of queries: the watchdog's thread stays. *)
LEMMA MainMoves ==
  ASSUME DatastoreInv, NEW r \in Routers, UNCHANGED osVars, UNCHANGED storeVars,
         UNCHANGED <<named, gens, region, inUse, mutex, removals, abandoned, published, deaths>>,
         UNCHANGED <<rPC, rGen, rSeen, rFacade>>, RingType', RouterType',
         \A q \in Routers \ {r} : rMain'[q] = rMain[q], Up(r) \/ rMain'[r] = rMain[r]
  PROVE  DatastoreInv'
<1>0. RegType /\ PastType /\ RouterInv(r)
  BY Types DEF DatastoreInv, RoutersInv
<1>1. /\ MutexMoves(r) /\ mutex' \in [Gens -> Stores \cup Routers \cup {Dead, None}]
      /\ deaths' \in Nat /\ deaths' >= deaths /\ RoutersAside(r)
  BY <1>0 DEF MutexMoves, RegType, PastType, RoutersAside
<1>2. RouterInv(r)'
  BY <1>0 DEF RouterInv, Up
<1>3. FacadeFine(r)'
  BY DEF FacadeFine, Follows, DatastoreInv, FacadeSound, Sound, Matches, osVars, storeVars
<1>4. Watching(r)' => mutex'[rGen'[r]] = r
  BY DEF Watching, DatastoreInv, LocksInv
<1> QED
  BY <1>1, <1>2, <1>3, <1>4, RouterMoves

LEMMA QueryStep ==
  ASSUME DatastoreInv, NEW r \in Routers, BeginQuery(r) \/ \E f \in rHeld[r] : EndQuery(r, f)
  PROVE  DatastoreInv'
<1>0. RouterType /\ RingType
  BY Types DEF DatastoreInv
<1>1. UNCHANGED osVars /\ UNCHANGED regVars /\ UNCHANGED storeVars /\ UNCHANGED faultVars
      /\ UNCHANGED <<rPC, rMain, rGen, rSeen, rFacade, published>>
  BY DEF BeginQuery, EndQuery
<1>2. rHeld' \in [Routers -> SUBSET Facades]
  <2>1. BeginQuery(r) => rHeld' \in [Routers -> SUBSET Facades]
    BY <1>0 DEF BeginQuery, RouterType
  <2>2. ASSUME NEW f \in rHeld[r], EndQuery(r, f) PROVE rHeld' \in [Routers -> SUBSET Facades]
    BY <1>0, <2>2 DEF EndQuery, RouterType
  <2> QED
    BY <2>1, <2>2
<1>3. RouterType' /\ RingType'
  BY <1>0, <1>1, <1>2 DEF RouterType, RingType, regVars
<1> QED
  BY <1>1, <1>3, MainMoves DEF regVars, faultVars

LEMMA ShutdownStep ==
  ASSUME DatastoreInv, NEW r \in Routers, Shutdown(r)
  PROVE  DatastoreInv'
<1>0. RouterType /\ RingType /\ RouterInv(r)
  BY Types DEF DatastoreInv, RoutersInv
<1>1. /\ UNCHANGED osVars /\ UNCHANGED regVars /\ UNCHANGED storeVars /\ UNCHANGED faultVars
      /\ UNCHANGED <<rPC, rGen, rSeen, rFacade, rHeld, published>>
      /\ rMain' = [rMain EXCEPT ![r] = "notify"] /\ Up(r)
  BY <1>0 DEF Shutdown, RouterInv
<1>2. RouterType' /\ RingType' /\ \A q \in Routers \ {r} : rMain'[q] = rMain[q]
  BY <1>0, <1>1 DEF RouterType, RingType, regVars
<1> QED
  BY <1>1, <1>2, MainMoves DEF regVars, faultVars

LEMMA NotifyTypes ==
  ASSUME RingType, NEW g, NotifyAll(g)
  PROVE  RingType'
<1>1. <<>> \in Seq(Routers \cup {Dead})
  OBVIOUS
<1> QED
  BY <1>1 DEF RingType, NotifyAll

LEMMA WakeThreadStep ==
  ASSUME DatastoreInv, NEW r \in Routers, WakeThread(r)
  PROVE  DatastoreInv'
<1>0. RouterType /\ RingType /\ RouterInv(r)
  BY Types DEF DatastoreInv, RoutersInv
<1>1. /\ UNCHANGED osVars /\ UNCHANGED storeVars
      /\ UNCHANGED <<named, gens, region, inUse, mutex, removals, abandoned, published, deaths>>
      /\ UNCHANGED <<rPC, rGen, rSeen, rFacade, rHeld>>
      /\ rMain' = [rMain EXCEPT ![r] = "join"] /\ Up(r) /\ NotifyAll(rGen[r])
  BY <1>0 DEF WakeThread, RouterInv, faultVars
<1>2. RouterType' /\ RingType' /\ \A q \in Routers \ {r} : rMain'[q] = rMain[q]
  BY <1>0, <1>1, NotifyTypes DEF RouterType
<1> QED
  BY <1>1, <1>2, MainMoves

LEMMA JoinStep ==
  ASSUME DatastoreInv, NEW r \in Routers, Join(r)
  PROVE  DatastoreInv'
<1>0. RouterType /\ RingType /\ RegType /\ PastType
  BY Types DEF DatastoreInv
<1>1. /\ UNCHANGED osVars /\ UNCHANGED regVars /\ UNCHANGED storeVars /\ UNCHANGED faultVars
      /\ UNCHANGED <<rHeld, published>> /\ Quit(r)
  BY DEF Join
<1>2. /\ MutexMoves(r) /\ mutex' \in [Gens -> Stores \cup Routers \cup {Dead, None}]
      /\ deaths' \in Nat /\ deaths' >= deaths /\ RingType' /\ rHeld' \in [Routers -> SUBSET Facades]
  BY <1>0, <1>1 DEF MutexMoves, RegType, PastType, RingType, RouterType, regVars, faultVars
<1> QED
  BY <1>1, <1>2, Quits DEF regVars, faultVars

(* A mutex the router held is dead: it held that of its own register only. *)
LEMMA VanishStep ==
  ASSUME DatastoreInv, NEW r \in Routers, Vanish(r),
         ring' \in [Gens -> Seq(Routers \cup {Dead})]
  PROVE  DatastoreInv'
<1>0. RouterType /\ RingType /\ RegType /\ PastType
  BY Types DEF DatastoreInv
<1>1. /\ UNCHANGED osVars /\ UNCHANGED storeVars
      /\ UNCHANGED <<named, gens, region, inUse, removals, abandoned, published>>
      /\ Quit(r) /\ rHeld' = [rHeld EXCEPT ![r] = {}] /\ posted' = posted \ {r}
      /\ mutex' = [g \in Gens |-> IF mutex[g] = r THEN Dead ELSE mutex[g]]
      /\ deaths' = deaths + 1
  BY DEF Vanish
<1>2. RingType' /\ rHeld' \in [Routers -> SUBSET Facades] /\ deaths' \in Nat /\ deaths' >= deaths
  BY <1>0, <1>1 DEF RingType, RouterType, PastType
<1>3. mutex' \in [Gens -> Stores \cup Routers \cup {Dead, None}]
  BY <1>0, <1>1 DEF RegType
<1>4. MutexMoves(r)
  <2>1. ASSUME NEW g \in Gens, g > gens PROVE mutex[g] = None
    BY <2>1 DEF DatastoreInv, GensInv
  <2>2. gens \in Nat /\ r # None
    BY <1>0, MadeOnes, Bounds
  <2> QED
    BY <1>1, <2>1, <2>2, Bounds DEF MutexMoves
<1> QED
  BY <1>1, <1>2, <1>3, <1>4, Quits

LEMMA RouterEnds ==
  ASSUME DatastoreInv, NEW r \in Routers, RouterDies(r) \/ RingFull(r)
  PROVE  DatastoreInv'
<1>0. RingType /\ RegType
  BY Types DEF DatastoreInv
<1>1. CASE RouterDies(r)
  <2>1. ASSUME NEW s \in Seq(Routers \cup {Dead})
        PROVE  [i \in DOMAIN s |-> IF s[i] = r THEN Dead ELSE s[i]] \in Seq(Routers \cup {Dead})
    <3> DEFINE t == [i \in 1..Len(s) |-> IF s[i] = r THEN Dead ELSE s[i]]
    <3>1. t \in [1..Len(s) -> Routers \cup {Dead}] /\ Len(s) \in Nat
      OBVIOUS
    <3>2. t \in Seq(Routers \cup {Dead})
      BY <3>1, IsASeq
    <3> QED
      BY <3>2
  <2>2. ring' \in [Gens -> Seq(Routers \cup {Dead})]
    BY <1>0, <1>1, <2>1 DEF RouterDies, RingType
  <2> QED
    BY <1>1, <2>2, VanishStep DEF RouterDies
<1>2. CASE RingFull(r)
  <2>1. rGen[r] \in Gens
    BY <1>0, <1>2, MadeOnes DEF DatastoreInv, RoutersInv, RouterInv, RingFull
  <2>2. ring' \in [Gens -> Seq(Routers \cup {Dead})]
    BY <1>0, <1>2, <2>1 DEF RingFull, RingType
  <2> QED
    BY <1>2, <2>2, VanishStep DEF RingFull
<1> QED
  BY <1>1, <1>2

LEMMA RouterStep ==
  ASSUME DatastoreInv, NEW r \in Routers, RouterNext(r)
  PROVE  DatastoreInv'
BY StartStep, LockWatchStep, ConstructStep, SleepStep, WakeStep, SwitchStep, StopStep, QueryStep,
   ShutdownStep, WakeThreadStep, JoinStep, RouterEnds DEF RouterNext

-----------------------------------------------------------------------------
(* What a step of a store leaves to the routers and the other stores.       *)

(* The lock on the file: all the other stores are idle. *)
Solo(w) == \A v \in Stores \ {w} : sPC[v] = "idle" /\ sNew[v] = NoKeys /\ sOld[v] = <<>>
StoresAside(w) == \A v \in Stores \ {w} :
  /\ sPC'[v] = sPC[v] /\ sGen'[v] = sGen[v] /\ sRun'[v] = sRun[v]
  /\ sStatic'[v] = sStatic[v] /\ sNew'[v] = sNew[v] /\ sOld'[v] = sOld[v]

LEMMA AtWork ==
  ASSUME DatastoreInv, NEW w \in Stores, Working(w) \/ fileLock = None
  PROVE  Solo(w) /\ (StoresAside(w) => Solo(w)')
<1>1. ASSUME NEW v \in Stores \ {w} PROVE sPC[v] = "idle"
  <2>1. Alone(w) /\ Alone(v)
    BY DEF DatastoreInv, StoresInv
  <2> QED
    BY <2>1, Bounds DEF Alone, Working
<1>2. Solo(w)
  BY <1>1 DEF Solo, DatastoreInv, StoresInv, Prepared
<1> QED
  BY <1>2 DEF Solo, StoresAside

KeysOf(w) == named # 0 =>
  /\ (\A k \in Kinds : Registered(named, k)) =>
       region[named]["static"].key # region[named]["updatable"].key
  /\ RegisteredKeys(named) \subseteq inUse[named]
  /\ Spare(w)
  /\ Fault \/ inUse[named] \subseteq RegisteredKeys(named) \cup NewKeys(w) \cup OldKeys(w)
SegsOf(w) ==
  /\ \A s \in filled : s.run <= runs
  /\ named # 0 =>
       /\ \A k \in Kinds : Registered(named, k) => shm[region[named][k].key] # None
       /\ Stored(w)

LEMMA NoKeysAtAll ==
  ASSUME NEW v, sNew[v] = NoKeys, sOld[v] = <<>>
  PROVE  NewKeys(v) = {} /\ OldKeys(v) = {}
BY DEF NewKeys, OldKeys, NoKeys

LEMMA SoloHas ==
  ASSUME DatastoreInv, NEW w \in Stores, Solo(w)
  PROVE  KeysOf(w) /\ SegsOf(w) /\ Alone(w) /\ Prepared(w)
<1>1. \A v \in Stores \ {w} : NewKeys(v) = {} /\ OldKeys(v) = {}
  BY NoKeysAtAll DEF Solo
<1>2. UNION {NewKeys(v) \cup OldKeys(v) : v \in Stores} = NewKeys(w) \cup OldKeys(w)
  BY <1>1
<1>3. KeysOf(w)
  BY <1>2 DEF DatastoreInv, KeysInv, KeysOf
<1>4. SegsOf(w)
  BY DEF DatastoreInv, SegsInv, SegsOf
<1> QED
  BY <1>3, <1>4 DEF DatastoreInv, StoresInv

(* A facade stays sound: the datasets of the runs begun do not change. *)
DataKept ==
  /\ filled \subseteq filled' /\ runs' >= runs /\ \A v \in Runs : v <= runs => base'[v] = base[v]

LEMMA StaysSound ==
  ASSUME OsType, RunType, NEW f, \A k \in Kinds : f[k] \in filled, Matches(f),
         \A s \in filled : s.run <= runs, DataKept
  PROVE  (\A k \in Kinds : f[k] \in filled') /\ Matches(f)'
<1>1. f["updatable"] \in filled /\ f["updatable"] \in Segs
  BY DEF Kinds, OsType
<1>2. f["updatable"].run \in Runs /\ f["updatable"].run <= runs
  BY <1>1 DEF Segs
<1> QED
  BY <1>2 DEF DataKept, Matches

LEMMA StoreMoves ==
  ASSUME DatastoreInv, NEW w \in Stores, UNCHANGED <<rPC, rMain, rGen, rSeen, rFacade, rHeld>>,
         Solo(w)', OsType', RegType', RingType', RunType', StoreType', PastType',
         Alone(w)', Prepared(w)', InSwap(w)' => mutex'[sGen'[w]] = w,
         \A g \in Gens : mutex'[g] # mutex[g] => mutex[g] \in {None, w},
         gens' >= gens,
         \A g \in Gens : \A k \in Kinds :
           region'[g][k] = region[g][k] \/ region'[g][k].time > region[g][k].time,
         named' \in {0, named} \/ named' > gens, DataKept,
         GensInv', KeysOf(w)', SegsOf(w)', WholeInv'
  PROVE  DatastoreInv'
<1>0. OsType /\ RegType /\ RunType /\ RouterType
  BY Types DEF DatastoreInv
<1>1. TypeOK'
  <2>1. RouterType'
    BY <1>0 DEF RouterType
  <2> QED
    BY <2>1 DEF OsType, RegType, RingType, RunType, StoreType, RouterType, PastType, TypeOK
<1>2. StoresInv'
  <2>1. \A v \in Stores \ {w} : Alone(v)' /\ Prepared(v)'
    BY DEF Solo, Alone, Prepared, Working
  <2> QED
    BY <2>1 DEF StoresInv
<1>3. LocksInv'
  <2>1. ASSUME NEW r \in Routers, Watching(r)' PROVE mutex'[rGen'[r]] = r
    <3>1. Watching(r) /\ rGen'[r] = rGen[r]
      BY <2>1 DEF Watching
    <3>2. mutex[rGen[r]] = r /\ rGen[r] \in Gens
      BY <1>0, <3>1, MadeOnes DEF DatastoreInv, LocksInv, RoutersInv, RouterInv, Watching
    <3> QED
      BY <3>1, <3>2, Bounds
  <2>2. \A v \in Stores \ {w} : ~InSwap(v)'
    BY DEF Solo, InSwap
  <2> QED
    BY <2>1, <2>2 DEF LocksInv
<1>4. RoutersInv'
  <2>1. ASSUME NEW r \in Routers PROVE RouterInv(r)'
    <3>1. RouterInv(r) /\ gens \in Nat /\ gens' \in Nat
      BY <1>0, MadeOnes DEF DatastoreInv, RoutersInv, RegType
    <3>2. rPC[r] # "down" => rGen[r] \in Gens /\ rGen[r] \in 1..gens'
      BY <1>0, <3>1, MadeOnes DEF RouterInv
    <3>3. ASSUME Up(r), NEW k \in Kinds
          PROVE  \/ rSeen[r][k] = region'[rGen[r]][k]
                 \/ rSeen[r][k].time < region'[rGen[r]][k].time
      <4>1. rGen[r] \in Gens
        BY <3>2, <3>3 DEF Up
      <4>2. /\ rSeen[r][k].time \in Nat /\ region[rGen[r]][k].time \in Nat
            /\ region'[rGen[r]][k].time \in Nat
        BY <1>0, <4>1 DEF RouterType, RegType
      <4> QED
        BY <3>1, <3>3, <4>1, <4>2 DEF RouterInv
    <3> QED
      BY <3>1, <3>2, <3>3 DEF RouterInv, Up
  <2> QED
    BY <2>1 DEF RoutersInv
<1>5. KeysInv'
  <2>1. \A v \in Stores \ {w} : NewKeys(v)' = {} /\ OldKeys(v)' = {}
    BY DEF Solo, NewKeys, OldKeys, NoKeys
  <2>2. \A v \in Stores \ {w} : Spare(v)'
    BY <2>1 DEF Spare, Solo, NoKeys, Kinds
  <2>3. UNION {NewKeys(v)' \cup OldKeys(v)' : v \in Stores} = NewKeys(w)' \cup OldKeys(w)'
    BY <2>1
  <2> QED
    BY <2>2, <2>3 DEF KeysOf, KeysInv
<1>6. SegsInv'
  <2>1. ASSUME NEW v \in Stores \ {w} PROVE Stored(v)'
    <3>1. sPC'[v] = "idle" /\ sNew'[v] = NoKeys
      BY DEF Solo
    <3>2. \A k \in Kinds : sNew'[v][k] = None
      BY <3>1 DEF NoKeys
    <3> QED
      BY <3>1, <3>2 DEF Stored, Loaded, Working
  <2> QED
    BY <2>1 DEF SegsOf, SegsInv
<1>7. FacadeSound'
  <2> SUFFICES ASSUME NEW r \in Routers, Follows(r)'
               PROVE  (\A k \in Kinds : rFacade'[r][k] \in filled') /\ Matches(rFacade[r])'
    BY DEF FacadeSound
  <2>1. rFacade[r] # None /\ rGen[r] \in 1..gens /\ rGen[r] = named' /\ gens \in Nat
    BY <1>0, MadeOnes DEF Follows, DatastoreInv, RoutersInv, RouterInv, Up
  <2>2. Follows(r)
    BY <2>1 DEF Follows
  <2>3. (\A k \in Kinds : rFacade[r][k] \in filled) /\ Matches(rFacade[r])
    BY <2>2 DEF DatastoreInv, FacadeSound
  <2>4. \A s \in filled : s.run <= runs
    BY DEF DatastoreInv, SegsInv
  <2>5. PICK f : f = rFacade[r]
    OBVIOUS
  <2>6. (\A k \in Kinds : f[k] \in filled') /\ Matches(f)'
    BY <1>0, <2>3, <2>4, <2>5, StaysSound
  <2> QED
    BY <2>5, <2>6 DEF Matches
<1> QED
  BY <1>1, <1>2, <1>3, <1>4, <1>5, <1>6, <1>7 DEF DatastoreInv

-----------------------------------------------------------------------------
(* The steps of a store that leave the register's regions alone.            *)

StorePCs == {"idle", "static", "updatable", "populate", "lock", "swap static", "swap updatable",
             "unlock", "notify", "retire", "detach"}

LEMMA WorkersFacts ==
  ASSUME DatastoreInv, NEW w \in Stores, Working(w)
  PROVE  /\ OsType /\ RegType /\ RingType /\ RunType /\ StoreType /\ RouterType /\ PastType
         /\ Solo(w) /\ KeysOf(w) /\ SegsOf(w) /\ Alone(w) /\ Prepared(w) /\ GensInv
         /\ fileLock = w /\ sGen[w] \in Gens /\ sGen[w] <= gens /\ named \in {0, sGen[w]}
         /\ sRun[w] = runs /\ runs \in Runs /\ (InSwap(w) => mutex[sGen[w]] = w)
<1>1. OsType /\ RegType /\ RingType /\ RunType /\ StoreType /\ RouterType /\ PastType
  BY Types DEF DatastoreInv
<1>2. Solo(w) /\ KeysOf(w) /\ SegsOf(w) /\ Alone(w) /\ Prepared(w)
  BY AtWork, SoloHas
<1>3. sGen[w] \in Gens /\ sGen[w] <= gens
  BY <1>1, <1>2, MadeOnes DEF Alone
<1> QED
  BY <1>1, <1>2, <1>3 DEF Alone, DatastoreInv, LocksInv

LEMMA GensKeep ==
  ASSUME RegType, GensInv, NEW w, MutexMoves(w),
         UNCHANGED <<named, gens, removals, region, inUse, published>>
  PROVE  GensInv'
<1>1. gens \in Nat /\ Gens \subseteq Nat
  BY MadeOnes, Bounds
<1>2. \A g \in Gens : g > gens => mutex'[g] = mutex[g]
  BY <1>1 DEF MutexMoves
<1> QED
  BY <1>2 DEF GensInv

LEMMA DataStays ==
  ASSUME RunType, RegType, UNCHANGED <<runs, base, gens>>, filled \subseteq filled'
  PROVE  DataKept /\ gens' >= gens
<1>1. runs \in Nat /\ gens \in Nat
  BY MadeOnes, Bounds DEF RunType
<1> QED
  BY <1>1 DEF DataKept

LEMMA WholeKeeps ==
  ASSUME WholeInv, UNCHANGED <<named, region, base, published>>, filled \subseteq filled',
         named # 0 /\ (\A k \in Kinds : Registered(named, k)) =>
           \A k \in Kinds : shm'[region[named][k].key] = shm[region[named][k].key],
         named # 0 /\ mutex[named] = Dead => mutex'[named] = Dead,
         \A v \in Stores : named # 0 /\ Between(v) => Between(v)' \/ mutex'[named] = Dead
  PROVE  WholeInv'
<1> SUFFICES ASSUME named # 0, mutex'[named] # Dead, ~(\E w \in Stores : Between(w)')
             PROVE  Whole'
  BY DEF WholeInv
<1>1. Whole
  BY DEF WholeInv
<1>2. \A k \in Kinds : Registered(named, k)' = Registered(named, k)
  BY DEF Registered
<1>3. CASE \A k \in Kinds : Registered(named, k)
  <2>1. AtRegister(named)' = AtRegister(named)
    BY <1>3 DEF AtRegister
  <2>2. published[named] = AtRegister(named) /\ Sound(AtRegister(named))
    BY <1>1, <1>3 DEF Whole, Kinds
  <2>3. Sound(AtRegister(named))'
    BY <2>1, <2>2 DEF Sound, Matches
  <2> QED
    BY <1>2, <1>3, <2>1, <2>2, <2>3 DEF Whole
<1>4. CASE ~(\A k \in Kinds : Registered(named, k))
  BY <1>1, <1>2, <1>4 DEF Whole
<1> QED
  BY <1>3, <1>4

(* A step on: where the store is changes, and data, mutex or ring with it. *)
LEMMA StoreWorks ==
  ASSUME DatastoreInv, NEW w \in Stores, Working(w), NEW to \in StorePCs, Goto(w, to),
         to # "idle",
         UNCHANGED <<fileLock, named, gens, region, inUse, runs, base>>,
         UNCHANGED <<sGen, sRun, sStatic, sNew, sOld>>, UNCHANGED routerVars,
         UNCHANGED faultVars, published' = published,
         shm' \in [Keys -> Segs \cup {None}], filled' \subseteq Segs, filled \subseteq filled',
         \A s \in filled' : s.run <= runs,
         named # 0 => \A k \in Kinds :
           Registered(named, k) => shm'[region[named][k].key] = shm[region[named][k].key],
         RingType', mutex' \in [Gens -> Stores \cup Routers \cup {Dead, None}], MutexMoves(w),
         Prepared(w)', InSwap(w)' => mutex'[sGen[w]] = w, named # 0 => Stored(w)',
         Between(w) => to = "swap updatable"
  PROVE  DatastoreInv'
<1>0. /\ OsType /\ RegType /\ RunType /\ StoreType /\ PastType
      /\ Solo(w) /\ KeysOf(w) /\ SegsOf(w) /\ Alone(w) /\ GensInv
      /\ sPC' = [sPC EXCEPT ![w] = to]
      /\ UNCHANGED <<rPC, rMain, rGen, rSeen, rFacade, rHeld>>
      /\ UNCHANGED <<deaths, removals, abandoned>>
  BY WorkersFacts DEF Goto, routerVars, faultVars
<1>1. /\ sPC'[w] = to /\ (\A v \in Stores \ {w} : sPC'[v] = sPC[v])
      /\ sPC' \in [Stores -> StorePCs]
  BY <1>0 DEF StoreType, StorePCs
<1>2. Solo(w)' /\ Alone(w)'
  BY <1>0, <1>1 DEF Solo, Alone, Working
<1>3. OsType' /\ RegType' /\ RunType' /\ StoreType' /\ PastType'
  BY <1>0, <1>1 DEF OsType, RegType, RunType, StoreType, StorePCs, PastType
<1>4. GensInv'
  BY <1>0, GensKeep
<1>5. KeysOf(w)'
  <2>1. \A k \in Kinds : Registered(named, k)' = Registered(named, k)
    BY DEF Registered
  <2>2. /\ RegisteredKeys(named)' = RegisteredKeys(named)
        /\ NewKeys(w)' = NewKeys(w) /\ OldKeys(w)' = OldKeys(w)
    BY <2>1 DEF RegisteredKeys, Registered, NewKeys, OldKeys
  <2>3. (Fault <=> Fault') /\ (Spare(w) => Spare(w)')
    BY <1>0, <2>2 DEF Fault, Faulty, Spare
  <2> QED
    BY <1>0, <2>1, <2>2, <2>3 DEF KeysOf
<1>6. SegsOf(w)'
  BY <1>0 DEF SegsOf, Registered
<1>7. WholeInv'
  <2>1. \A v \in Stores : Between(v) => Between(v)'
    <3>1. \A v \in Stores \ {w} : ~Between(v)
      BY <1>0 DEF Solo, Between
    <3> QED
      BY <1>1, <3>1 DEF Between, OnFullRun
  <2>2. named # 0 /\ mutex[named] = Dead => mutex'[named] = Dead
    BY <1>0, MadeOnes, Bounds DEF MutexMoves
  <2> QED
    BY <2>1, <2>2, WholeKeeps DEF DatastoreInv
<1>8. gens' >= gens /\ DataKept
  BY <1>0, DataStays
<1>9. /\ \A g \in Gens : \A k \in Kinds : region'[g][k] = region[g][k]
      /\ \A g \in Gens : mutex'[g] # mutex[g] => mutex[g] \in {None, w}
  BY <1>0 DEF MutexMoves
<1> QED
  BY <1>0, <1>2, <1>3, <1>4, <1>5, <1>6, <1>7, <1>8, <1>9, StoreMoves

(* The end of a run: only a fault leaves keys in use. *)
LEMMA StoreLeaves ==
  ASSUME DatastoreInv, NEW w \in Stores, Working(w), Leave(w),
         UNCHANGED <<filled, named, gens, region, inUse, ring, posted, runs, base, published>>,
         UNCHANGED routerVars, removals' = removals,
         deaths' \in Nat, deaths' >= deaths, abandoned' \in {abandoned, 1},
         Fault' \/ NewKeys(w) \cup OldKeys(w) = {},
         shm' \in [Keys -> Segs \cup {None}],
         named # 0 => \A k \in Kinds :
           Registered(named, k) => shm'[region[named][k].key] = shm[region[named][k].key],
         mutex' \in [Gens -> Stores \cup Routers \cup {Dead, None}], MutexMoves(w),
         named # 0 /\ Between(w) => mutex'[named] = Dead
  PROVE  DatastoreInv'
<1>0. /\ OsType /\ RegType /\ RingType /\ RunType /\ StoreType /\ PastType
      /\ Solo(w) /\ KeysOf(w) /\ SegsOf(w) /\ GensInv
      /\ UNCHANGED <<rPC, rMain, rGen, rSeen, rFacade, rHeld>>
  BY WorkersFacts DEF routerVars
<1>1. /\ StoreType' /\ fileLock' = None
      /\ sPC'[w] = "idle" /\ sNew'[w] = NoKeys /\ sOld'[w] = <<>>
      /\ StoresAside(w)
  BY <1>0, LeaveTypes DEF StoresAside
<1>2. Solo(w)' /\ Alone(w)' /\ ~InSwap(w)'
  BY <1>0, <1>1 DEF Solo, StoresAside, Alone, Working, InSwap
<1>3. Prepared(w)'
  BY <1>1 DEF Prepared, NoKeys, Kinds
<1>4. OsType' /\ RegType' /\ RingType' /\ RunType' /\ PastType'
  BY <1>0, <1>1 DEF OsType, RegType, RingType, RunType, PastType
<1>5. GensInv'
  BY <1>0, GensKeep
<1>6. KeysOf(w)'
  <2>1. \A k \in Kinds : Registered(named, k)' = Registered(named, k)
    BY DEF Registered
  <2>2. RegisteredKeys(named)' = RegisteredKeys(named)
    BY <2>1 DEF RegisteredKeys
  <2>3. NewKeys(w)' = {} /\ OldKeys(w)' = {}
    BY <1>1 DEF NewKeys, OldKeys, NoKeys
  <2>4. Spare(w)'
    BY <1>1, <2>3 DEF Spare, NoKeys, Kinds
  <2>5. Fault => Fault'
    BY <1>0 DEF Fault, Faulty, PastType
  <2> QED
    BY <1>0, <2>1, <2>2, <2>3, <2>4, <2>5 DEF KeysOf
<1>7. SegsOf(w)'
  <2>1. Stored(w)'
    <3>1. \A k \in Kinds : sNew'[w][k] = None
      BY <1>1 DEF NoKeys
    <3> QED
      BY <1>1, <3>1 DEF Stored, Loaded, Working
  <2>2. \A k \in Kinds : Registered(named, k)' = Registered(named, k)
    BY DEF Registered
  <2> QED
    BY <1>0, <2>1, <2>2 DEF SegsOf
<1>8. WholeInv'
  <2>1. \A v \in Stores \ {w} : ~Between(v)
    BY <1>0 DEF Solo, Between
  <2>2. named # 0 /\ mutex[named] = Dead => mutex'[named] = Dead
    BY <1>0, MadeOnes, Bounds DEF MutexMoves
  <2> QED
    BY <2>1, <2>2, WholeKeeps DEF DatastoreInv
<1>9. /\ gens' >= gens /\ DataKept
      /\ \A g \in Gens : \A k \in Kinds : region'[g][k] = region[g][k]
      /\ \A g \in Gens : mutex'[g] # mutex[g] => mutex[g] \in {None, w}
  BY <1>0, DataStays DEF MutexMoves
<1> QED
  BY <1>0, <1>1, <1>2, <1>3, <1>4, <1>5, <1>6, <1>7, <1>8, <1>9, StoreMoves

LEMMA PopulateStep ==
  ASSUME DatastoreInv, NEW w \in Stores, Populate(w)
  PROVE  DatastoreInv'
<1> DEFINE loaded == {[kind |-> k, run |-> sRun[w]] : k \in {k \in Kinds : sNew[w][k] # None}}
<1>1. /\ sPC[w] = "populate" /\ ChecksumsAgree(w) /\ filled' = filled \cup loaded
      /\ Goto(w, "lock") /\ UNCHANGED <<fileLock, shm, regVars, runs, base, published>>
      /\ UNCHANGED <<sGen, sRun, sStatic, sNew, sOld>> /\ UNCHANGED routerVars
      /\ UNCHANGED faultVars
  BY DEF Populate
<1>2. Working(w) /\ "lock" \in StorePCs
  BY <1>1 DEF Working, StorePCs
<1>3. /\ OsType /\ RegType /\ RingType /\ RunType /\ StoreType /\ PastType
      /\ SegsOf(w) /\ Prepared(w) /\ sRun[w] = runs /\ runs \in Runs /\ runs \in Nat
  BY <1>2, WorkersFacts, Bounds
<1>4. UNCHANGED <<named, gens, region, inUse, mutex, ring, posted>>
  BY <1>1 DEF regVars
<1>5. loaded \subseteq Segs /\ \A s \in loaded : s.run <= runs
  BY <1>3 DEF Segs
<1>6. sPC'[w] = "lock"
  BY <1>1, <1>3 DEF Goto, StoreType
<1>7. Prepared(w)' /\ ~InSwap(w)' /\ ~Between(w)
  BY <1>1, <1>3, <1>6 DEF Prepared, OnFullRun, InSwap, Between
<1>8. MutexMoves(w) /\ mutex' \in [Gens -> Stores \cup Routers \cup {Dead, None}] /\ RingType'
  BY <1>3, <1>4 DEF MutexMoves, RegType, RingType
<1>9. named # 0 => Stored(w)'
  <2> SUFFICES ASSUME named # 0 PROVE Stored(w)'
    OBVIOUS
  <2>1. Stored(w)
    BY <1>3 DEF SegsOf
  <2>2. \A k \in Kinds : sNew[w][k] # None =>
          shm'[sNew'[w][k]] = Seg(k)' /\ Seg(k)' \in filled'
    <3>1. ASSUME NEW k \in Kinds, sNew[w][k] # None PROVE Seg(k) \in loaded
      BY <1>3, <3>1 DEF Seg
    <3> QED
      BY <1>1, <2>1, <3>1 DEF Stored, Seg
  <2>3. base[runs] = IF OnFullRun(w) THEN runs ELSE sStatic[w]
    BY <1>1, <1>2, <1>3, <2>1 DEF Stored, ChecksumsAgree, OnFullRun
  <2> QED
    BY <1>1, <1>2, <1>4, <1>6, <2>1, <2>2, <2>3 DEF Stored, OnFullRun, Loaded, Working,
       Registered
<1> HIDE DEF loaded
<1>10. filled' \subseteq Segs /\ filled \subseteq filled' /\ \A s \in filled' : s.run <= runs
  BY <1>1, <1>3, <1>5 DEF OsType, SegsOf
<1>11. shm' \in [Keys -> Segs \cup {None}] /\ shm' = shm
  BY <1>1, <1>3 DEF OsType
<1> QED
  BY <1>1, <1>2, <1>4, <1>7, <1>8, <1>9, <1>10, <1>11, StoreWorks

LEMMA LockRegisterStep ==
  ASSUME DatastoreInv, NEW w \in Stores, LockRegister(w)
  PROVE  DatastoreInv'
<1> DEFINE to == IF sStatic[w] # 0 THEN "swap updatable" ELSE "swap static"
<1>1. /\ sPC[w] = "lock" /\ Lock(w, sGen[w]) /\ Goto(w, to)
      /\ UNCHANGED <<fileLock, shm, filled, named, gens, region, inUse, ring, posted, runs, base>>
      /\ UNCHANGED <<sGen, sRun, sStatic, sNew, sOld>> /\ UNCHANGED routerVars
      /\ UNCHANGED faultVars /\ published' = published
  BY DEF LockRegister, osVars
<1>2. Working(w) /\ to \in StorePCs /\ to # "idle"
  BY <1>1 DEF Working, StorePCs
<1>3. /\ OsType /\ RegType /\ RingType /\ StoreType /\ SegsOf(w) /\ Prepared(w)
      /\ sGen[w] \in Gens /\ sGen[w] <= gens
  BY <1>2, WorkersFacts
<1>4. sPC'[w] = to
  BY <1>1, <1>3 DEF Goto, StoreType
<1>5. Prepared(w)' /\ ~Between(w)
  <2>1. CASE sStatic[w] # 0
    <3>1. sNew[w]["static"] = None
      BY <1>1, <1>3, <2>1 DEF Prepared, OnFullRun, StoreType, Kinds
    <3> QED
      BY <1>1, <1>3, <1>4, <2>1, <3>1 DEF Prepared, OnFullRun, Between
  <2>2. CASE sStatic[w] = 0
    BY <1>1, <1>3, <1>4, <2>2 DEF Prepared, OnFullRun, Between
  <2> QED
    BY <2>1, <2>2
<1>6. /\ MutexMoves(w) /\ mutex' \in [Gens -> Stores \cup Routers \cup {Dead, None}]
      /\ mutex'[sGen[w]] = w
  BY <1>1, <1>3 DEF MutexMoves, RegType, Lock
<1>7. named # 0 => Stored(w)'
  <2> SUFFICES ASSUME named # 0 PROVE Stored(w)'
    OBVIOUS
  <2>1. Stored(w)
    BY <1>3 DEF SegsOf
  <2>2. Loaded(w) /\ ~(to = "swap updatable" /\ OnFullRun(w))
    BY <1>1 DEF Loaded, OnFullRun
  <2> HIDE DEF to
  <2> QED
    BY <1>1, <1>4, <2>1, <2>2 DEF Stored, OnFullRun, Loaded, Working, Registered, Seg
<1>8. /\ RingType' /\ shm' \in [Keys -> Segs \cup {None}] /\ shm' = shm
      /\ filled' \subseteq Segs /\ filled \subseteq filled' /\ \A s \in filled' : s.run <= runs
  BY <1>1, <1>3 DEF RingType, OsType, SegsOf
<1> HIDE DEF to
<1> QED
  BY <1>1, <1>2, <1>5, <1>6, <1>7, <1>8, StoreWorks

LEMMA UnlockRegisterStep ==
  ASSUME DatastoreInv, NEW w \in Stores, UnlockRegister(w)
  PROVE  DatastoreInv'
<1>1. /\ sPC[w] = "unlock" /\ mutex' = [mutex EXCEPT ![sGen[w]] = None] /\ Goto(w, "notify")
      /\ UNCHANGED <<fileLock, shm, filled, named, gens, region, inUse, ring, posted, runs, base>>
      /\ UNCHANGED <<sGen, sRun, sStatic, sNew, sOld>> /\ UNCHANGED routerVars
      /\ UNCHANGED faultVars /\ published' = published
  BY DEF UnlockRegister, osVars
<1>2. Working(w) /\ "notify" \in StorePCs /\ InSwap(w)
  BY <1>1 DEF Working, StorePCs, InSwap
<1>3. /\ OsType /\ RegType /\ RingType /\ StoreType /\ SegsOf(w) /\ Prepared(w)
      /\ sGen[w] \in Gens /\ sGen[w] <= gens /\ mutex[sGen[w]] = w
  BY <1>2, WorkersFacts
<1>4. sPC'[w] = "notify"
  BY <1>1, <1>3 DEF Goto, StoreType
<1>5. Prepared(w)' /\ ~Between(w) /\ ~InSwap(w)'
  BY <1>1, <1>3, <1>4 DEF Prepared, OnFullRun, Between, InSwap
<1>6. MutexMoves(w) /\ mutex' \in [Gens -> Stores \cup Routers \cup {Dead, None}]
  BY <1>1, <1>3 DEF MutexMoves, RegType
<1>7. named # 0 => Stored(w)'
  BY <1>1, <1>2, <1>3, <1>4 DEF SegsOf, Stored, OnFullRun, Loaded, Working, Registered, Seg
<1>8. /\ RingType' /\ shm' \in [Keys -> Segs \cup {None}] /\ shm' = shm
      /\ filled' \subseteq Segs /\ filled \subseteq filled' /\ \A s \in filled' : s.run <= runs
  BY <1>1, <1>3 DEF RingType, OsType, SegsOf
<1> QED
  BY <1>1, <1>2, <1>5, <1>6, <1>7, <1>8, StoreWorks

LEMMA NotifyRoutersStep ==
  ASSUME DatastoreInv, NEW w \in Stores, NotifyRouters(w)
  PROVE  DatastoreInv'
<1>1. /\ sPC[w] = "notify" /\ Goto(w, "retire") /\ NotifyAll(sGen[w]) /\ mutex' = mutex
      /\ UNCHANGED <<fileLock, shm, filled, named, gens, region, inUse, runs, base>>
      /\ UNCHANGED <<sGen, sRun, sStatic, sNew, sOld>> /\ UNCHANGED routerVars
      /\ UNCHANGED faultVars /\ published' = published
  BY DEF NotifyRouters, osVars
<1>2. Working(w) /\ "retire" \in StorePCs
  BY <1>1 DEF Working, StorePCs
<1>3. OsType /\ RegType /\ RingType /\ StoreType /\ SegsOf(w) /\ Prepared(w)
  BY <1>2, WorkersFacts
<1>4. sPC'[w] = "retire"
  BY <1>1, <1>3 DEF Goto, StoreType
<1>5. Prepared(w)' /\ ~Between(w) /\ ~InSwap(w)'
  BY <1>1, <1>3, <1>4 DEF Prepared, OnFullRun, Between, InSwap
<1>6. MutexMoves(w) /\ mutex' \in [Gens -> Stores \cup Routers \cup {Dead, None}]
  BY <1>1, <1>3 DEF MutexMoves, RegType
<1>7. named # 0 => Stored(w)'
  BY <1>1, <1>2, <1>3, <1>4 DEF SegsOf, Stored, OnFullRun, Loaded, Working, Registered, Seg
<1>8. /\ RingType' /\ shm' \in [Keys -> Segs \cup {None}] /\ shm' = shm
      /\ filled' \subseteq Segs /\ filled \subseteq filled' /\ \A s \in filled' : s.run <= runs
  BY <1>1, <1>3, NotifyTypes DEF OsType, SegsOf
<1> QED
  BY <1>1, <1>2, <1>5, <1>6, <1>7, <1>8, StoreWorks

(* The handles of the old regions, first in, first out. *)
LEMMA Queues ==
  ASSUME NEW S, NEW s \in Seq(S), s # <<>>
  PROVE  /\ 1 \in DOMAIN s /\ Head(s) = s[1] /\ Tail(s) \in Seq(S)
         /\ \A i \in DOMAIN Tail(s) : i + 1 \in DOMAIN s /\ Tail(s)[i] = s[i + 1] /\ i \in Nat
         /\ \A i \in DOMAIN s \ {1} : i - 1 \in DOMAIN Tail(s) /\ Tail(s)[i - 1] = s[i]
         /\ DOMAIN s \subseteq Nat
<1>1. /\ Len(s) \in Nat \ {0} /\ DOMAIN s = 1..Len(s) /\ Len(Tail(s)) = Len(s) - 1
      /\ Tail(s) \in Seq(S) /\ DOMAIN Tail(s) = 1..(Len(s) - 1) /\ Head(s) = s[1]
      /\ \A i \in 1..(Len(s) - 1) : Tail(s)[i] = s[i + 1]
  BY EmptySeq, HeadTailProperties
<1> QED
  BY <1>1

(* The segments marked for destruction are not the registered ones. *)
LEMMA MarkOldStep ==
  ASSUME DatastoreInv, NEW w \in Stores, MarkOld(w)
  PROVE  DatastoreInv'
<1> DEFINE old == Head(sOld[w]).key
<1>1. /\ sPC[w] = "retire" /\ sOld[w] # <<>> /\ RemoveSegments({old}) /\ Goto(w, "detach")
      /\ UNCHANGED <<fileLock, filled, regVars, runs, base, published>>
      /\ UNCHANGED <<sGen, sRun, sStatic, sNew, sOld>> /\ UNCHANGED routerVars
      /\ UNCHANGED faultVars
  BY DEF MarkOld
<1>2. Working(w) /\ "detach" \in StorePCs
  BY <1>1 DEF Working, StorePCs
<1>3. /\ OsType /\ RegType /\ RingType /\ StoreType /\ SegsOf(w) /\ Prepared(w) /\ KeysOf(w)
      /\ named \in {0, sGen[w]} /\ sGen[w] \in Gens
  BY <1>2, WorkersFacts
<1>4. sPC'[w] = "detach"
  BY <1>1, <1>3 DEF Goto, StoreType
<1>5. Prepared(w)' /\ ~Between(w) /\ ~InSwap(w)'
  BY <1>1, <1>3, <1>4 DEF Prepared, OnFullRun, Between, InSwap
<1>6. old \in OldKeys(w) /\ sNew[w] = NoKeys
  <2>1. sOld[w] \in Seq([key : Keys, seg : Segs])
    BY <1>3 DEF StoreType
  <2>2. 1 \in DOMAIN sOld[w] /\ Head(sOld[w]) = sOld[w][1]
    BY <1>1, <2>1, Queues
  <2> QED
    BY <1>1, <1>3, <2>2 DEF OldKeys, Prepared
<1>7. UNCHANGED <<named, gens, region, inUse, mutex, ring, posted>>
  BY <1>1 DEF regVars
<1>8. shm' = [k \in Keys |-> IF k \in {old} THEN None ELSE shm[k]]
  BY <1>1 DEF RemoveSegments
<1> HIDE DEF old
<1>9. /\ shm' \in [Keys -> Segs \cup {None}]
      /\ named # 0 => \A k \in Kinds :
           Registered(named, k) => shm'[region[named][k].key] = shm[region[named][k].key]
  <2>1. shm' \in [Keys -> Segs \cup {None}]
    BY <1>3, <1>8 DEF OsType
  <2>2. ASSUME named # 0, NEW k \in Kinds, Registered(named, k)
        PROVE  shm'[region[named][k].key] = shm[region[named][k].key]
    <3>1. region[named][k].key \in RegisteredKeys(named)
      BY <2>2 DEF RegisteredKeys
    <3>2. region[named][k].key # old
      BY <1>3, <1>6, <2>2, <3>1 DEF KeysOf, Spare
    <3>3. region[named][k].key \in Keys
      BY <1>3, <2>2 DEF RegType
    <3> QED
      BY <1>8, <3>2, <3>3
  <2> QED
    BY <2>1, <2>2
<1>10. named # 0 => Stored(w)'
  <2>1. \A k \in Kinds : sNew'[w][k] = None
    BY <1>1, <1>6 DEF NoKeys
  <2> QED
    BY <1>1, <1>2, <1>3, <1>4, <2>1 DEF SegsOf, Stored, OnFullRun, Loaded, Working
<1>11. /\ RingType' /\ MutexMoves(w) /\ mutex' \in [Gens -> Stores \cup Routers \cup {Dead, None}]
       /\ filled' \subseteq Segs /\ filled \subseteq filled' /\ \A s \in filled' : s.run <= runs
  BY <1>1, <1>3, <1>7 DEF RingType, MutexMoves, RegType, OsType, SegsOf
<1> QED
  BY <1>1, <1>2, <1>5, <1>7, <1>9, <1>10, <1>11, StoreWorks

-----------------------------------------------------------------------------
(* The ends of a run.                                                       *)

LEMMA FinishStep ==
  ASSUME DatastoreInv, NEW w \in Stores, Finish(w)
  PROVE  DatastoreInv'
<1>1. /\ sPC[w] = "retire" /\ sOld[w] = <<>> /\ Leave(w)
      /\ UNCHANGED <<shm, filled, named, gens, region, inUse, mutex, ring, posted, runs, base,
                     published, deaths, removals, abandoned>>
      /\ UNCHANGED routerVars
  BY DEF Finish, regVars, faultVars
<1>2. Working(w) /\ ~Between(w)
  BY <1>1 DEF Working, Between
<1>3. OsType /\ RegType /\ PastType /\ Prepared(w)
  BY <1>2, WorkersFacts
<1>4. NewKeys(w) \cup OldKeys(w) = {}
  BY <1>1, <1>3, NoKeysAtAll DEF Prepared
<1>5. /\ shm' \in [Keys -> Segs \cup {None}] /\ shm' = shm
      /\ mutex' \in [Gens -> Stores \cup Routers \cup {Dead, None}] /\ MutexMoves(w)
      /\ deaths' \in Nat /\ deaths' >= deaths
  BY <1>1, <1>3 DEF OsType, RegType, MutexMoves, PastType
<1> QED
  BY <1>1, <1>2, <1>4, <1>5, StoreLeaves

(* An update given up, the register untouched. *)
LEMMA GivenUp ==
  ASSUME DatastoreInv, NEW w \in Stores, Working(w), ~InSwap(w), Leave(w), abandoned' = 1,
         UNCHANGED <<shm, filled, named, gens, region, inUse, mutex, ring, posted, runs, base,
                     published>>,
         UNCHANGED <<deaths, removals>>, UNCHANGED routerVars
  PROVE  DatastoreInv'
<1>1. OsType /\ RegType /\ PastType
  BY WorkersFacts
<1>3. ~Between(w)
  BY DEF InSwap, Between
<1>4. Fault'
  BY DEF Fault
<1>2. /\ shm' \in [Keys -> Segs \cup {None}]
      /\ mutex' \in [Gens -> Stores \cup Routers \cup {Dead, None}] /\ MutexMoves(w)
      /\ deaths' \in Nat /\ deaths' >= deaths
  BY <1>1 DEF OsType, RegType, MutexMoves, PastType
<1> QED
  BY <1>2, <1>3, <1>4, StoreLeaves

LEMMA MetricMismatchStep ==
  ASSUME DatastoreInv, NEW w \in Stores, MetricMismatch(w)
  PROVE  DatastoreInv'
<1>1. Working(w) /\ ~InSwap(w)
  BY DEF MetricMismatch, Working, InSwap
<1> QED
  BY <1>1, GivenUp DEF MetricMismatch, regVars

LEMMA TimeOutStep ==
  ASSUME DatastoreInv, NEW w \in Stores, TimeOut(w)
  PROVE  DatastoreInv'
<1> DEFINE given == {sNew[w][k] : k \in Kinds}
<1>1. /\ sPC[w] = "lock" /\ RemoveSegments(given) /\ abandoned' = 1 /\ Leave(w)
      /\ UNCHANGED <<filled, named, gens, region, inUse, mutex, ring, posted, runs, base,
                     published>>
      /\ UNCHANGED <<deaths, removals>> /\ UNCHANGED routerVars
  BY DEF TimeOut, regVars
<1>2. Working(w) /\ ~Between(w) /\ Fault'
  BY <1>1 DEF Working, Between, Fault, Faulty
<1>3. OsType /\ RegType /\ PastType /\ KeysOf(w) /\ named \in {0, sGen[w]} /\ sGen[w] \in Gens
  BY <1>2, WorkersFacts
<1>4. /\ mutex' \in [Gens -> Stores \cup Routers \cup {Dead, None}] /\ MutexMoves(w)
      /\ deaths' \in Nat /\ deaths' >= deaths
  BY <1>1, <1>3 DEF RegType, MutexMoves, PastType
<1>5. shm' = [k \in Keys |-> IF k \in given THEN None ELSE shm[k]]
  BY <1>1 DEF RemoveSegments
<1>6. given \ {None} = NewKeys(w)
  BY DEF NewKeys
<1> HIDE DEF given
<1>7. shm' \in [Keys -> Segs \cup {None}]
  BY <1>3, <1>5 DEF OsType
<1>8. ASSUME named # 0, NEW k \in Kinds, Registered(named, k)
      PROVE  shm'[region[named][k].key] = shm[region[named][k].key]
  <2>1. region[named][k].key \in RegisteredKeys(named)
    BY <1>8 DEF RegisteredKeys
  <2>2. region[named][k].key \in Keys
    BY <1>3, <1>8 DEF RegType
  <2>3. region[named][k].key \notin given
    BY <1>3, <1>6, <1>8, <2>1, <2>2, Bounds DEF KeysOf, Spare
  <2> QED
    BY <1>5, <2>2, <2>3
<1> QED
  BY <1>1, <1>2, <1>4, <1>7, <1>8, StoreLeaves

LEMMA StoreDiesStep ==
  ASSUME DatastoreInv, NEW w \in Stores, StoreDies(w)
  PROVE  DatastoreInv'
<1>1. /\ Working(w) /\ deaths' = deaths + 1 /\ Leave(w)
      /\ mutex' = [mutex EXCEPT ![sGen[w]] = IF mutex[sGen[w]] = w THEN Dead ELSE mutex[sGen[w]]]
      /\ UNCHANGED <<shm, filled, named, gens, region, inUse, ring, posted, runs, base,
                     published, removals, abandoned>>
      /\ UNCHANGED routerVars
  BY DEF StoreDies, Working
<1>2. /\ OsType /\ RegType /\ PastType /\ named \in {0, sGen[w]} /\ sGen[w] \in Gens
      /\ sGen[w] <= gens /\ (InSwap(w) => mutex[sGen[w]] = w)
  BY <1>1, WorkersFacts
<1>3. deaths' \in Nat /\ deaths' >= deaths /\ Fault'
  BY <1>1, <1>2 DEF PastType, Fault, Faulty
<1>4. mutex' \in [Gens -> Stores \cup Routers \cup {Dead, None}] /\ MutexMoves(w)
  BY <1>1, <1>2 DEF RegType, MutexMoves
<1>5. named # 0 /\ Between(w) => mutex'[named] = Dead
  BY <1>1, <1>2 DEF Between, InSwap, RegType
<1>6. shm' \in [Keys -> Segs \cup {None}] /\ shm' = shm
  BY <1>1, <1>2 DEF OsType
<1> QED
  BY <1>1, <1>3, <1>4, <1>5, <1>6, StoreLeaves

(* The exception frees the mutex, but in a register that was removed. *)
LEMMA SegmentGoneStep ==
  ASSUME DatastoreInv, NEW w \in Stores, SegmentGone(w)
  PROVE  DatastoreInv'
<1>1. /\ Leave(w) /\ abandoned' = 1
      /\ mutex' = [mutex EXCEPT ![sGen[w]] = IF mutex[sGen[w]] = w THEN None ELSE mutex[sGen[w]]]
      /\ UNCHANGED <<shm, filled, named, gens, region, inUse, ring, posted, runs, base,
                     published>>
      /\ UNCHANGED <<deaths, removals>> /\ UNCHANGED routerVars
  BY DEF SegmentGone
<1>9. \/ sPC[w] \in {"swap static", "retire"}
      \/ /\ sPC[w] = "swap updatable" /\ Registered(sGen[w], "updatable")
         /\ shm[region[sGen[w]]["updatable"].key] = None
  BY DEF SegmentGone
<1>2. Working(w)
  BY <1>9 DEF Working
<1>3. /\ OsType /\ RegType /\ PastType /\ named \in {0, sGen[w]} /\ sGen[w] \in Gens
      /\ sGen[w] <= gens /\ SegsOf(w)
  BY <1>2, WorkersFacts
<1>4. deaths' \in Nat /\ deaths' >= deaths
  BY <1>1, <1>3 DEF PastType
<1>8. Fault'
  BY <1>1 DEF Fault
<1>5. mutex' \in [Gens -> Stores \cup Routers \cup {Dead, None}] /\ MutexMoves(w)
  BY <1>1, <1>3 DEF RegType, MutexMoves
<1>6. ~(named # 0 /\ Between(w))
  BY <1>3, <1>9 DEF Between, SegsOf, Kinds
<1>7. shm' \in [Keys -> Segs \cup {None}] /\ shm' = shm
  BY <1>1, <1>3 DEF OsType
<1> QED
  BY <1>1, <1>2, <1>4, <1>5, <1>6, <1>7, <1>8, StoreLeaves

-----------------------------------------------------------------------------
(* The steps that move keys.                                                *)

LEMMA ReleaseOldStep ==
  ASSUME DatastoreInv, NEW w \in Stores, ReleaseOld(w)
  PROVE  DatastoreInv'
<1> DEFINE old == Head(sOld[w]).key
           g == sGen[w]
<1>1. /\ sPC[w] = "detach" /\ inUse' = [inUse EXCEPT ![g] = inUse[g] \ {old}]
      /\ sOld' = [sOld EXCEPT ![w] = Tail(sOld[w])] /\ Goto(w, "retire")
      /\ UNCHANGED <<fileLock, shm, filled, named, gens, region, mutex, ring, posted, runs, base,
                     published, sGen, sRun>>
      /\ UNCHANGED <<sStatic, sNew>>
      /\ UNCHANGED <<rPC, rMain, rGen, rSeen, rFacade, rHeld>>
      /\ UNCHANGED <<deaths, removals, abandoned>>
  BY DEF ReleaseOld, ReleaseKey, osVars, routerVars, faultVars
<1>2. Working(w) /\ ~InSwap(w) /\ ~Between(w)
  BY <1>1 DEF Working, InSwap, Between
<1>3. /\ OsType /\ RegType /\ RingType /\ RunType /\ StoreType /\ PastType /\ Solo(w)
      /\ KeysOf(w) /\ SegsOf(w) /\ Alone(w) /\ Prepared(w) /\ GensInv
      /\ named \in {0, g} /\ g \in Gens /\ g <= gens /\ g \in Nat /\ gens \in Nat
  BY <1>2, WorkersFacts, MadeOnes, Bounds
<1>4. sOld[w] \in Seq([key : Keys, seg : Segs]) /\ sOld[w] # <<>> /\ sNew[w] = NoKeys
  BY <1>1, <1>3 DEF StoreType, Prepared
<1>5. /\ sPC'[w] = "retire" /\ sOld'[w] = Tail(sOld[w]) /\ sNew'[w] = NoKeys
      /\ \A v \in Stores \ {w} : sPC'[v] = sPC[v] /\ sOld'[v] = sOld[v]
      /\ StoreType'
  <2>1. Tail(sOld[w]) \in Seq([key : Keys, seg : Segs])
    BY <1>4, Queues
  <2> QED
    BY <1>1, <1>3, <1>4, <2>1 DEF Goto, StoreType
<1>6. Solo(w)' /\ Alone(w)' /\ ~InSwap(w)'
  BY <1>1, <1>2, <1>3, <1>5 DEF Solo, Alone, Working, InSwap
<1>7. Prepared(w)'
  BY <1>4, <1>5 DEF Prepared, NoKeys, Kinds
<1>8. OsType' /\ RegType' /\ RingType' /\ RunType' /\ PastType'
  BY <1>1, <1>3 DEF OsType, RegType, RingType, RunType, PastType
<1>9. GensInv'
  BY <1>1, <1>3 DEF GensInv, RegType
<1>10. NewKeys(w) = {} /\ NewKeys(w)' = {}
  BY <1>4, <1>5 DEF NewKeys, NoKeys
<1>11. /\ OldKeys(w)' \subseteq OldKeys(w) /\ OldKeys(w) \subseteq OldKeys(w)' \cup {old}
       /\ old \in OldKeys(w)
  <2>1. \A i \in DOMAIN Tail(sOld[w]) : i + 1 \in DOMAIN sOld[w] /\ Tail(sOld[w])[i] = sOld[w][i + 1]
    BY <1>4, Queues
  <2>2. \A i \in DOMAIN sOld[w] : i # 1 =>
          i - 1 \in DOMAIN Tail(sOld[w]) /\ Tail(sOld[w])[i - 1] = sOld[w][i]
    BY <1>4, Queues
  <2>3. 1 \in DOMAIN sOld[w] /\ old = sOld[w][1].key
    BY <1>4, Queues
  <2> HIDE DEF old
  <2> QED
    BY <1>5, <2>1, <2>2, <2>3 DEF OldKeys
<1>12. ASSUME named # 0 PROVE old \notin OldKeys(w)' /\ Spare(w)'
  <2>1. \A i, j \in DOMAIN sOld[w] : sOld[w][i].key = sOld[w][j].key => i = j
    BY <1>3, <1>12 DEF KeysOf, Spare
  <2>2. /\ 1 \in DOMAIN sOld[w] /\ old = sOld[w][1].key
        /\ \A i \in DOMAIN Tail(sOld[w]) :
             i + 1 \in DOMAIN sOld[w] /\ Tail(sOld[w])[i] = sOld[w][i + 1] /\ i \in Nat
        /\ \A i \in DOMAIN Tail(sOld[w]) : i # 0
    <3>1. DOMAIN Tail(sOld[w]) = 1..Len(Tail(sOld[w]))
      BY <1>4, Queues, LenProperties
    <3> QED
      BY <1>4, <3>1, Queues
  <2> HIDE DEF old
  <2>3. \A i \in DOMAIN Tail(sOld[w]) : Tail(sOld[w])[i].key # old
    BY <2>1, <2>2
  <2>4. old \notin OldKeys(w)'
    BY <1>5, <2>3 DEF OldKeys
  <2>5. \A i, j \in DOMAIN Tail(sOld[w]) : Tail(sOld[w])[i].key = Tail(sOld[w])[j].key => i = j
    <3> SUFFICES ASSUME NEW i \in DOMAIN Tail(sOld[w]), NEW j \in DOMAIN Tail(sOld[w]),
                        Tail(sOld[w])[i].key = Tail(sOld[w])[j].key
                 PROVE  i = j
      OBVIOUS
    <3>1. i + 1 = j + 1
      BY <2>1, <2>2
    <3> QED
      BY <2>2, <3>1
  <2>6. RegisteredKeys(named)' = RegisteredKeys(named)
    BY <1>1 DEF RegisteredKeys, Registered
  <2>7. OldKeys(w)' \subseteq inUse'[named]
    BY <1>1, <1>3, <1>11, <1>12, <2>4 DEF KeysOf, Spare, RegType
  <2>8. sNew'[w]["static"] = None
    BY <1>5 DEF NoKeys, Kinds
  <2>9. RegisteredKeys(named) \cap OldKeys(w) = {}
    BY <1>3, <1>12 DEF KeysOf, Spare
  <2>10. \A i, j \in DOMAIN sOld'[w] : sOld'[w][i].key = sOld'[w][j].key => i = j
    BY <1>5, <2>5
  <2>11. /\ RegisteredKeys(named)' \cap (NewKeys(w)' \cup OldKeys(w)') = {}
         /\ NewKeys(w)' \cap OldKeys(w)' = {}
         /\ NewKeys(w)' \cup OldKeys(w)' \subseteq inUse'[named]
    BY <1>10, <1>11, <2>6, <2>7, <2>9
  <2>12. named' = named
    BY <1>1
  <2> QED
    BY <2>4, <2>8, <2>10, <2>11, <2>12 DEF Spare
<1> HIDE DEF old, g
<1>13. KeysOf(w)'
  <2> SUFFICES ASSUME named # 0 PROVE KeysOf(w)'
    BY <1>1 DEF KeysOf
  <2>1. /\ RegisteredKeys(named)' = RegisteredKeys(named)
        /\ \A k \in Kinds : Registered(named, k)' = Registered(named, k)
    BY <1>1 DEF RegisteredKeys, Registered
  <2>2. inUse'[named] = inUse[named] \ {old}
    BY <1>1, <1>3 DEF RegType
  <2>3. /\ RegisteredKeys(named) \cap OldKeys(w) = {} /\ RegisteredKeys(named) \subseteq inUse[named]
        /\ Fault \/ inUse[named] \subseteq RegisteredKeys(named) \cup NewKeys(w) \cup OldKeys(w)
    BY <1>3 DEF KeysOf, Spare
  <2>4. Fault' <=> Fault
    BY <1>1 DEF Fault, Faulty
  <2>5. RegisteredKeys(named)' \subseteq inUse'[named]
    BY <1>11, <2>1, <2>2, <2>3
  <2>6. Fault \/ inUse'[named] \subseteq RegisteredKeys(named)' \cup NewKeys(w)' \cup OldKeys(w)'
    BY <1>10, <1>11, <2>1, <2>2, <2>3
  <2> QED
    BY <1>1, <1>3, <1>12, <2>1, <2>4, <2>5, <2>6 DEF KeysOf
<1>14. SegsOf(w)'
  <2>1. \A k \in Kinds : sNew'[w][k] = None
    BY <1>5 DEF NoKeys
  <2> QED
    BY <1>1, <1>2, <1>3, <1>5, <2>1 DEF SegsOf, Stored, Working, OnFullRun, Loaded, Registered
<1>15. WholeInv'
  <2>1. \A v \in Stores : ~Between(v)
    BY <1>2, <1>3 DEF Solo, Between
  <2> QED
    BY <1>1, <2>1, WholeKeeps DEF DatastoreInv
<1>16. /\ gens' >= gens /\ DataKept /\ named' \in {0, named}
       /\ \A k \in Gens : \A j \in Kinds : region'[k][j] = region[k][j]
       /\ \A k \in Gens : mutex'[k] = mutex[k]
  BY <1>1, <1>3, DataStays
<1> QED
  BY <1>1, <1>5, <1>6, <1>7, <1>8, <1>9, <1>13, <1>14, <1>15, <1>16, StoreMoves

(* The key reserved for a new region is one nobody uses. *)
LEMMA SetupStep ==
  ASSUME DatastoreInv, NEW w \in Stores, NEW kind \in Kinds, SetupRegion(w, kind)
  PROVE  DatastoreInv'
<1> DEFINE g == sGen[w]
           new == FirstFree(g)
           to == IF kind = "static" THEN "updatable" ELSE "populate"
<1>1. /\ sPC[w] = kind /\ UNCHANGED <<filled, named, gens, region, mutex, ring, posted, runs, base>>
      /\ UNCHANGED <<deaths, removals, published>> /\ UNCHANGED routerVars
      /\ UNCHANGED <<rPC, rMain, rGen, rSeen, rFacade, rHeld>>
  BY DEF SetupRegion, routerVars
<1>2. Working(w) /\ ~InSwap(w) /\ ~Between(w)
  BY <1>1 DEF Working, InSwap, Between, Kinds
<1>3. /\ OsType /\ RegType /\ RingType /\ RunType /\ StoreType /\ PastType /\ Solo(w)
      /\ KeysOf(w) /\ SegsOf(w) /\ Alone(w) /\ Prepared(w) /\ GensInv
      /\ named \in {0, g} /\ g \in Gens /\ g <= gens /\ sRun[w] = runs /\ runs \in Runs
  BY <1>2, WorkersFacts
<1>4. CASE /\ inUse[g] = Keys /\ Leave(w) /\ abandoned' = 1 /\ UNCHANGED <<shm, inUse>>
  BY <1>1, <1>2, <1>4, GivenUp
<1>5. CASE /\ inUse[g] # Keys
           /\ inUse' = [inUse EXCEPT ![g] = inUse[g] \cup {new}]
           /\ shm' = [shm EXCEPT ![new] = [kind |-> kind, run |-> sRun[w]]]
           /\ sNew' = [sNew EXCEPT ![w][kind] = new]
           /\ Goto(w, to)
           /\ UNCHANGED <<fileLock, sGen, sRun, sStatic, sOld, abandoned>>
  <2>1. new \in Keys /\ new \notin inUse[g] /\ new # None
    <3>1. inUse[g] \subseteq Keys
      BY <1>3 DEF RegType
    <3> QED
      BY <1>5, <3>1, FirstFreeIsFree, Bounds
  <2> HIDE DEF new
  <2>2. sOld[w] = <<>> /\ sNew[w][kind] = None
    BY <1>1, <1>3 DEF Prepared, NoKeys, Kinds
  <2>3. /\ sPC'[w] = to /\ (\A k \in Kinds : sNew'[w][k] = IF k = kind THEN new ELSE sNew[w][k])
        /\ (\A v \in Stores \ {w} : sPC'[v] = sPC[v] /\ sNew'[v] = sNew[v])
        /\ StoreType'
    BY <1>3, <1>5, <2>1 DEF Goto, StoreType, Kinds
  <2>4. Solo(w)' /\ Alone(w)' /\ ~InSwap(w)' /\ ~Between(w)'
    BY <1>1, <1>2, <1>3, <1>5, <2>3 DEF Solo, Alone, Working, InSwap, Between
  <2>5. Prepared(w)'
    <3>1. kind \in {"static", "updatable"} /\ sOld'[w] = <<>>
      BY <1>5, <2>2 DEF Kinds
    <3>2. CASE kind = "static"
      BY <1>1, <1>3, <1>5, <2>1, <2>2, <2>3, <3>1, <3>2 DEF Prepared, OnFullRun, NoKeys, Kinds
    <3>3. CASE kind = "updatable"
      BY <1>1, <1>3, <1>5, <2>1, <2>2, <2>3, <3>1, <3>3 DEF Prepared, OnFullRun, Kinds
    <3> QED
      BY <3>1, <3>2, <3>3
  <2>6. /\ OsType' /\ RegType' /\ RingType' /\ RunType' /\ PastType'
        /\ shm'[new] = [kind |-> kind, run |-> runs] /\ \A k \in Keys \ {new} : shm'[k] = shm[k]
        /\ inUse'[g] = inUse[g] \cup {new} /\ \A h \in Gens \ {g} : inUse'[h] = inUse[h]
    <3>1. [kind |-> kind, run |-> sRun[w]] \in Segs
      BY <1>3 DEF Segs
    <3> QED
      BY <1>1, <1>3, <1>5, <2>1, <3>1 DEF OsType, RegType, RingType, RunType, PastType
  <2>7. GensInv'
    <3>1. g \in Nat /\ gens \in Nat /\ Gens \subseteq Nat
      BY <1>3, MadeOnes, Bounds
    <3>2. \A h \in Gens : h > gens => h # g
      BY <1>3, <3>1
    <3>3. \A h \in Gens : h > gens => inUse'[h] = inUse[h]
      BY <2>6, <3>2
    <3> QED
      BY <1>1, <1>3, <3>3 DEF GensInv
  <2>8. NewKeys(w)' = NewKeys(w) \cup {new} /\ OldKeys(w) = {} /\ OldKeys(w)' = {}
    <3>1. OldKeys(w) = {} /\ OldKeys(w)' = {}
      BY <1>5, <2>2 DEF OldKeys
    <3>2. NewKeys(w)' = NewKeys(w) \cup {new}
      BY <2>1, <2>2, <2>3 DEF NewKeys
    <3> QED
      BY <3>1, <3>2
  <2>9. \A k \in Kinds : Registered(named, k)' = Registered(named, k)
    BY <1>1 DEF Registered
  <2>10. RegisteredKeys(named)' = RegisteredKeys(named)
    BY <1>1, <2>9 DEF RegisteredKeys
  <2>11. KeysOf(w)'
    <3> SUFFICES ASSUME named # 0 PROVE KeysOf(w)'
      BY <1>1 DEF KeysOf
    <3>1. /\ RegisteredKeys(named) \cap NewKeys(w) = {} /\ RegisteredKeys(named) \subseteq inUse[g]
          /\ NewKeys(w) \subseteq inUse[g]
          /\ Fault \/ inUse[g] \subseteq RegisteredKeys(named) \cup NewKeys(w)
      BY <1>3, <2>8 DEF KeysOf, Spare
    <3>2. sNew'[w]["static"] = sNew'[w]["updatable"] => sNew'[w]["static"] = None
      <4>1. \A k \in Kinds : sNew[w][k] # new
        BY <2>1, <3>1 DEF NewKeys
      <4> QED
        BY <2>3, <4>1 DEF Kinds
    <3>3. Spare(w)'
      BY <1>1, <1>3, <1>5, <2>1, <2>2, <2>6, <2>8, <2>10, <3>1, <3>2 DEF Spare
    <3>4. Fault' <=> Fault
      BY <1>1, <1>5 DEF Fault, Faulty
    <3>5. Fault \/ inUse'[g] \subseteq RegisteredKeys(named)' \cup NewKeys(w)' \cup OldKeys(w)'
      BY <2>6, <2>8, <2>10, <3>1
    <3>6. RegisteredKeys(named)' \subseteq inUse'[g]
      BY <2>6, <2>10, <3>1
    <3>7. (\A k \in Kinds : Registered(named, k)') =>
            region'[named]["static"].key # region'[named]["updatable"].key
      BY <1>1, <1>3, <2>9 DEF KeysOf
    <3> QED
      BY <1>1, <1>3, <3>3, <3>4, <3>5, <3>6, <3>7 DEF KeysOf
  <2>12. named # 0 => \A k \in Kinds : Registered(named, k) =>
           shm'[region[named][k].key] = shm[region[named][k].key]
    <3> SUFFICES ASSUME named # 0, NEW k \in Kinds, Registered(named, k)
                 PROVE  shm'[region[named][k].key] = shm[region[named][k].key]
      OBVIOUS
    <3>1. region[named][k].key \in RegisteredKeys(named)
      BY DEF RegisteredKeys
    <3>2. region[named][k].key \in inUse[g] /\ region[named][k].key \in Keys
      BY <1>3, <3>1 DEF KeysOf, RegType
    <3> QED
      BY <2>1, <2>6, <3>2
  <2>13. named # 0 => Stored(w)'
    <3> SUFFICES ASSUME named # 0 PROVE Stored(w)'
      OBVIOUS
    <3>1. Stored(w) /\ NewKeys(w) \subseteq inUse[g]
      BY <1>3 DEF SegsOf, KeysOf, Spare
    <3>2. \A k \in Kinds : sNew'[w][k] # None => shm'[sNew'[w][k]] = Seg(k)
      <4> SUFFICES ASSUME NEW k \in Kinds, k # kind, sNew[w][k] # None
                   PROVE  shm'[sNew[w][k]] = Seg(k)
        BY <2>3, <2>6 DEF Seg
      <4>1. sNew[w][k] \in NewKeys(w) /\ sNew[w][k] \in Keys
        BY <1>3 DEF NewKeys, StoreType
      <4> QED
        BY <2>1, <2>6, <3>1, <4>1 DEF Stored
    <3>3. ~Loaded(w)' /\ sPC'[w] # "swap updatable"
      BY <2>3 DEF Loaded
    <3>4. base[runs] = runs \/ ~OnFullRun(w)
      BY <1>2, <3>1 DEF Stored
    <3>5. ~OnFullRun(w) =>
            Registered(named, "static") /\ shm[region[named]["static"].key].run = sStatic[w]
      BY <1>1, <1>3, <3>1 DEF Stored, Prepared, Kinds
    <3>6. ~OnFullRun(w) => shm'[region[named]["static"].key].run = sStatic[w]
      BY <2>12, <3>5 DEF Kinds
    <3>7. Seg(kind)' = Seg(kind) /\ \A k \in Kinds : Seg(k)' = Seg(k)
      BY <1>1 DEF Seg
    <3>8. (OnFullRun(w)' <=> OnFullRun(w)) /\ sStatic' = sStatic /\ base' = base /\ runs' = runs
          /\ region' = region /\ named' = named
      BY <1>1, <1>5 DEF OnFullRun
    <3>9. ~OnFullRun(w)' => /\ Registered(named, "static")'
                            /\ shm'[region'[named']["static"].key].run = sStatic'[w]
      BY <2>9, <3>5, <3>6, <3>8 DEF Kinds
    <3>10. OnFullRun(w)' => base'[runs'] = runs'
      BY <3>4, <3>8
    <3>11. \A k \in Kinds : sNew'[w][k] # None => shm'[sNew'[w][k]] = Seg(k)'
      BY <3>2, <3>7
    <3> QED
      BY <3>3, <3>9, <3>10, <3>11 DEF Stored
  <2>14. SegsOf(w)'
    BY <1>1, <1>3, <2>9, <2>12, <2>13 DEF SegsOf
  <2>15. WholeInv'
    <3>1. \A v \in Stores : ~Between(v)
      BY <1>2, <1>3 DEF Solo, Between
    <3> QED
      BY <1>1, <2>12, <3>1, WholeKeeps DEF DatastoreInv
  <2>16. /\ gens' >= gens /\ DataKept /\ named' \in {0, named}
         /\ \A h \in Gens : \A j \in Kinds : region'[h][j] = region[h][j]
         /\ \A h \in Gens : mutex'[h] = mutex[h]
    BY <1>1, <1>3, DataStays
  <2> QED
    BY <1>1, <2>3, <2>4, <2>5, <2>6, <2>7, <2>11, <2>14, <2>15, <2>16, StoreMoves
<1>6. \/ /\ inUse[g] = Keys /\ Leave(w) /\ abandoned' = 1 /\ UNCHANGED <<shm, inUse>>
      \/ /\ inUse[g] # Keys
         /\ inUse' = [inUse EXCEPT ![g] = inUse[g] \cup {new}]
         /\ shm' = [shm EXCEPT ![new] = [kind |-> kind, run |-> sRun[w]]]
         /\ sNew' = [sNew EXCEPT ![w][kind] = new]
         /\ Goto(w, to)
         /\ UNCHANGED <<fileLock, sGen, sRun, sStatic, sOld, abandoned>>
  BY DEF SetupRegion
<1> HIDE DEF g, new, to
<1> QED
  BY <1>4, <1>5, <1>6

(* One turn of swapData's loop: the new key is registered, the old one goes to
   the handles to retire. *)
SwapTo(kind) == IF kind = "static" THEN "swap updatable" ELSE "unlock"

SwappedIn(kind, g, old, new) ==
  /\ g \in Gens /\ new \in Keys /\ new # None /\ old.key \in Keys /\ old.time \in Nat
  /\ \A k \in Kinds : region'[g][k] =
       IF k = kind THEN [key |-> new, time |-> old.time + 1] ELSE region[g][k]
  /\ \A h \in Gens \ {g} : region'[h] = region[h]
PublishedIn(kind, g) ==
  /\ \A h \in Gens \ {g} : published'[h] = published[h]
  /\ published'[g] = IF kind = "updatable"
                       THEN [k \in Kinds |-> shm[region'[g][k].key]] ELSE published[g]
NewIn(w, kind) ==
  /\ \A k \in Kinds : sNew'[w][k] = IF k = kind THEN None ELSE sNew[w][k]
  /\ sPC'[w] = SwapTo(kind)
  /\ \A v \in Stores \ {w} : sPC'[v] = sPC[v] /\ sNew'[v] = sNew[v] /\ sOld'[v] = sOld[v]
OldOut(w, kind, g, old) ==
  /\ sOld[w] \in Seq([key : Keys, seg : Segs])
  /\ Registered(g, kind) => shm[old.key] \in Segs
  /\ sOld'[w] = IF Registered(g, kind)
                  THEN Append(sOld[w], [key |-> old.key, seg |-> shm[old.key]]) ELSE sOld[w]
TypesIn == OsType' /\ RegType' /\ RingType' /\ RunType' /\ StoreType' /\ PastType'

LEMMA SwapMoves ==
  ASSUME DatastoreInv, NEW w \in Stores, NEW kind \in Kinds, SwapRegion(w, kind),
         NEW g, g = sGen[w], NEW old, old = region[g][kind], NEW new, new = sNew[w][kind]
  PROVE  /\ Working(w) /\ InSwap(w) /\ SwappedIn(kind, g, old, new) /\ PublishedIn(kind, g)
         /\ NewIn(w, kind) /\ OldOut(w, kind, g, old) /\ TypesIn
<1>1. /\ sPC[w] = (IF kind = "static" THEN "swap static" ELSE "swap updatable")
      /\ Registered(g, kind) => shm[old.key] # None
      /\ region' = [region EXCEPT ![g][kind] = [key |-> new, time |-> old.time + 1]]
      /\ published' = IF kind = "updatable"
                        THEN [published EXCEPT ![g] = [k \in Kinds |-> shm[region'[g][k].key]]]
                        ELSE published
      /\ sOld' = IF Registered(g, kind)
                   THEN [sOld EXCEPT ![w] = Append(sOld[w], [key |-> old.key, seg |-> shm[old.key]])]
                   ELSE sOld
      /\ sNew' = [sNew EXCEPT ![w][kind] = None]
      /\ Goto(w, SwapTo(kind))
      /\ UNCHANGED <<fileLock, shm, filled, named, gens, inUse, mutex, ring, posted>>
      /\ UNCHANGED <<runs, base, sGen, sRun, sStatic>>
      /\ UNCHANGED <<deaths, removals, abandoned>>
  <2>1. /\ sPC[w] = (IF kind = "static" THEN "swap static" ELSE "swap updatable")
        /\ Goto(w, IF kind = "static" THEN "swap updatable" ELSE "unlock")
        /\ sNew' = [sNew EXCEPT ![w][kind] = None]
        /\ UNCHANGED <<fileLock, shm, filled, named, gens, inUse, mutex, ring, posted>>
        /\ UNCHANGED <<runs, base, sGen, sRun, sStatic>>
        /\ UNCHANGED <<deaths, removals, abandoned>>
    BY DEF SwapRegion, osVars, faultVars
  <2>2. /\ Registered(g, kind) => shm[old.key] # None
        /\ region' = [region EXCEPT ![g][kind] = [key |-> new, time |-> old.time + 1]]
    BY DEF SwapRegion
  <2>3. published' = IF kind = "updatable"
                       THEN [published EXCEPT ![g] = [k \in Kinds |-> shm[region'[g][k].key]]]
                       ELSE published
    <3>1. published' = IF kind = "updatable"
                         THEN [published EXCEPT ![sGen[w]] =
                                 [k \in Kinds |-> shm[region'[sGen[w]][k].key]]]
                         ELSE published
      BY DEF SwapRegion
    <3> QED
      BY <3>1, Zenon
  <2>4. sOld' = IF Registered(g, kind)
                  THEN [sOld EXCEPT ![w] = Append(sOld[w], [key |-> old.key, seg |-> shm[old.key]])]
                  ELSE sOld
    BY DEF SwapRegion
  <2> QED
    BY <2>1, <2>2, <2>3, <2>4 DEF SwapTo
<1>2. Working(w) /\ InSwap(w)
  BY <1>1 DEF Working, InSwap
<1>3. /\ OsType /\ RegType /\ RingType /\ RunType /\ StoreType /\ PastType
      /\ Prepared(w) /\ g \in Gens
  BY <1>2, WorkersFacts
<1>4. new \in Keys /\ new # None
  <2>1. kind \in {"static", "updatable"}
    BY DEF Kinds
  <2>2. CASE kind = "static"
    BY <1>1, <1>3, <2>2, Bounds DEF Prepared
  <2>3. CASE kind = "updatable"
    BY <1>1, <1>3, <2>3, Bounds DEF Prepared
  <2> QED
    BY <2>1, <2>2, <2>3
<1>5. old \in [key : Keys, time : Nat]
  BY <1>3 DEF RegType
<1>6. [key |-> new, time |-> old.time + 1] \in [key : Keys, time : Nat]
  BY <1>4, <1>5
<1>7. /\ region' \in [Gens -> [Kinds -> [key : Keys, time : Nat]]]
      /\ \A k \in Kinds : region'[g][k] =
           IF k = kind THEN [key |-> new, time |-> old.time + 1] ELSE region[g][k]
      /\ \A h \in Gens \ {g} : region'[h] = region[h]
  <2> DEFINE entry == [key |-> new, time |-> old.time + 1]
  <2>1. entry \in [key : Keys, time : Nat] /\ region' = [region EXCEPT ![g][kind] = entry]
    BY <1>1, <1>6
  <2> HIDE DEF entry
  <2>2. /\ region' \in [Gens -> [Kinds -> [key : Keys, time : Nat]]]
        /\ \A k \in Kinds : region'[g][k] = IF k = kind THEN entry ELSE region[g][k]
        /\ \A h \in Gens \ {g} : region'[h] = region[h]
    BY <1>3, <2>1 DEF RegType
  <2> QED
    BY <2>2 DEF entry
<1>8. RegType' /\ OsType' /\ RingType' /\ RunType'
  BY <1>1, <1>3, <1>7 DEF RegType, OsType, RingType, RunType
<1>9. /\ PastType'
      /\ published'[g] = IF kind = "updatable"
                           THEN [k \in Kinds |-> shm[region'[g][k].key]] ELSE published[g]
      /\ \A h \in Gens \ {g} : published'[h] = published[h]
  <2> DEFINE pair == [k \in Kinds |-> shm[region'[g][k].key]]
  <2>1. pair \in [Kinds -> Segs \cup {None}]
    BY <1>3, <1>7 DEF OsType
  <2>2. published' = IF kind = "updatable" THEN [published EXCEPT ![g] = pair] ELSE published
    BY <1>1
  <2> HIDE DEF pair
  <2>3. /\ PastType' /\ published'[g] = (IF kind = "updatable" THEN pair ELSE published[g])
        /\ \A h \in Gens \ {g} : published'[h] = published[h]
    BY <1>1, <1>3, <2>1, <2>2 DEF PastType
  <2> QED
    BY <2>3 DEF pair
<1>10. /\ sOld[w] \in Seq([key : Keys, seg : Segs])
       /\ sOld' \in [Stores -> Seq([key : Keys, seg : Segs])]
       /\ sOld'[w] = IF Registered(g, kind)
                       THEN Append(sOld[w], [key |-> old.key, seg |-> shm[old.key]]) ELSE sOld[w]
       /\ \A v \in Stores \ {w} : sOld'[v] = sOld[v]
  <2> DEFINE handle == [key |-> old.key, seg |-> shm[old.key]]
             more == Append(sOld[w], handle)
  <2>1. sOld[w] \in Seq([key : Keys, seg : Segs]) /\ sOld \in [Stores -> Seq([key : Keys, seg : Segs])]
    BY <1>3 DEF StoreType
  <2>2. Registered(g, kind) => handle \in [key : Keys, seg : Segs]
    BY <1>1, <1>3, <1>5 DEF OsType
  <2>3. Registered(g, kind) => more \in Seq([key : Keys, seg : Segs])
    <3> HIDE DEF handle
    <3> QED
      BY <2>1, <2>2, AppendProperties
  <2>4. sOld' = IF Registered(g, kind) THEN [sOld EXCEPT ![w] = more] ELSE sOld
    BY <1>1
  <2> HIDE DEF more
  <2>5. CASE Registered(g, kind)
    BY <2>1, <2>3, <2>4, <2>5 DEF more
  <2>6. CASE ~Registered(g, kind)
    BY <2>1, <2>4, <2>6
  <2> QED
    BY <2>5, <2>6
<1>11. /\ sNew' \in [Stores -> [Kinds -> Keys \cup {None}]]
       /\ \A k \in Kinds : sNew'[w][k] = IF k = kind THEN None ELSE sNew[w][k]
       /\ \A v \in Stores \ {w} : sNew'[v] = sNew[v]
  BY <1>1, <1>3 DEF StoreType
<1>12. /\ sPC'[w] = SwapTo(kind) /\ (\A v \in Stores \ {w} : sPC'[v] = sPC[v])
       /\ sPC' \in [Stores -> StorePCs]
  BY <1>1, <1>3 DEF StoreType, StorePCs, SwapTo, Goto
<1>13. StoreType'
  BY <1>1, <1>3, <1>10, <1>11, <1>12 DEF StoreType, StorePCs
<1>14. Registered(g, kind) => shm[old.key] \in Segs
  BY <1>1, <1>3, <1>5 DEF OsType
<1>15. SwappedIn(kind, g, old, new)
  BY <1>3, <1>4, <1>5, <1>7 DEF SwappedIn
<1>16. PublishedIn(kind, g)
  BY <1>9 DEF PublishedIn
<1>17. NewIn(w, kind)
  BY <1>10, <1>11, <1>12 DEF NewIn
<1>18. OldOut(w, kind, g, old)
  BY <1>10, <1>14 DEF OldOut
<1>19. TypesIn
  BY <1>8, <1>9, <1>13 DEF TypesIn
<1> QED
  BY <1>2, <1>15, <1>16, <1>17, <1>18, <1>19

LEMMA Appended ==
  ASSUME NEW S, NEW s \in Seq(S), NEW x \in S
  PROVE  /\ Len(s) \in Nat /\ DOMAIN s = 1..Len(s) /\ DOMAIN Append(s, x) = 1..(Len(s) + 1)
         /\ Append(s, x)[Len(s) + 1] = x /\ \A i \in DOMAIN s : Append(s, x)[i] = s[i]
BY AppendProperties, LenProperties

LEMMA SwapKeys ==
  ASSUME DatastoreInv, NEW w \in Stores, NEW kind \in Kinds, SwapRegion(w, kind), named # 0
  PROVE  KeysOf(w)'
<1> PICK g : g = sGen[w]
  OBVIOUS
<1> PICK old : old = region[g][kind]
  OBVIOUS
<1> PICK new : new = sNew[w][kind]
  OBVIOUS
<1> DEFINE R == RegisteredKeys(named)
           out == IF Registered(g, kind) THEN {old.key} ELSE {}
<1>0. Working(w) /\ SwappedIn(kind, g, old, new) /\ NewIn(w, kind) /\ OldOut(w, kind, g, old)
  BY SwapMoves
<1>1. /\ g \in Gens /\ new \in Keys /\ new # None /\ old.key \in Keys /\ old.time \in Nat
      /\ \A k \in Kinds : region'[g][k] =
           IF k = kind THEN [key |-> new, time |-> old.time + 1] ELSE region[g][k]
      /\ \A k \in Kinds : sNew'[w][k] = IF k = kind THEN None ELSE sNew[w][k]
  BY <1>0 DEF SwappedIn, NewIn
<1>2. KeysOf(w) /\ named = g /\ RegType
  BY <1>0, WorkersFacts
<1>3. UNCHANGED <<named, inUse>> /\ UNCHANGED <<deaths, removals, abandoned>>
  BY DEF SwapRegion, faultVars
<1>4. /\ R \cap (NewKeys(w) \cup OldKeys(w)) = {} /\ NewKeys(w) \cap OldKeys(w) = {}
      /\ R \subseteq inUse[g] /\ NewKeys(w) \cup OldKeys(w) \subseteq inUse[g]
      /\ Fault \/ inUse[g] \subseteq R \cup NewKeys(w) \cup OldKeys(w)
      /\ sNew[w]["static"] = sNew[w]["updatable"] => sNew[w]["static"] = None
      /\ \A i, j \in DOMAIN sOld[w] : sOld[w][i].key = sOld[w][j].key => i = j
      /\ (\A k \in Kinds : Registered(g, k)) =>
           region[g]["static"].key # region[g]["updatable"].key
  BY <1>2 DEF KeysOf, Spare
<1>5. new \in NewKeys(w) /\ out \subseteq R
  BY <1>1, <1>2 DEF NewKeys, RegisteredKeys
<1>6. NewKeys(w)' = NewKeys(w) \ {new}
  <2>1. \A k \in Kinds : k # kind => sNew[w][k] # new
    BY <1>1, <1>4 DEF Kinds
  <2> QED
    BY <1>1, <2>1 DEF NewKeys
<1>7. \A k \in Kinds : Registered(named, k)' <=> k = kind \/ Registered(g, k)
  <2> SUFFICES ASSUME NEW k \in Kinds PROVE Registered(named, k)' <=> k = kind \/ Registered(g, k)
    OBVIOUS
  <2>1. CASE k = kind
    BY <1>1, <1>2, <1>3, <2>1 DEF Registered
  <2>2. CASE k # kind
    BY <1>1, <1>2, <1>3, <2>2 DEF Registered
  <2> QED
    BY <2>1, <2>2
<1>8. \A k \in Kinds : region'[g][k].key = IF k = kind THEN new ELSE region[g][k].key
  BY <1>1
<1>9. \A k \in Kinds : k # kind /\ Registered(g, k) =>
        region[g][k].key \in R /\ region[g][k].key # new /\ region[g][k].key \notin out
  <2> SUFFICES ASSUME NEW k \in Kinds, k # kind, Registered(g, k)
               PROVE  /\ region[g][k].key \in R /\ region[g][k].key # new
                      /\ region[g][k].key \notin out
    OBVIOUS
  <2>1. region[g][k].key \in R
    BY <1>2 DEF RegisteredKeys
  <2>2. Registered(g, kind) => region[g][k].key # old.key
    BY <1>4 DEF Kinds
  <2> QED
    BY <1>4, <1>5, <2>1, <2>2
<1>10. RegisteredKeys(named)' = (R \ out) \cup {new}
  <2>1. RegisteredKeys(named)' = {region'[g][k].key : k \in {k \in Kinds : k = kind \/ Registered(g, k)}}
    BY <1>2, <1>3, <1>7 DEF RegisteredKeys
  <2>2. R = {region[g][k].key : k \in {k \in Kinds : Registered(g, k)}}
    BY <1>2 DEF RegisteredKeys
  <2>3. ASSUME NEW x \in RegisteredKeys(named)' PROVE x \in (R \ out) \cup {new}
    <3>1. PICK k \in Kinds : (k = kind \/ Registered(g, k)) /\ x = region'[g][k].key
      BY <2>1, <2>3
    <3> HIDE DEF R, out
    <3> QED
      BY <1>8, <1>9, <3>1
  <2>4. ASSUME NEW x \in R \ out PROVE x \in RegisteredKeys(named)'
    <3>1. PICK k \in Kinds : Registered(g, k) /\ x = region[g][k].key
      BY <2>2, <2>4
    <3>2. k # kind
      BY <2>4, <3>1
    <3> QED
      BY <1>8, <2>1, <3>1, <3>2
  <2>5. new \in RegisteredKeys(named)'
    BY <1>8, <2>1
  <2> QED
    BY <2>3, <2>4, <2>5
<1>11. OldKeys(w)' = OldKeys(w) \cup out
  <2>1. CASE ~Registered(g, kind)
    BY <1>0, <2>1 DEF OldOut, OldKeys
  <2>2. CASE Registered(g, kind)
    <3> DEFINE handle == [key |-> old.key, seg |-> shm[old.key]]
    <3>1. sOld'[w] = Append(sOld[w], handle) /\ sOld[w] \in Seq([key : Keys, seg : Segs])
      BY <1>0, <2>2 DEF OldOut
    <3>2. handle.key = old.key /\ out = {old.key}
      BY <2>2
    <3>0. handle \in [key : Keys, seg : Segs]
      BY <1>0, <1>1, <2>2 DEF OldOut
    <3> HIDE DEF handle, out
    <3>3. /\ Len(sOld[w]) \in Nat /\ DOMAIN sOld[w] = 1..Len(sOld[w])
          /\ DOMAIN sOld'[w] = 1..(Len(sOld[w]) + 1)
          /\ sOld'[w][Len(sOld[w]) + 1] = handle
          /\ \A i \in DOMAIN sOld[w] : sOld'[w][i] = sOld[w][i]
      BY <3>0, <3>1, Appended
    <3> PICK p : p = sOld[w]
      OBVIOUS
    <3> PICK q : q = sOld'[w]
      OBVIOUS
    <3>4. \A i \in DOMAIN p : i \in DOMAIN q /\ q[i].key = p[i].key
      BY <3>3
    <3>5. Len(p) + 1 \in DOMAIN q /\ q[Len(p) + 1].key = old.key
      BY <3>2, <3>3
    <3>6. \A i \in DOMAIN q : i \in DOMAIN p \/ i = Len(p) + 1
      BY <3>3
    <3>7. {q[i].key : i \in DOMAIN q} = {p[i].key : i \in DOMAIN p} \cup {old.key}
      <4>1. ASSUME NEW i \in DOMAIN q PROVE q[i].key \in {p[j].key : j \in DOMAIN p} \cup {old.key}
        BY <3>4, <3>5, <3>6
      <4>2. ASSUME NEW i \in DOMAIN p PROVE p[i].key \in {q[j].key : j \in DOMAIN q}
        BY <3>4
      <4>3. old.key \in {q[j].key : j \in DOMAIN q}
        BY <3>5
      <4> QED
        BY <4>1, <4>2, <4>3
    <3> QED
      BY <3>2, <3>7 DEF OldKeys
  <2> QED
    BY <2>1, <2>2
<1>12. \A i, j \in DOMAIN sOld'[w] : sOld'[w][i].key = sOld'[w][j].key => i = j
  <2>1. CASE ~Registered(g, kind)
    BY <1>0, <1>4, <2>1 DEF OldOut
  <2>2. CASE Registered(g, kind)
    <3> DEFINE handle == [key |-> old.key, seg |-> shm[old.key]]
    <3>1. sOld'[w] = Append(sOld[w], handle) /\ sOld[w] \in Seq([key : Keys, seg : Segs])
      BY <1>0, <2>2 DEF OldOut
    <3>2. handle.key = old.key /\ \A i \in DOMAIN sOld[w] : sOld[w][i].key # old.key
      BY <1>4, <1>5, <2>2 DEF OldKeys
    <3>0. handle \in [key : Keys, seg : Segs]
      BY <1>0, <1>1, <2>2 DEF OldOut
    <3> HIDE DEF handle
    <3>3. /\ Len(sOld[w]) \in Nat /\ DOMAIN sOld[w] = 1..Len(sOld[w])
          /\ DOMAIN sOld'[w] = 1..(Len(sOld[w]) + 1)
          /\ sOld'[w][Len(sOld[w]) + 1] = handle
          /\ \A i \in DOMAIN sOld[w] : sOld'[w][i] = sOld[w][i]
      BY <3>0, <3>1, Appended
    <3>4. DOMAIN sOld'[w] = DOMAIN sOld[w] \cup {Len(sOld[w]) + 1}
      BY <3>3
    <3>5. /\ \A i \in DOMAIN sOld[w] : sOld'[w][i].key = sOld[w][i].key
          /\ sOld'[w][Len(sOld[w]) + 1].key = old.key
      BY <3>2, <3>3
    <3> QED
      BY <1>4, <3>2, <3>4, <3>5
  <2> QED
    BY <2>1, <2>2
<1>13. (\E k \in Kinds : sNew'[w][k] = None) /\ (Fault' <=> Fault) /\ named' = named /\ inUse' = inUse
  BY <1>1, <1>3 DEF Fault, Faulty
<1>14. (\A k \in Kinds : Registered(named, k)') =>
         region'[named']["static"].key # region'[named']["updatable"].key
  <2> HIDE DEF R, out
  <2>1. kind \in {"static", "updatable"} /\ Kinds = {"static", "updatable"}
    BY DEF Kinds
  <2>2. named' = g
    BY <1>2, <1>13
  <2> QED
    BY <1>7, <1>8, <1>9, <2>1, <2>2
<1> HIDE DEF R, out
<1>15. Spare(w)'
  <2>1. /\ RegisteredKeys(named)' \cap (NewKeys(w)' \cup OldKeys(w)') = {}
        /\ NewKeys(w)' \cap OldKeys(w)' = {}
        /\ NewKeys(w)' \cup OldKeys(w)' \subseteq inUse[g]
    BY <1>4, <1>5, <1>6, <1>10, <1>11
  <2>2. sNew'[w]["static"] = sNew'[w]["updatable"] => sNew'[w]["static"] = None
    BY <1>13 DEF Kinds
  <2>3. inUse'[named'] = inUse[g] /\ named' = named
    BY <1>2, <1>13
  <2> QED
    BY <1>12, <2>1, <2>2, <2>3 DEF Spare
<1>16. /\ RegisteredKeys(named)' \subseteq inUse[g]
       /\ Fault \/ inUse[g] \subseteq RegisteredKeys(named)' \cup NewKeys(w)' \cup OldKeys(w)'
  BY <1>4, <1>5, <1>6, <1>10, <1>11
<1> QED
  BY <1>2, <1>13, <1>14, <1>15, <1>16 DEF KeysOf

LEMMA SwapEnds ==
  ASSUME DatastoreInv, NEW w \in Stores, NEW kind \in Kinds, SwapRegion(w, kind),
         Prepared(w)', SegsOf(w)', WholeInv'
  PROVE  DatastoreInv'
<1> PICK g : g = sGen[w]
  OBVIOUS
<1> PICK old : old = region[g][kind]
  OBVIOUS
<1> PICK new : new = sNew[w][kind]
  OBVIOUS
<1>1. /\ Working(w) /\ InSwap(w) /\ SwappedIn(kind, g, old, new) /\ PublishedIn(kind, g)
      /\ NewIn(w, kind) /\ TypesIn
  BY SwapMoves
<1>2. /\ OsType /\ RegType /\ RingType /\ RunType /\ Solo(w) /\ Alone(w) /\ GensInv
      /\ g \in Gens /\ g <= gens /\ g \in Nat /\ gens \in Nat /\ Gens \subseteq Nat
      /\ mutex[g] = w
  BY <1>1, WorkersFacts, MadeOnes, Bounds
<1>3. /\ UNCHANGED <<fileLock, shm, filled, named, gens, inUse, mutex, ring, posted>>
      /\ UNCHANGED <<runs, base, sGen, sRun, sStatic>>
      /\ UNCHANGED <<rPC, rMain, rGen, rSeen, rFacade, rHeld>>
      /\ UNCHANGED <<deaths, removals, abandoned>>
  BY DEF SwapRegion, osVars, routerVars, faultVars
<1>4. Solo(w)'
  BY <1>1, <1>2 DEF Solo, NewIn
<1>5. Alone(w)'
  <2>1. Working(w)'
    BY <1>1 DEF NewIn, SwapTo, Working
  <2> QED
    BY <1>1, <1>2, <1>3, <2>1 DEF Alone
<1>6. InSwap(w)' => mutex'[sGen'[w]] = w
  BY <1>2, <1>3
<1>7. OsType' /\ RegType' /\ RingType' /\ RunType' /\ StoreType' /\ PastType'
  BY <1>1 DEF TypesIn
<1>8. GensInv'
  <2>1. \A h \in Gens : h > gens => h # g
    BY <1>2
  <2>2. \A h \in Gens : h > gens => region'[h] = region[h] /\ published'[h] = published[h]
    BY <1>1, <2>1 DEF SwappedIn, PublishedIn
  <2> QED
    BY <1>2, <1>3, <2>2 DEF GensInv
<1>9. \A h \in Gens : \A k \in Kinds :
        region'[h][k] = region[h][k] \/ region'[h][k].time > region[h][k].time
  <2> SUFFICES ASSUME NEW h \in Gens, NEW k \in Kinds
               PROVE  region'[h][k] = region[h][k] \/ region'[h][k].time > region[h][k].time
    OBVIOUS
  <2>1. CASE h # g
    BY <1>1, <2>1 DEF SwappedIn
  <2>2. CASE h = g /\ k # kind
    BY <1>1, <2>2 DEF SwappedIn
  <2>3. CASE h = g /\ k = kind
    <3>1. region'[h][k].time = old.time + 1 /\ old.time \in Nat /\ region[h][k].time = old.time
      BY <1>1, <2>3 DEF SwappedIn
    <3> QED
      BY <3>1
  <2> QED
    BY <2>1, <2>2, <2>3
<1>10. KeysOf(w)'
  BY <1>3, SwapKeys DEF KeysOf
<1>11. gens' >= gens /\ DataKept
  BY <1>2, <1>3, DataStays
<1>12. \A h \in Gens : mutex'[h] # mutex[h] => mutex[h] \in {None, w}
  BY <1>3
<1>13. named' \in {0, named}
  BY <1>3
<1> QED
  BY <1>3, <1>4, <1>5, <1>6, <1>7, <1>8, <1>9, <1>10, <1>11, <1>12, <1>13, StoreMoves

(* The first of two regions: the store is between them, holding the mutex. *)
LEMMA SwapStaticStep ==
  ASSUME DatastoreInv, NEW w \in Stores, SwapRegion(w, "static")
  PROVE  DatastoreInv'
<1> PICK g : g = sGen[w]
  OBVIOUS
<1> PICK old : old = region[g]["static"]
  OBVIOUS
<1> PICK new : new = sNew[w]["static"]
  OBVIOUS
<1>0. "static" \in Kinds /\ "updatable" \in Kinds
  BY DEF Kinds
<1>1. /\ Working(w) /\ SwappedIn("static", g, old, new) /\ NewIn(w, "static")
  BY <1>0, SwapMoves
<1>2. /\ Prepared(w) /\ SegsOf(w) /\ named \in {0, g} /\ RegType /\ OsType
  BY <1>1, WorkersFacts
<1>3. /\ sPC[w] = "swap static" /\ sPC'[w] = "swap updatable"
      /\ sNew'[w]["static"] = None /\ sNew'[w]["updatable"] = sNew[w]["updatable"]
      /\ UNCHANGED <<shm, filled, named, runs, base, sStatic>>
  BY <1>0, <1>1 DEF SwapRegion, NewIn, SwapTo, osVars
<1>4. OnFullRun(w) /\ OnFullRun(w)' /\ sNew[w]["updatable"] \in Keys
  BY <1>2, <1>3 DEF Prepared, OnFullRun
<1>5. Prepared(w)'
  BY <1>3, <1>4 DEF Prepared
<1>6. WholeInv'
  BY <1>3, <1>4 DEF WholeInv, Between
<1>7. SegsOf(w)'
  <2>1. \A s \in filled' : s.run <= runs'
    BY <1>2, <1>3 DEF SegsOf
  <2> SUFFICES ASSUME named # 0
               PROVE  /\ \A k \in Kinds : Registered(named, k)' => shm'[region'[named][k].key] # None
                      /\ Stored(w)'
    BY <1>3, <2>1 DEF SegsOf
  <2>2. named = g /\ Stored(w)
    BY <1>2 DEF SegsOf
  <2>3. /\ shm[new] = Seg("static") /\ Seg("static") \in filled
        /\ shm[sNew[w]["updatable"]] = Seg("updatable") /\ Seg("updatable") \in filled
        /\ base[runs] = runs
    <3>1. new # None /\ sNew[w]["updatable"] # None /\ Loaded(w)
      BY <1>1, <1>3, <1>4, Bounds DEF SwappedIn, Loaded
    <3> QED
      BY <1>0, <1>1, <1>4, <2>2, <3>1 DEF Stored
  <2>4. /\ region'[g]["static"].key = new /\ Registered(named, "static")'
        /\ region'[g]["updatable"] = region[g]["updatable"]
    <3>1. /\ region'[g]["static"].key = new /\ region'[g]["static"].time = old.time + 1
          /\ region'[g]["updatable"] = region[g]["updatable"] /\ old.time \in Nat
      BY <1>0, <1>1 DEF SwappedIn
    <3>2. region'[g]["static"].time > 0
      BY <3>1
    <3> QED
      BY <1>3, <2>2, <3>1, <3>2 DEF Registered
  <2>5. Seg("static") # None
    BY <1>2, <2>3, Bounds DEF OsType
  <2>6. \A k \in Kinds : Registered(named, k)' => shm'[region'[named][k].key] # None
    BY <1>2, <1>3, <2>2, <2>3, <2>4, <2>5 DEF Kinds, SegsOf, Registered
  <2>7. \A k \in Kinds : Seg(k)' = Seg(k)
    BY <1>3 DEF Seg
  <2>8. \A k \in Kinds : sNew'[w][k] # None => shm'[sNew'[w][k]] = Seg(k)' /\ Seg(k)' \in filled'
    BY <1>3, <2>3, <2>7 DEF Kinds
  <2>9. shm'[region'[named']["static"].key] = Seg("static")' /\ Seg("static")' \in filled'
    BY <1>0, <1>3, <2>2, <2>3, <2>4, <2>7
  <2>10. base'[runs'] = runs' /\ sPC'[w] # "populate"
    BY <1>3, <2>3
  <2>11. Stored(w)'
    BY <1>3, <1>4, <2>4, <2>8, <2>9, <2>10 DEF Stored
  <2> QED
    BY <2>6, <2>11
<1> QED
  BY <1>0, <1>5, <1>6, <1>7, SwapEnds

(* The last region: the register leads to a new pair, which is published. *)
LEMMA SwapUpdatableStep ==
  ASSUME DatastoreInv, NEW w \in Stores, SwapRegion(w, "updatable")
  PROVE  DatastoreInv'
<1> PICK g : g = sGen[w]
  OBVIOUS
<1> PICK old : old = region[g]["updatable"]
  OBVIOUS
<1> PICK new : new = sNew[w]["updatable"]
  OBVIOUS
<1>0. "static" \in Kinds /\ "updatable" \in Kinds
  BY DEF Kinds
<1>1. /\ Working(w) /\ InSwap(w) /\ SwappedIn("updatable", g, old, new) /\ NewIn(w, "updatable")
      /\ PublishedIn("updatable", g) /\ TypesIn
  BY <1>0, SwapMoves
<1>2. /\ Prepared(w) /\ SegsOf(w) /\ named \in {0, g} /\ RegType /\ OsType /\ StoreType /\ Solo(w)
      /\ mutex[g] = w
  BY <1>1, WorkersFacts
<1>3. /\ sPC[w] = "swap updatable" /\ sPC'[w] = "unlock"
      /\ sNew'[w]["updatable"] = None /\ sNew'[w]["static"] = sNew[w]["static"]
      /\ UNCHANGED <<shm, filled, named, runs, base, sStatic>>
  BY <1>0, <1>1 DEF SwapRegion, NewIn, SwapTo, osVars
<1>4. Prepared(w)' /\ \A k \in Kinds : sNew'[w][k] = None
  <2>1. sNew[w]["static"] = None
    BY <1>2, <1>3 DEF Prepared
  <2>2. \A k \in Kinds : sNew'[w][k] = None
    BY <1>3, <2>1 DEF Kinds
  <2>3. sNew'[w] = NoKeys
    <3>1. sNew'[w] \in [Kinds -> Keys \cup {None}]
      BY <1>1 DEF TypesIn, StoreType
    <3> QED
      BY <2>2, <3>1 DEF NoKeys
  <2> QED
    BY <1>3, <2>2, <2>3 DEF Prepared
<1>5. ASSUME named # 0
      PROVE  /\ named = g /\ Stored(w) /\ shm[new] = Seg("updatable") /\ Seg("updatable") \in filled
             /\ Registered(g, "static") /\ shm[region[g]["static"].key] \in filled
             /\ base[runs] = shm[region[g]["static"].key].run
  <2>1. named = g /\ Stored(w) /\ Loaded(w)
    BY <1>2, <1>3, <1>5 DEF SegsOf, Loaded
  <2>2. shm[new] = Seg("updatable") /\ Seg("updatable") \in filled
    BY <1>0, <1>1, <2>1 DEF Stored, SwappedIn
  <2>3. CASE OnFullRun(w)
    <3>1. /\ Registered(g, "static") /\ shm[region[g]["static"].key] = Seg("static")
          /\ Seg("static") \in filled /\ base[runs] = runs
      BY <1>3, <2>1, <2>3 DEF Stored
    <3> QED
      BY <2>1, <2>2, <3>1 DEF Seg
  <2>4. CASE ~OnFullRun(w)
    <3>1. /\ Registered(g, "static") /\ base[runs] = sStatic[w]
          /\ shm[region[g]["static"].key].run = sStatic[w]
      BY <1>3, <2>1, <2>4 DEF Stored
    <3>2. \A v \in Stores : ~Between(v)
      BY <1>2, <2>4 DEF Solo, Between
    <3>3. Whole
      BY <1>2, <1>5, <2>1, <3>2, Bounds DEF DatastoreInv, WholeInv
    <3>4. Sound(AtRegister(g))
      BY <1>0, <2>1, <3>1, <3>3 DEF Whole
    <3> QED
      BY <1>0, <2>1, <2>2, <3>1, <3>4 DEF Sound, AtRegister
  <2> QED
    BY <2>3, <2>4
<1>6. ASSUME named # 0
      PROVE  /\ \A k \in Kinds : Registered(named, k)'
             /\ region'[g]["updatable"].key = new /\ region'[g]["static"] = region[g]["static"]
  <2>1. /\ region'[g]["updatable"].key = new /\ region'[g]["updatable"].time = old.time + 1
        /\ region'[g]["static"] = region[g]["static"] /\ old.time \in Nat
    BY <1>0, <1>1 DEF SwappedIn
  <2>2. \A k \in Kinds : region'[g][k].time > 0
    BY <1>5, <1>6, <2>1 DEF Kinds, Registered
  <2> QED
    BY <1>3, <1>5, <1>6, <2>1, <2>2 DEF Registered
<1>7. WholeInv'
  <2> SUFFICES ASSUME named # 0 PROVE Whole'
    BY <1>3 DEF WholeInv
  <2>1. named = g /\ named' = g
    BY <1>3, <1>5
  <2>2. published'[g] = AtRegister(g)'
    BY <1>1, <1>3 DEF PublishedIn, AtRegister
  <2>3. /\ AtRegister(g)'["updatable"] = Seg("updatable")
        /\ AtRegister(g)'["static"] = shm[region[g]["static"].key]
    BY <1>0, <1>3, <1>5, <1>6 DEF AtRegister
  <2>4. Sound(AtRegister(g))'
    <3> PICK f : f = AtRegister(g)'
      OBVIOUS
    <3>1. f["updatable"] \in filled' /\ f["static"] \in filled'
      BY <1>3, <1>5, <2>3
    <3>2. f["updatable"].run = runs /\ base'[runs] = f["static"].run
      <4>1. f["updatable"] = Seg("updatable") /\ f["static"] = shm[region[g]["static"].key]
        BY <2>3
      <4>2. Seg("updatable").run = runs
        BY DEF Seg
      <4>3. base' = base /\ base[runs] = shm[region[g]["static"].key].run
        BY <1>3, <1>5
      <4> QED
        BY <4>1, <4>2, <4>3
    <3>3. Matches(f)'
      BY <3>2 DEF Matches
    <3>4. Matches(AtRegister(g))'
      BY <3>3 DEF Matches
    <3> QED
      BY <3>1, <3>4 DEF Sound, Kinds
  <2> QED
    BY <1>6, <2>1, <2>2, <2>4 DEF Whole
<1>8. SegsOf(w)'
  <2>1. \A s \in filled' : s.run <= runs'
    BY <1>2, <1>3 DEF SegsOf
  <2> SUFFICES ASSUME named # 0
               PROVE  /\ \A k \in Kinds : Registered(named, k)' => shm'[region'[named][k].key] # None
                      /\ Stored(w)'
    BY <1>3, <2>1 DEF SegsOf
  <2>2. shm[new] # None /\ shm[region[g]["static"].key] # None
    BY <1>2, <1>5, Bounds DEF OsType
  <2>3. \A k \in Kinds : shm'[region'[named][k].key] # None
    BY <1>3, <1>5, <1>6, <2>2 DEF Kinds
  <2>4. Stored(w)'
    <3>1. OnFullRun(w) => base[runs] = runs
      BY <1>1, <1>5 DEF Stored
    <3> QED
      BY <1>3, <1>4, <3>1 DEF Stored, Loaded, OnFullRun
  <2> QED
    BY <2>3, <2>4
<1> QED
  BY <1>0, <1>4, <1>7, <1>8, SwapEnds

-----------------------------------------------------------------------------
(* The beginning of a run, and the register removed.                        *)

(* A store comes to a register that is there, or makes a new one. *)
Comes == IF named = 0 THEN named' = gens + 1 /\ gens' = gens + 1 ELSE UNCHANGED <<named, gens>>

LEMMA NewRegister ==
  ASSUME DatastoreInv, RegType, named = 0, gens < MaxGens, Comes,
         UNCHANGED <<region, inUse, mutex, published, removals>>
  PROVE  /\ RegType' /\ GensInv' /\ gens' >= gens /\ named' > gens /\ named' # 0
         /\ \A k \in Kinds : ~Registered(named, k)'
         /\ RegisteredKeys(named)' = {} /\ inUse'[named'] = {} /\ published'[named'] = None
         /\ named' \in 1..gens'
<1> PICK n : n = gens + 1
  OBVIOUS
<1>1. gens \in Nat /\ MaxGens \in Nat /\ n \in Gens /\ n > gens /\ n # 0 /\ n \in 0..MaxGens
  BY MadeOnes, Bounds DEF Gens
<1>2. named' = n /\ gens' = n
  BY DEF Comes
<1>3. region[n] = [k \in Kinds |-> EmptyRegion] /\ inUse[n] = {} /\ published[n] = None
  BY <1>1 DEF DatastoreInv, GensInv
<1>4. RegType'
  BY <1>1, <1>2 DEF RegType
<1>5. GensInv'
  <2>1. removals = 0 => n <= 1
    BY <1>1 DEF DatastoreInv, GensInv
  <2>2. \A g \in Gens : g > n => g > gens
    BY <1>1, Bounds
  <2> QED
    BY <1>1, <1>2, <2>1, <2>2 DEF DatastoreInv, GensInv
<1>6. \A k \in Kinds : ~Registered(named, k)'
  BY <1>2, <1>3 DEF Registered, EmptyRegion
<1>7. RegisteredKeys(named)' = {}
  BY <1>6 DEF RegisteredKeys
<1> QED
  BY <1>1, <1>2, <1>3, <1>4, <1>5, <1>6, <1>7

LEMMA MetricRefusedStep ==
  ASSUME DatastoreInv, NEW w \in Stores, MetricRefused(w)
  PROVE  DatastoreInv'
<1>1. /\ sPC[w] = "idle" /\ fileLock = None /\ named = 0 /\ gens < MaxGens /\ Comes
      /\ UNCHANGED <<fileLock, shm, filled>> /\ UNCHANGED <<region, inUse, mutex, ring, posted>>
      /\ UNCHANGED <<runs, base, sPC, sGen, sRun, sStatic, sNew, sOld>>
      /\ UNCHANGED <<rPC, rMain, rGen, rSeen, rFacade, rHeld>> /\ published' = published
      /\ UNCHANGED <<deaths, removals, abandoned>>
  BY DEF MetricRefused, Comes, osVars, storeVars, routerVars, faultVars
<1>2. /\ OsType /\ RegType /\ RingType /\ RunType /\ StoreType /\ PastType /\ Solo(w)
      /\ SegsOf(w) /\ Prepared(w)
  BY <1>1, Types, AtWork, SoloHas DEF DatastoreInv
<1>3. /\ RegType' /\ GensInv' /\ gens' >= gens /\ named' > gens /\ named' # 0
      /\ \A k \in Kinds : ~Registered(named, k)'
      /\ RegisteredKeys(named)' = {} /\ inUse'[named'] = {} /\ published'[named'] = None
  BY <1>1, <1>2, NewRegister
<1>4. sNew[w] = NoKeys /\ sOld[w] = <<>>
  BY <1>1, <1>2 DEF Prepared
<1>5. NewKeys(w)' = {} /\ OldKeys(w)' = {}
  BY <1>1, <1>4 DEF NewKeys, OldKeys, NoKeys
<1>6. KeysOf(w)'
  BY <1>1, <1>3, <1>4, <1>5 DEF KeysOf, Spare, NoKeys, Kinds
<1>7. SegsOf(w)'
  <2>1. \A k \in Kinds : sNew'[w][k] = None
    BY <1>1, <1>4 DEF NoKeys
  <2> QED
    BY <1>1, <1>2, <1>3, <2>1 DEF SegsOf, Stored, Working, Loaded
<1>8. WholeInv'
  BY <1>3 DEF WholeInv, Whole
<1>9. Solo(w)' /\ Alone(w)' /\ Prepared(w)' /\ ~InSwap(w)'
  BY <1>1, <1>2 DEF Solo, Alone, Working, Prepared, OnFullRun, InSwap
<1>10. OsType' /\ RingType' /\ RunType' /\ StoreType' /\ PastType'
  BY <1>1, <1>2 DEF OsType, RingType, RunType, StoreType, PastType
<1>11. /\ DataKept /\ \A g \in Gens : mutex'[g] = mutex[g]
       /\ \A g \in Gens : \A k \in Kinds : region'[g][k] = region[g][k]
  <2>1. runs \in Nat
    BY <1>2, Bounds DEF RunType
  <2> QED
    BY <1>1, <2>1 DEF DataKept
<1> QED
  BY <1>1, <1>3, <1>6, <1>7, <1>8, <1>9, <1>10, <1>11, StoreMoves

LEMMA Removed ==
  ASSUME DatastoreInv, named' = 0, removals' = removals + 1, shm' \in [Keys -> Segs \cup {None}],
         UNCHANGED <<fileLock, filled, gens, region, inUse, mutex, ring, posted>>,
         UNCHANGED storeVars, UNCHANGED routerVars, UNCHANGED <<deaths, abandoned, published>>
  PROVE  DatastoreInv'
<1>0. /\ OsType /\ RegType /\ RingType /\ RunType /\ StoreType /\ RouterType /\ PastType
      /\ UNCHANGED <<runs, base, sPC, sGen, sRun, sStatic, sNew, sOld>>
      /\ UNCHANGED <<rPC, rMain, rGen, rSeen, rFacade, rHeld>>
  BY Types DEF DatastoreInv, storeVars, routerVars
<1>1. TypeOK'
  <2>1. OsType' /\ RegType' /\ RingType' /\ RunType' /\ StoreType' /\ RouterType' /\ PastType'
    <3>1. RegType' /\ OsType' /\ RingType' /\ RunType'
      BY <1>0, Bounds DEF RegType, OsType, RingType, RunType
    <3>2. StoreType'
      BY <1>0 DEF StoreType
    <3>3. RouterType'
      BY <1>0 DEF RouterType
    <3>4. PastType'
      BY <1>0 DEF PastType
    <3> QED
      BY <3>1, <3>2, <3>3, <3>4
  <2> QED
    BY <2>1 DEF OsType, RegType, RingType, RunType, StoreType, RouterType, PastType, TypeOK
<1>2. StoresInv'
  BY <1>0 DEF DatastoreInv, StoresInv, Alone, Prepared, Working, OnFullRun
<1>3. LocksInv'
  BY <1>0 DEF DatastoreInv, LocksInv, InSwap, Watching
<1>4. RoutersInv'
  BY <1>0 DEF DatastoreInv, RoutersInv, RouterInv, Up
<1>5. GensInv'
  <2>1. removals' # 0 /\ 0 <= gens
    BY <1>0, MadeOnes DEF PastType
  <2> QED
    BY <2>1 DEF DatastoreInv, GensInv
<1>6. KeysInv' /\ WholeInv'
  BY DEF KeysInv, WholeInv
<1>7. SegsInv'
  BY <1>0 DEF DatastoreInv, SegsInv
<1>8. FacadeSound'
  <2>1. ASSUME NEW r \in Routers PROVE ~Follows(r)'
    <3>1. RouterInv(r) /\ gens \in Nat
      BY <1>0, MadeOnes DEF DatastoreInv, RoutersInv
    <3>2. rFacade[r] # None => rGen[r] # 0
      BY <3>1 DEF RouterInv, Up
    <3> QED
      BY <1>0, <3>2 DEF Follows
  <2> QED
    BY <2>1 DEF FacadeSound
<1> QED
  BY <1>1, <1>2, <1>3, <1>4, <1>5, <1>6, <1>7, <1>8 DEF DatastoreInv

LEMMA RemoveLocksStep ==
  ASSUME DatastoreInv, RemoveLocks
  PROVE  DatastoreInv'
<1>1. OsType
  BY Types DEF DatastoreInv
<1> QED
  BY <1>1, Removed DEF RemoveLocks, osVars, OsType

LEMMA SpringCleanStep ==
  ASSUME DatastoreInv, SpringClean
  PROVE  DatastoreInv'
<1>1. shm' \in [Keys -> Segs \cup {None}]
  BY DEF SpringClean, RemoveSegments
<1> QED
  BY <1>1, Removed DEF SpringClean

LEMMA BeginStep ==
  ASSUME DatastoreInv, NEW w \in Stores, Begin(w)
  PROVE  DatastoreInv'
<1> PICK v : v = runs + 1
  OBVIOUS
<1> DEFINE stat == shm[region[named]["static"].key].run
<1>1. /\ sPC[w] = "idle" /\ fileLock = None /\ fileLock' = w /\ runs < MaxRuns /\ runs' = v
      /\ named = 0 => gens < MaxGens
      /\ sGen' = [sGen EXCEPT ![w] = named'] /\ sRun' = [sRun EXCEPT ![w] = v]
      /\ UNCHANGED <<shm, filled, region, inUse, mutex, ring, posted>>
      /\ UNCHANGED <<sNew, sOld, published>>
      /\ UNCHANGED <<rPC, rMain, rGen, rSeen, rFacade, rHeld>>
      /\ UNCHANGED <<deaths, removals, abandoned>>
  BY DEF Begin, routerVars, faultVars
<1>2. Comes
  BY DEF Begin, Comes
<1>3. \/ /\ sStatic' = [sStatic EXCEPT ![w] = 0] /\ base' = [base EXCEPT ![v] = v]
         /\ Goto(w, "static")
      \/ /\ named # 0 /\ Registered(named, "static") /\ shm[region[named]["static"].key] # None
         /\ sStatic' = [sStatic EXCEPT ![w] = stat]
         /\ \E d \in {base[u] : u \in 1..runs} : base' = [base EXCEPT ![v] = d]
         /\ Goto(w, "updatable")
  BY DEF Begin
<1>4. /\ OsType /\ RegType /\ RingType /\ RunType /\ StoreType /\ PastType /\ Solo(w)
      /\ KeysOf(w) /\ SegsOf(w) /\ Prepared(w) /\ GensInv
  BY <1>1, Types, AtWork, SoloHas DEF DatastoreInv
<1>5. /\ runs \in Nat /\ MaxRuns \in Nat /\ v \in Runs /\ v \in 1..MaxRuns /\ v > runs /\ v # 0
  BY <1>1, <1>4, Bounds DEF RunType, Runs
<1>6. sNew[w] = NoKeys /\ sOld[w] = <<>> /\ \A k \in Kinds : sNew[w][k] = None
  BY <1>1, <1>4 DEF Prepared, NoKeys
<1>7. /\ RegType' /\ GensInv' /\ gens' >= gens /\ named' \in 1..gens' /\ named' # 0
      /\ (named' = named /\ gens' = gens) \/ (named' > gens /\ named = 0)
      /\ named' \in 0..MaxGens
  <2>1. CASE named = 0
    <3>1. /\ RegType' /\ GensInv' /\ gens' >= gens /\ named' > gens /\ named' # 0
          /\ named' \in 1..gens'
      BY <1>1, <1>2, <1>4, <2>1, NewRegister
    <3>2. named' \in 0..MaxGens
      BY <3>1 DEF RegType
    <3> QED
      BY <2>1, <3>1, <3>2
  <2>2. CASE named # 0
    <3>1. UNCHANGED <<named, gens>>
      BY <1>2, <2>2 DEF Comes
    <3>2. gens \in Nat /\ named \in Nat /\ named <= gens
      BY <1>4, MadeOnes DEF GensInv
    <3>3. RegType' /\ GensInv'
      BY <1>1, <1>4, <3>1 DEF RegType, GensInv
    <3>4. named' \in 0..MaxGens
      BY <3>3 DEF RegType
    <3>5. gens' >= gens /\ named' \in 1..gens' /\ named' # 0 /\ named' = named /\ gens' = gens
      BY <2>2, <3>1, <3>2
    <3> QED
      BY <3>3, <3>4, <3>5
  <2> QED
    BY <2>1, <2>2
<1>8. /\ base' \in [Runs -> 0..MaxRuns] /\ \A u \in Runs : u <= runs => base'[u] = base[u]
      /\ runs' \in 0..MaxRuns
  <2>1. PICK d : d \in 0..MaxRuns /\ base' = [base EXCEPT ![v] = d]
    <3>1. CASE base' = [base EXCEPT ![v] = v]
      <4>1. v \in 0..MaxRuns
        BY <1>5
      <4> QED
        BY <3>1, <4>1, Zenon
    <3>2. CASE \E d \in {base[u] : u \in 1..runs} : base' = [base EXCEPT ![v] = d]
      <4>1. \A u \in 1..runs : u \in Runs
        BY <1>1, <1>5 DEF Runs
      <4> QED
        BY <1>4, <3>2, <4>1 DEF RunType
    <3> QED
      BY <1>3, <3>1, <3>2
  <2> QED
    BY <1>1, <1>4, <1>5, <2>1, Bounds DEF RunType
<1>9. PICK to, s : /\ to \in {"static", "updatable"} /\ s \in 0..MaxRuns
                   /\ Goto(w, to) /\ sStatic' = [sStatic EXCEPT ![w] = s]
                   /\ to = "static" => s = 0 /\ base' = [base EXCEPT ![v] = v]
                   /\ to = "updatable" => /\ named # 0 /\ Registered(named, "static")
                                          /\ s = stat /\ s # 0
  <2>1. CASE /\ sStatic' = [sStatic EXCEPT ![w] = 0] /\ base' = [base EXCEPT ![v] = v]
             /\ Goto(w, "static")
    <3>1. 0 \in 0..MaxRuns /\ "static" \in {"static", "updatable"} /\ "static" # "updatable"
      BY <1>5
    <3> QED
      BY <2>1, <3>1, Zenon
  <2>2. CASE /\ named # 0 /\ Registered(named, "static") /\ shm[region[named]["static"].key] # None
             /\ sStatic' = [sStatic EXCEPT ![w] = stat] /\ Goto(w, "updatable")
    <3>1. shm[region[named]["static"].key] \in Segs
      <4>1. region[named]["static"].key \in Keys
        BY <1>4, <2>2, MadeOnes DEF RegType, Kinds
      <4> QED
        BY <1>4, <2>2, <4>1 DEF OsType
    <3>2. stat \in 1..MaxRuns
      BY <3>1 DEF Segs, Runs
    <3>3. stat \in 0..MaxRuns /\ stat # 0
      BY <1>5, <3>2
    <3> HIDE DEF stat
    <3> QED
      BY <2>2, <3>3
  <2> QED
    BY <1>3, <2>1, <2>2
<1> HIDE DEF stat
<1>10. /\ sPC'[w] = to /\ sGen'[w] = named' /\ sRun'[w] = v /\ sStatic'[w] = s
       /\ \A u \in Stores \ {w} : sPC'[u] = sPC[u] /\ sNew'[u] = sNew[u] /\ sOld'[u] = sOld[u]
       /\ StoreType'
  <2>1. v \in 0..MaxRuns
    BY <1>5
  <2>2. PICK n : n = named'
    OBVIOUS
  <2>3. sGen' = [sGen EXCEPT ![w] = n] /\ n \in 0..MaxGens
    BY <1>1, <1>7, <2>2
  <2>4. sPC' \in [Stores -> StorePCs] /\ sPC'[w] = to /\ \A u \in Stores \ {w} : sPC'[u] = sPC[u]
    BY <1>4, <1>9 DEF StoreType, StorePCs, Goto
  <2>5. sGen' \in [Stores -> 0..MaxGens] /\ sGen'[w] = named'
    BY <1>4, <2>2, <2>3 DEF StoreType
  <2>6. /\ sRun' \in [Stores -> 0..MaxRuns] /\ sRun'[w] = v
        /\ sStatic' \in [Stores -> 0..MaxRuns] /\ sStatic'[w] = s
    BY <1>1, <1>4, <1>9, <2>1 DEF StoreType
  <2>7. sNew' = sNew /\ sOld' = sOld
    BY <1>1
  <2>8. StoreType'
    BY <1>4, <2>4, <2>5, <2>6, <2>7 DEF StoreType, StorePCs
  <2> QED
    BY <2>4, <2>5, <2>6, <2>7, <2>8
<1>11. Solo(w)' /\ Alone(w)' /\ ~InSwap(w)' /\ ~Between(w)'
  <2>1. Solo(w)' /\ ~InSwap(w)' /\ ~Between(w)'
    BY <1>4, <1>9, <1>10 DEF Solo, InSwap, Between
  <2>2. Alone(w)'
    BY <1>1, <1>5, <1>7, <1>10 DEF Alone
  <2> QED
    BY <2>1, <2>2
<1>12. Prepared(w)'
  BY <1>1, <1>6, <1>9, <1>10, Bounds DEF Prepared, OnFullRun, Kinds
<1>13. OsType' /\ RingType' /\ RunType' /\ PastType'
  BY <1>1, <1>4, <1>8 DEF OsType, RingType, RunType, PastType
<1>14. DataKept
  BY <1>1, <1>5, <1>8 DEF DataKept
<1>15. NewKeys(w)' = {} /\ OldKeys(w)' = {} /\ NewKeys(w) = {} /\ OldKeys(w) = {}
  BY <1>1, <1>6 DEF NewKeys, OldKeys
<1>16. KeysOf(w)'
  <2>1. Spare(w)'
    BY <1>1, <1>6, <1>15 DEF Spare, Kinds
  <2>2. Fault' <=> Fault
    BY <1>1 DEF Fault, Faulty
  <2>3. CASE named = 0
    <3>1. RegisteredKeys(named)' = {} /\ inUse'[named'] = {} /\ \A k \in Kinds : ~Registered(named, k)'
      BY <1>1, <1>2, <1>4, <2>3, NewRegister
    <3> QED
      BY <2>1, <3>1 DEF KeysOf, Kinds
  <2>4. CASE named # 0
    <3>1. named' = named
      BY <1>2, <2>4 DEF Comes
    <3>2. /\ \A k \in Kinds : Registered(named, k)' = Registered(named, k)
          /\ RegisteredKeys(named)' = RegisteredKeys(named)
      BY <1>1, <3>1 DEF RegisteredKeys, Registered
    <3> QED
      BY <1>1, <1>4, <1>15, <2>1, <2>2, <2>4, <3>1, <3>2 DEF KeysOf
  <2> QED
    BY <2>3, <2>4
<1>17. SegsOf(w)'
  <2>1. \A q \in filled' : q.run <= runs'
    <3>1. \A q \in filled : q.run \in Nat /\ q.run <= runs
      BY <1>4, Bounds DEF SegsOf, OsType, Segs
    <3> QED
      BY <1>1, <1>5, <3>1
  <2>2. \A k \in Kinds : Registered(named, k)' => shm'[region'[named'][k].key] # None
    <3>1. CASE named = 0
      BY <1>1, <1>2, <1>4, <3>1, NewRegister
    <3>2. CASE named # 0
      BY <1>1, <1>2, <1>4, <3>2 DEF Comes, SegsOf, Registered
    <3> QED
      BY <3>1, <3>2
  <2>3. \A k \in Kinds : sNew'[w][k] = None
    BY <1>1, <1>6
  <2>4. to = "static" => base'[runs'] = runs'
    BY <1>1, <1>4, <1>5, <1>9 DEF RunType
  <2>5. to = "updatable" => /\ Registered(named, "static")'
                            /\ shm'[region'[named']["static"].key].run = s
    BY <1>1, <1>2, <1>9 DEF Comes, Registered, stat
  <2>6. Stored(w)'
    BY <1>9, <1>10, <2>3, <2>4, <2>5 DEF Stored, Loaded, Working, OnFullRun
  <2> QED
    BY <2>1, <2>2, <2>6 DEF SegsOf
<1>18. WholeInv'
  <2>1. CASE named = 0
    <3>1. (\A k \in Kinds : ~Registered(named, k)') /\ published'[named'] = None
      BY <1>1, <1>2, <1>4, <2>1, NewRegister
    <3> QED
      BY <3>1 DEF WholeInv, Whole
  <2>2. CASE named # 0
    <3>1. named' = named
      BY <1>2, <2>2 DEF Comes
    <3>2. \A u \in Stores : ~Between(u)
      BY <1>1, <1>4 DEF Solo, Between
    <3>3. mutex[named] = Dead \/ Whole
      BY <2>2, <3>2 DEF DatastoreInv, WholeInv
    <3>4. AtRegister(named)' = AtRegister(named)
      BY <1>1, <3>1 DEF AtRegister
    <3>5. Sound(AtRegister(named)) => Sound(AtRegister(named))'
      <4> SUFFICES ASSUME Sound(AtRegister(named)) PROVE Sound(AtRegister(named))'
        OBVIOUS
      <4> PICK f : f = AtRegister(named)
        OBVIOUS
      <4>1. (\A k \in Kinds : f[k] \in filled) /\ Matches(f)
        BY DEF Sound
      <4>2. \A q \in filled : q.run <= runs
        BY <1>4 DEF SegsOf
      <4>3. (\A k \in Kinds : f[k] \in filled') /\ Matches(f)'
        BY <1>4, <1>14, <4>1, <4>2, StaysSound
      <4> QED
        BY <3>4, <4>3 DEF Sound, Matches
    <3>6. \A k \in Kinds : Registered(named, k)' = Registered(named, k)
      BY <1>1, <3>1 DEF Registered
    <3>7. Whole => Whole'
      BY <1>1, <3>1, <3>4, <3>5, <3>6 DEF Whole
    <3> QED
      BY <1>1, <3>1, <3>3, <3>7 DEF WholeInv
  <2> QED
    BY <2>1, <2>2
<1>19. /\ \A g \in Gens : mutex'[g] = mutex[g]
       /\ \A g \in Gens : \A k \in Kinds : region'[g][k] = region[g][k]
  BY <1>1
<1> QED
  BY <1>1, <1>7, <1>10, <1>11, <1>12, <1>13, <1>14, <1>16, <1>17, <1>18, <1>19, StoreMoves

-----------------------------------------------------------------------------
(* The invariant holds.                                                     *)

LEMMA StoreStep ==
  ASSUME DatastoreInv, NEW w \in Stores, StoreNext(w)
  PROVE  DatastoreInv'
<1>1. ASSUME NEW k \in Kinds, SwapRegion(w, k) PROVE DatastoreInv'
  <2>1. k = "static" \/ k = "updatable"
    BY DEF Kinds
  <2> QED
    BY <1>1, <2>1, SwapStaticStep, SwapUpdatableStep
<1> QED
  BY <1>1, BeginStep, MetricRefusedStep, SetupStep, PopulateStep, MetricMismatchStep,
     LockRegisterStep, TimeOutStep, UnlockRegisterStep, NotifyRoutersStep, MarkOldStep,
     ReleaseOldStep, FinishStep, StoreDiesStep, SegmentGoneStep DEF StoreNext

LEMMA DatastoreStep == DatastoreInv /\ [Next]_vars => DatastoreInv'
<1> SUFFICES ASSUME DatastoreInv, [Next]_vars PROVE DatastoreInv'
  OBVIOUS
<1>1. CASE UNCHANGED vars
  <2>0. /\ UNCHANGED <<fileLock, shm, filled>>
        /\ UNCHANGED <<named, gens, region, inUse, mutex, ring, posted>>
        /\ UNCHANGED <<runs, base, sPC, sGen, sRun, sStatic, sNew, sOld>>
        /\ UNCHANGED <<rPC, rMain, rGen, rSeen, rFacade, rHeld>>
        /\ UNCHANGED <<deaths, removals, abandoned, published>>
    BY <1>1 DEF vars, osVars, regVars, storeVars, routerVars, faultVars
  <2>1. TypeOK'
    BY <2>0 DEF DatastoreInv, TypeOK
  <2>2. StoresInv' /\ LocksInv' /\ RoutersInv' /\ GensInv'
    <3>1. StoresInv'
      BY <2>0 DEF DatastoreInv, StoresInv, Alone, Prepared, Working, OnFullRun
    <3>2. LocksInv'
      BY <2>0 DEF DatastoreInv, LocksInv, InSwap, Watching
    <3>3. RoutersInv'
      BY <2>0 DEF DatastoreInv, RoutersInv, RouterInv, Up
    <3>4. GensInv'
      BY <2>0 DEF DatastoreInv, GensInv
    <3> QED
      BY <3>1, <3>2, <3>3, <3>4
  <2>3. KeysInv'
    <3>1. RegisteredKeys(named)' = RegisteredKeys(named)
      BY <2>0, SameRegister
    <3>2. \A w \in Stores : NewKeys(w)' = NewKeys(w) /\ OldKeys(w)' = OldKeys(w)
      BY <2>0, SameKeys
    <3>3. UNION {NewKeys(w)' \cup OldKeys(w)' : w \in Stores}
            = UNION {NewKeys(w) \cup OldKeys(w) : w \in Stores}
      BY <3>2
    <3>4. \A w \in Stores : Spare(w) => Spare(w)'
      BY <2>0, <3>1, <3>2 DEF Spare
    <3>5. (Fault => Fault') /\ \A k \in Kinds : Registered(named, k)' = Registered(named, k)
      BY <2>0 DEF Fault, Faulty, Registered
    <3> QED
      BY <2>0, <3>1, <3>3, <3>4, <3>5 DEF DatastoreInv, KeysInv
  <2>4. SegsInv'
    BY <2>0 DEF DatastoreInv, SegsInv, Stored, Seg, Loaded, Working, OnFullRun, Registered
  <2>5. WholeInv'
    <3>1. \A v \in Stores : Between(v) => Between(v)'
      BY <2>0 DEF Between, OnFullRun
    <3> QED
      BY <2>0, <3>1, WholeKeeps DEF DatastoreInv
  <2>6. FacadeSound'
    BY <2>0 DEF DatastoreInv, FacadeSound, Follows, Matches
  <2> QED
    BY <2>1, <2>2, <2>3, <2>4, <2>5, <2>6 DEF DatastoreInv
<1>2. CASE Next
  BY <1>2, StoreStep, RouterStep, RemoveLocksStep, SpringCleanStep DEF Next
<1> QED
  BY <1>1, <1>2

LEMMA DatastoreInit == Init => DatastoreInv
<1> SUFFICES ASSUME Init PROVE DatastoreInv
  OBVIOUS
<1>1. /\ fileLock = None /\ shm = [k \in Keys |-> None] /\ filled = {}
      /\ named = 0 /\ gens = 0 /\ posted = {}
      /\ region = [g \in Gens |-> [k \in Kinds |-> EmptyRegion]]
      /\ inUse = [g \in Gens |-> {}] /\ mutex = [g \in Gens |-> None]
      /\ ring = [g \in Gens |-> <<>>] /\ published = [g \in Gens |-> None]
  BY DEF Init
<1>2. /\ runs = 0 /\ base = [v \in Runs |-> 0]
      /\ sPC = [w \in Stores |-> "idle"] /\ sGen = [w \in Stores |-> 0]
      /\ sRun = [w \in Stores |-> 0] /\ sStatic = [w \in Stores |-> 0]
      /\ sNew = [w \in Stores |-> NoKeys] /\ sOld = [w \in Stores |-> <<>>]
  BY DEF Init
<1>3. /\ rPC = [r \in Routers |-> "down"] /\ rMain = [r \in Routers |-> "serve"]
      /\ rGen = [r \in Routers |-> 0]
      /\ rSeen = [r \in Routers |-> [k \in Kinds |-> EmptyRegion]]
      /\ rFacade = [r \in Routers |-> None] /\ rHeld = [r \in Routers |-> {}]
      /\ deaths = 0 /\ removals = 0 /\ abandoned = 0
  BY DEF Init
<1>4. 0 \in 0..MaxGens /\ 0 \in 0..MaxRuns
  BY Bounds
<1>5. TypeOK
  <2>1. OsType
    BY <1>1 DEF OsType
  <2>2. RegType
    <3>1. EmptyRegion \in [key : Keys, time : Nat]
      BY Bounds DEF EmptyRegion
    <3> QED
      BY <1>1, <1>4, <3>1 DEF RegType
  <2>3. RingType
    BY <1>1 DEF RingType
  <2>4. RunType
    BY <1>2, <1>4 DEF RunType
  <2>5. StoreType
    <3>1. NoKeys \in [Kinds -> Keys \cup {None}]
      BY DEF NoKeys
    <3> QED
      BY <1>2, <1>4, <3>1 DEF StoreType
  <2>6. RouterType
    <3>1. EmptyRegion \in [key : Keys, time : Nat]
      BY Bounds DEF EmptyRegion
    <3> QED
      BY <1>3, <1>4, <3>1 DEF RouterType
  <2>7. PastType
    BY <1>1, <1>3 DEF PastType
  <2> QED
    BY <2>1, <2>2, <2>3, <2>4, <2>5, <2>6, <2>7
       DEF OsType, RegType, RingType, RunType, StoreType, RouterType, PastType, TypeOK
<1>6. StoresInv /\ LocksInv
  <2>1. \A w \in Stores : sPC[w] = "idle" /\ sNew[w] = NoKeys /\ sOld[w] = <<>>
    BY <1>2
  <2>2. \A r \in Routers : ~Watching(r)
    BY <1>3 DEF Watching
  <2> QED
    BY <2>1, <2>2 DEF StoresInv, Alone, Prepared, Working, LocksInv, InSwap
<1>7. RoutersInv
  BY <1>3 DEF RoutersInv, RouterInv, Up
<1>8. GensInv
  BY <1>1 DEF GensInv
<1>9. KeysInv /\ WholeInv
  BY <1>1 DEF KeysInv, WholeInv
<1>10. SegsInv
  BY <1>1 DEF SegsInv
<1>11. FacadeSound
  BY <1>3 DEF FacadeSound, Follows
<1> QED
  BY <1>5, <1>6, <1>7, <1>8, <1>9, <1>10, <1>11 DEF DatastoreInv

LEMMA DatastoreInvHolds == Spec => []DatastoreInv
BY DatastoreInit, DatastoreStep, PTL DEF Spec

(* Keys, segments, handles and mutexes keep their shape, and every counter of *)
(* the update its range.                                                      *)
THEOREM DatastoreTypeCorrect == Spec => []TypeOK
<1>1. DatastoreInv => TypeOK
  BY DEF DatastoreInv
<1> QED
  BY DatastoreInvHolds, <1>1, PTL

(* Whatever stores, routers and operators do, and whoever dies at whatever    *)
(* line of theirs, a router that follows the register serves two loaded       *)
(* segments that belong together.                                             *)
THEOREM FacadesAreSound == Spec => []FacadeSound
<1>1. DatastoreInv => FacadeSound
  BY DEF DatastoreInv
<1> QED
  BY DatastoreInvHolds, <1>1, PTL

(* Unless somebody died, removed the register or gave an update up, the keys  *)
(* in use between updates are those of the regions registered.                *)
THEOREM KeysDoNotLeak == Spec => []KeysAccounted
<1>1. DatastoreInv => KeysAccounted
  <2> SUFFICES ASSUME DatastoreInv, named # 0, ~Faulty, abandoned = 0,
                      \A w \in Stores : sPC[w] = "idle"
               PROVE  inUse[named] = RegisteredKeys(named)
    BY DEF KeysAccounted
  <2>1. \A w \in Stores : sNew[w] = NoKeys /\ sOld[w] = <<>>
    BY DEF DatastoreInv, StoresInv, Prepared
  <2>2. \A w \in Stores : NewKeys(w) = {} /\ OldKeys(w) = {}
    BY <2>1, NoKeysAtAll
  <2>3. UNION {NewKeys(w) \cup OldKeys(w) : w \in Stores} = {}
    BY <2>2
  <2>4. ~Fault
    BY DEF Fault
  <2> QED
    BY <2>3, <2>4 DEF DatastoreInv, KeysInv
<1> QED
  BY DatastoreInvHolds, <1>1, PTL

-----------------------------------------------------------------------------
(* The update implements Snapshots.                                         *)

Current == IF named = 0 THEN None ELSE published[named]
Serve(r) == IF rFacade[r] = None THEN None ELSE IF rGen[r] = named THEN rFacade[r] ELSE Lost
Serving == [r \in Routers |-> Serve(r)]
Forgotten == removals > 0
SnapStep == [Snapshots!Next]_<<Current, Serving, Forgotten>>

(* What a step may make of what a router serves. *)
ServeMoves(r) ==
  \/ Serve(r)' = Serve(r)
  \/ Serve(r)' = None
  \/ Serve(r)' = Current /\ Current # None /\ Serve(r) # Lost
  \/ Serve(r)' = Lost /\ Forgotten

LEMMA LostIsNoFacade == Lost \notin Facades /\ Lost # None
<1>1. ASSUME Lost \in Facades PROVE FALSE
  <2>1. DOMAIN Lost = {"static", "updatable"}
    BY <1>1 DEF Facades, Kinds
  <2>2. DOMAIN Lost = {1}
    BY DEF Lost
  <2> QED
    BY <2>1, <2>2
<1> QED
  BY <1>1, ConstantsAssumption

LEMMA RouterServes ==
  ASSUME NEW r \in Routers, UNCHANGED <<named, published, removals>>, ServeMoves(r),
         \A q \in Routers \ {r} : rGen'[q] = rGen[q] /\ rFacade'[q] = rFacade[q]
  PROVE  SnapStep
<1>1. Current' = Current /\ Forgotten' = Forgotten
  BY DEF Current, Forgotten
<1>2. \A q \in Routers \ {r} : Serve(q)' = Serve(q)
  BY DEF Serve
<1> PICK x : x = Serve(r)'
  OBVIOUS
<1>3. Serving' = [Serving EXCEPT ![r] = x] /\ Serving[r] = Serve(r)
  BY <1>2 DEF Serving
<1>4. CASE x = Serve(r)
  <2>1. Serving' = Serving
    BY <1>3, <1>4 DEF Serving
  <2> QED
    BY <1>1, <2>1 DEF SnapStep
<1>5. CASE x = None
  <2>1. Snapshots!Stop(r)
    BY <1>1, <1>3, <1>5 DEF Snapshots!Stop, Serving, Current, Forgotten, Serve
  <2> QED
    BY <2>1 DEF SnapStep, Snapshots!Next
<1>6. CASE x = Current /\ Current # None /\ Serve(r) # Lost
  <2>1. Snapshots!Load(r)
    BY <1>1, <1>3, <1>6 DEF Snapshots!Load, Serving, Current, Forgotten, Serve
  <2> QED
    BY <2>1 DEF SnapStep, Snapshots!Next
<1>7. CASE x = Lost /\ Forgotten
  <2>1. Snapshots!Stray(r)
    BY <1>1, <1>3, <1>7 DEF Snapshots!Stray, Serving, Current, Forgotten, Serve
  <2> QED
    BY <2>1 DEF SnapStep, Snapshots!Next
<1> QED
  BY <1>4, <1>5, <1>6, <1>7 DEF ServeMoves

(* Reading the register takes a router to the current pair, unless the register
   was removed under its feet. *)
LEMMA ReadsCurrent ==
  ASSUME DatastoreInv, NEW r \in Routers, Watching(r), UNCHANGED <<named, published, removals>>,
         \A k \in Kinds : Registered(rGen[r], k),
         AtRegister(rGen[r]) # None,
         rFacade' = [rFacade EXCEPT ![r] = AtRegister(rGen[r])], rGen' = rGen
  PROVE  SnapStep
<1>0. RegType /\ RouterType /\ PastType /\ GensInv
  BY Types DEF DatastoreInv
<1>1. rGen[r] \in 1..gens /\ gens \in Nat /\ named \in Nat
  BY <1>0, MadeOnes DEF DatastoreInv, RoutersInv, RouterInv, Watching
<1>2. rFacade'[r] = AtRegister(rGen[r])
  BY <1>0 DEF RouterType
<1>3. CASE rGen[r] = named
  <2>1. Whole /\ named # 0
    BY <1>3, HolderFindsWhole
  <2>2. Current = AtRegister(rGen[r])
    BY <1>3, <2>1 DEF Whole, Current, Kinds
  <2>3. Serve(r)' = AtRegister(rGen[r])
    BY <1>2, <1>3 DEF Serve
  <2>4. Serve(r) # Lost
    BY <1>0, <1>3, LostIsNoFacade DEF Serve, RouterType
  <2>5. ServeMoves(r)
    BY <2>2, <2>3, <2>4 DEF ServeMoves
  <2> QED
    BY <1>0, <2>5, RouterServes DEF RouterType
<1>4. CASE rGen[r] # named
  <2>1. Serve(r)' = Lost
    BY <1>2, <1>4 DEF Serve
  <2>2. removals # 0
    BY <1>0, <1>1, <1>4 DEF GensInv
  <2>3. Forgotten
    BY <1>0, <2>2 DEF Forgotten, PastType
  <2>4. ServeMoves(r)
    BY <2>1, <2>3 DEF ServeMoves
  <2> QED
    BY <1>0, <2>4, RouterServes DEF RouterType
<1> QED
  BY <1>3, <1>4

LEMMA QuitServes ==
  ASSUME DatastoreInv, NEW r \in Routers, Quit(r), UNCHANGED <<named, published, removals>>
  PROVE  SnapStep
<1>1. /\ rFacade'[r] = None
      /\ \A q \in Routers \ {r} : rGen'[q] = rGen[q] /\ rFacade'[q] = rFacade[q]
  BY Types, QuitTypes DEF DatastoreInv
<1>2. ServeMoves(r)
  BY <1>1 DEF ServeMoves, Serve
<1> QED
  BY <1>1, <1>2, RouterServes

LEMMA SnapStutters ==
  ASSUME UNCHANGED <<named, published, removals, rGen, rFacade>>
  PROVE  SnapStep
BY DEF SnapStep, Current, Serving, Serve, Forgotten

LEMMA PairIsSomething ==
  ASSUME DatastoreInv, NEW g \in Gens
  PROVE  AtRegister(g) \in [Kinds -> Segs \cup {None}] /\ AtRegister(g) # None
<1>1. OsType /\ RegType
  BY Types DEF DatastoreInv
<1>2. AtRegister(g) \in [Kinds -> Segs \cup {None}]
  BY <1>1 DEF AtRegister, OsType, RegType
<1> QED
  BY <1>2, ConstantsAssumption

LEMMA RouterSnaps ==
  ASSUME DatastoreInv, NEW r \in Routers, RouterNext(r)
  PROVE  SnapStep
<1>0. RegType /\ RouterType /\ RouterInv(r)
  BY Types DEF DatastoreInv, RoutersInv
<1>1. ASSUME Start(r) PROVE SnapStep
  <2>1. /\ rFacade[r] = None /\ rFacade' = rFacade /\ rGen' = [rGen EXCEPT ![r] = named]
        /\ UNCHANGED <<named, published, removals>>
    BY <1>0, <1>1 DEF Start, RouterInv, Up, regVars, faultVars
  <2>2. ServeMoves(r)
    BY <2>1 DEF ServeMoves, Serve
  <2>3. \A q \in Routers \ {r} : rGen'[q] = rGen[q] /\ rFacade'[q] = rFacade[q]
    BY <1>0, <2>1 DEF RouterType
  <2> QED
    BY <2>1, <2>2, <2>3, RouterServes
<1>2. ASSUME Watching(r), \A k \in Kinds : Registered(rGen[r], k),
             rFacade' = [rFacade EXCEPT ![r] = AtRegister(rGen[r])], rGen' = rGen,
             UNCHANGED <<named, published, removals>>
      PROVE  SnapStep
  <2>1. rGen[r] \in Gens
    BY <1>0, <1>2, MadeOnes DEF RouterInv, Watching
  <2>2. AtRegister(rGen[r]) # None
    BY <2>1, PairIsSomething
  <2> QED
    BY <1>2, <2>2, ReadsCurrent
<1>3. ASSUME Construct(r) PROVE SnapStep
  <2>1. UNCHANGED <<named, published, removals>> /\ Watching(r)
    BY <1>3 DEF Construct, faultVars, Watching
  <2>2. CASE Quit(r)
    BY <2>1, <2>2, QuitServes
  <2>3. CASE /\ \A k \in Kinds : Registered(rGen[r], k) /\ AtRegister(rGen[r])[k] # None
             /\ rFacade' = [rFacade EXCEPT ![r] = AtRegister(rGen[r])] /\ rGen' = rGen
    BY <1>2, <2>1, <2>3
  <2> QED
    BY <1>3, <2>2, <2>3 DEF Construct
<1>4. ASSUME SwitchFacade(r) PROVE SnapStep
  <2>1. UNCHANGED <<named, published, removals>> /\ rGen' = rGen
    BY <1>4 DEF SwitchFacade, faultVars
  <2> QED
    BY <1>2, <1>4, <2>1, SwitchReads
<1>5. ASSUME Join(r) PROVE SnapStep
  BY <1>5, QuitServes DEF Join, regVars, faultVars
<1>6. ASSUME RouterDies(r) \/ RingFull(r) PROVE SnapStep
  BY <1>6, QuitServes DEF RouterDies, RingFull, Vanish
<1>7. ASSUME LockWatch(r) PROVE SnapStep
  BY <1>7, SnapStutters DEF LockWatch, faultVars
<1>8. ASSUME Sleep(r) PROVE SnapStep
  BY <1>8, SnapStutters DEF Sleep, faultVars
<1>9. ASSUME Wake(r) PROVE SnapStep
  BY <1>9, SnapStutters DEF Wake, faultVars
<1>10. ASSUME StopWatching(r) PROVE SnapStep
  BY <1>10, SnapStutters DEF StopWatching, faultVars
<1>11. ASSUME BeginQuery(r) PROVE SnapStep
  BY <1>11, SnapStutters DEF BeginQuery, regVars, faultVars
<1>12. ASSUME NEW f \in rHeld[r], EndQuery(r, f) PROVE SnapStep
  BY <1>12, SnapStutters DEF EndQuery, regVars, faultVars
<1>13. ASSUME Shutdown(r) PROVE SnapStep
  BY <1>13, SnapStutters DEF Shutdown, regVars, faultVars
<1>14. ASSUME WakeThread(r) PROVE SnapStep
  BY <1>14, SnapStutters DEF WakeThread, faultVars
<1> QED
  BY <1>1, <1>3, <1>4, <1>5, <1>6, <1>7, <1>8, <1>9, <1>10, <1>11, <1>12, <1>13, <1>14
     DEF RouterNext

(* A new register has no routers: those of an earlier one stay lost. *)
LEMMA NewSnaps ==
  ASSUME DatastoreInv, Comes, named = 0 => gens < MaxGens,
         UNCHANGED <<region, inUse, mutex, published, removals, rGen, rFacade>>
  PROVE  SnapStep
<1>0. RegType
  BY Types DEF DatastoreInv
<1>1. CASE named # 0
  BY <1>1, SnapStutters DEF Comes
<1>2. CASE named = 0
  <2>1. named' > gens /\ named' # 0 /\ published'[named'] = None
    BY <1>0, <1>2, NewRegister
  <2>2. Current = None /\ Current' = None
    BY <1>2, <2>1 DEF Current
  <2>3. ASSUME NEW r \in Routers PROVE Serve(r)' = Serve(r)
    <3>1. CASE rFacade[r] = None
      BY <3>1 DEF Serve
    <3>2. CASE rFacade[r] # None
      <4>1. rGen[r] \in 1..gens /\ gens \in Nat /\ named' \in Nat
        <5>1. rGen[r] \in 1..gens
          BY <3>2 DEF DatastoreInv, RoutersInv, RouterInv, Up
        <5>2. named' = gens + 1
          BY <1>2 DEF Comes
        <5> QED
          BY <1>0, <5>1, <5>2, MadeOnes
      <4>2. rGen[r] # named /\ rGen[r] # named'
        BY <1>2, <2>1, <4>1
      <4> QED
        BY <3>2, <4>2 DEF Serve
    <3> QED
      BY <3>1, <3>2
  <2>4. Serving' = Serving /\ Forgotten' = Forgotten
    BY <2>3 DEF Serving, Forgotten
  <2> QED
    BY <2>2, <2>4 DEF SnapStep
<1> QED
  BY <1>1, <1>2

(* The pair is published when the last of the two regions is swapped. *)
LEMMA SwapSnaps ==
  ASSUME DatastoreInv, DatastoreInv', NEW w \in Stores, NEW kind \in Kinds, SwapRegion(w, kind)
  PROVE  SnapStep
<1> PICK g : g = sGen[w]
  OBVIOUS
<1> PICK old : old = region[g][kind]
  OBVIOUS
<1> PICK new : new = sNew[w][kind]
  OBVIOUS
<1>1. /\ UNCHANGED <<named, removals, rGen, rFacade>> /\ mutex' = mutex
      /\ UNCHANGED <<rPC, rMain, shm, filled>>
  BY DEF SwapRegion, osVars, routerVars, faultVars
<1>2. CASE kind = "static"
  <2>1. published' = published
    BY <1>2 DEF SwapRegion
  <2> QED
    BY <1>1, <2>1, SnapStutters
<1>3. CASE kind = "updatable"
  <2>1. /\ Working(w) /\ InSwap(w) /\ PublishedIn("updatable", g) /\ NewIn(w, "updatable")
        /\ SwappedIn("updatable", g, old, new)
    BY <1>3, SwapMoves
  <2>2. /\ g \in Gens /\ named \in {0, g} /\ mutex[g] = w /\ Solo(w)
    BY <2>1, WorkersFacts
  <2>3. Serving' = Serving /\ Forgotten' = Forgotten
    BY <1>1 DEF Serving, Serve, Forgotten
  <2>4. CASE named = 0
    <3>1. Current' = Current
      BY <1>1, <2>4 DEF Current
    <3> QED
      BY <2>3, <3>1 DEF SnapStep
  <2>5. CASE named = g /\ named # 0
    <3>1. \A v \in Stores : ~Between(v)'
      <4>1. sPC'[w] = "unlock"
        BY <1>3, <2>1 DEF NewIn, SwapTo
      <4>2. \A v \in Stores \ {w} : sPC'[v] = "idle"
        BY <2>1, <2>2 DEF NewIn, Solo
      <4> QED
        BY <4>1, <4>2 DEF Between
    <3>2. Whole'
      BY <1>1, <2>2, <2>5, <3>1, Bounds DEF DatastoreInv, WholeInv
    <3>3. published'[g] # None
      <4>1. published'[g] = AtRegister(g)'
        BY <1>1, <2>1 DEF PublishedIn, AtRegister
      <4>2. AtRegister(g)' \in [Kinds -> Segs \cup {None}]
        <5>1. shm \in [Keys -> Segs \cup {None}]
          BY DEF DatastoreInv, TypeOK
        <5>2. RegType'
          BY DEF DatastoreInv, TypeOK, RegType
        <5>3. \A k \in Kinds : region'[g][k].key \in Keys
          BY <2>2, <5>2 DEF RegType
        <5> QED
          BY <1>1, <5>1, <5>3 DEF AtRegister
      <4> QED
        BY <4>1, <4>2, ConstantsAssumption
    <3>4. published'[g] = AtRegister(g)' /\ \A k \in Kinds : AtRegister(g)'[k] \in filled
      BY <1>1, <2>5, <3>2, <3>3 DEF Whole, Sound
    <3>5. published'[g] \in Facades
      <4>1. filled \subseteq Segs
        BY DEF DatastoreInv, TypeOK
      <4> PICK f : f = published'[g]
        OBVIOUS
      <4>2. f = [k \in Kinds |-> f[k]]
        BY <3>4 DEF AtRegister
      <4>3. \A k \in Kinds : f[k] \in Segs
        BY <3>4, <4>1
      <4> QED
        BY <4>2, <4>3 DEF Facades
    <3>6. Current' = published'[g]
      BY <1>1, <2>5 DEF Current
    <3>7. CASE Current' = Current
      BY <2>3, <3>7 DEF SnapStep
    <3>8. CASE Current' # Current
      <4>1. Snapshots!Publish
        BY <2>3, <3>5, <3>6, <3>8 DEF Snapshots!Publish, Current, Serving, Serve, Forgotten
      <4> QED
        BY <4>1 DEF SnapStep, Snapshots!Next
    <3> QED
      BY <3>7, <3>8
  <2> QED
    BY <2>2, <2>4, <2>5
<1> QED
  BY <1>2, <1>3 DEF Kinds

LEMMA StoreSnaps ==
  ASSUME DatastoreInv, DatastoreInv', NEW w \in Stores, StoreNext(w)
  PROVE  SnapStep
<1>1. ASSUME Begin(w) PROVE SnapStep
  <2>1. Comes
    BY <1>1 DEF Begin, Comes
  <2>2. UNCHANGED <<region, inUse, mutex, published, removals, rGen, rFacade>>
    BY <1>1 DEF Begin, routerVars, faultVars
  <2>3. named = 0 => gens < MaxGens
    BY <1>1 DEF Begin
  <2> QED
    BY <2>1, <2>2, <2>3, NewSnaps, Zenon
<1>2. ASSUME MetricRefused(w) PROVE SnapStep
  <2>1. Comes
    BY <1>2 DEF MetricRefused, Comes
  <2>2. UNCHANGED <<region, inUse, mutex, published, removals, rGen, rFacade>>
    BY <1>2 DEF MetricRefused, routerVars, faultVars
  <2>3. named = 0 => gens < MaxGens
    BY <1>2 DEF MetricRefused
  <2> QED
    BY <2>1, <2>2, <2>3, NewSnaps, Zenon
<1>3. ASSUME NEW k \in Kinds, SwapRegion(w, k) PROVE SnapStep
  BY <1>3, SwapSnaps
<1>4. ASSUME \/ \E k \in Kinds : SetupRegion(w, k)
             \/ Populate(w) \/ MetricMismatch(w) \/ LockRegister(w) \/ TimeOut(w)
      PROVE  SnapStep
  <2>1. UNCHANGED <<named, published, removals, rGen, rFacade>>
    BY <1>4 DEF SetupRegion, Populate, MetricMismatch, LockRegister, TimeOut, regVars, routerVars,
       faultVars
  <2> QED
    BY <2>1, SnapStutters
<1>5. ASSUME UnlockRegister(w) \/ NotifyRouters(w) \/ MarkOld(w) \/ ReleaseOld(w)
      PROVE  SnapStep
  <2>1. UNCHANGED <<named, published, removals, rGen, rFacade>>
    BY <1>5 DEF UnlockRegister, NotifyRouters, MarkOld, ReleaseOld, regVars, routerVars, faultVars
  <2> QED
    BY <2>1, SnapStutters
<1>6. ASSUME Finish(w) \/ StoreDies(w) \/ SegmentGone(w) PROVE SnapStep
  <2>1. UNCHANGED <<named, published, removals, rGen, rFacade>>
    BY <1>6 DEF Finish, StoreDies, SegmentGone, regVars, routerVars, faultVars
  <2> QED
    BY <2>1, SnapStutters
<1> QED
  BY <1>1, <1>2, <1>3, <1>4, <1>5, <1>6 DEF StoreNext

LEMMA RemovedSnaps ==
  ASSUME DatastoreInv, named' = 0, removals' = removals + 1, UNCHANGED <<rGen, rFacade>>
  PROVE  SnapStep
<1>0. PastType
  BY Types DEF DatastoreInv
<1>1. Current' = None /\ Forgotten' = TRUE
  BY <1>0 DEF Current, Forgotten, PastType
<1>2. \A r \in Routers : Serve(r)' = IF Serve(r) = None THEN None ELSE Lost
  <2> SUFFICES ASSUME NEW r \in Routers PROVE Serve(r)' = IF Serve(r) = None THEN None ELSE Lost
    OBVIOUS
  <2>1. CASE rFacade[r] = None
    BY <2>1 DEF Serve
  <2>2. CASE rFacade[r] # None
    <3>1. rGen[r] # 0
      <4>1. rGen[r] \in 1..gens
        BY <2>2 DEF DatastoreInv, RoutersInv, RouterInv, Up
      <4> QED
        BY <4>1
    <3>2. Serve(r)' = Lost
      BY <2>2, <3>1 DEF Serve
    <3>3. Serve(r) # None
      BY <2>2, LostIsNoFacade DEF Serve
    <3> QED
      BY <3>2, <3>3
  <2> QED
    BY <2>1, <2>2
<1>3. Serving' = [r \in Routers |-> IF Serving[r] = None THEN None ELSE Lost]
  BY <1>2 DEF Serving
<1>4. Snapshots!Forget
  BY <1>1, <1>3 DEF Snapshots!Forget, Current, Serving, Serve, Forgotten
<1> QED
  BY <1>4 DEF SnapStep, Snapshots!Next

(* Routers serve snapshots: each serves nothing or a pair that was current as *)
(* a whole when it loaded it, and a removed register loses its routers.       *)
THEOREM UpdatesAreSnapshots == Spec => SnapshotSpec
<1>1. Init => Snapshots!Init
  <2> SUFFICES ASSUME Init PROVE Snapshots!Init
    OBVIOUS
  <2>1. named = 0 /\ removals = 0 /\ rFacade = [r \in Routers |-> None]
    BY DEF Init
  <2>2. Current = None /\ Forgotten = FALSE /\ Serving = [r \in Routers |-> None]
    BY <2>1 DEF Current, Forgotten, Serving, Serve
  <2> QED
    BY <2>2 DEF Snapshots!Init, Current, Forgotten, Serving, Serve
<1>2. DatastoreInv /\ DatastoreInv' /\ [Next]_vars => [Snapshots!Next]_<<Current, Serving, Forgotten>>
  <2> SUFFICES ASSUME DatastoreInv, DatastoreInv', [Next]_vars PROVE SnapStep
    BY DEF SnapStep
  <2>1. CASE UNCHANGED vars
    <3>1. UNCHANGED <<named, published, removals, rGen, rFacade>>
      BY <2>1 DEF vars, regVars, routerVars, faultVars
    <3> QED
      BY <3>1, SnapStutters
  <2>2. CASE RemoveLocks \/ SpringClean
    <3>1. named' = 0 /\ removals' = removals + 1 /\ UNCHANGED <<rGen, rFacade>>
      BY <2>2 DEF RemoveLocks, SpringClean, routerVars
    <3> QED
      BY <3>1, RemovedSnaps
  <2>3. CASE Next
    BY <2>2, <2>3, StoreSnaps, RouterSnaps DEF Next
  <2> QED
    BY <2>1, <2>3
<1>3. SnapshotSpec <=> Snapshots!Init /\ [][Snapshots!Next]_<<Current, Serving, Forgotten>>
  BY PTL DEF SnapshotSpec, Snapshots!Spec, Current, Serving, Serve, Forgotten
<1> QED
  BY DatastoreInvHolds, <1>1, <1>2, <1>3, PTL DEF Spec
=============================================================================
