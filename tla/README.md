# A TLA+ verification of the SmartCity / Proximity backend

The repository holds a marketplace: customers fill carts, sellers run stores, products and
offers, couriers fetch orders. Two programs do its work. The Node server under
`src/backend-nodejs/src` (Express, Mongoose over MongoDB, ioredis) handles the requests;
`src/backend-nodejs/osrm-backend` is the OSRM routing engine in C++, which the server asks for
distances, and which is by far the larger part of the code. `src/frontend-flutter` holds user
interfaces. This directory models both programs, model-checks them with TLC and proves with TLAPS
what can be proved for every size of the system. Paths are relative to
`src/backend-nodejs/src` for the server and to `src/backend-nodejs/osrm-backend` for OSRM. The
versions are those of `package-lock.json` (mongoose 8.3.2, ioredis 5.4.1); where a handler's effect
depends on a library, the models follow the library.

`PROJECT.json` lists every component with what is and is not modelled, every run, the lines each
definition translates (`map`), the hazards of the code at their lines, and the theorems.

## 1. Inventory

### The server

All state is in MongoDB (one collection per model), in the Redis lists of `setupredis.js`, and in
the locals of requests. A request is an async function on one event loop: between two `await`s it
runs alone, at every `await` any other request may run. Nothing uses a transaction or a lock; the
only guards of the database are two unique indexes (`User.username`, `Cart.userId`) and mongoose's
document version `__v`. The process may die at any `await`.

| component | state | operations | hard behaviour | what makes it correct |
|---|---|---|---|---|
| Courier dispatch (`setupredis.js`, `coursierService.getDeliveries`, `orderService.createOrderTest`) | a Redis list of orders per city, a list of couriers, one blocking connection | place an order, fetch one (wait or scan) | LINDEX/LSET/LREM and BRPOPLPUSH/RPOP are not atomic; an index used many awaits after it was read; the routing API fails; crash with an order in hand | an order is handed over once and never duplicated; what is taken is accounted for; an order in reach is eventually served |
| Cart (`cartService`, merge of the guest cart in `authService`) | one document per user with elements by position | add, get (which drops and reprices), merge | read, change in memory, save under `__v` or without | no item lost, no write on another's element, one element per variant |
| Offers (`offerService`) | an offer document and the product's reference to it | create, update, delete | two writes with a crash between them; a check two awaits before the write | at most one live offer; what was deleted never runs again |
| Accounts (`authService`, `userService`) | user documents | register, verify, resend, update, delete | look-up long before the save; a save nobody awaits; a late save of a resend | unique names; contacts shared only by overlapping registrations; verified for good |
| Password reset (`resetPasswordService`) | one document with a code, removed by a TTL index | request a code, check, reset | code replaced or expired between check and use; two requests at a time; a code that is stored and never mailed | a password is set with an issued, current code; no code works but the one stored last |
| Order lifecycle, notifications, deliveries, products, stores, categories, search, statistics, tokens | documents and counters | see `PROJECT.json` | mostly one read and one write each; several handlers throw before they write | not modelled, see section 6 |

Registration merges the guest's cart (Accounts → Cart); carts read products and offers, which
sellers change (Products, Offers → Cart); `updateProduct` and `deleteProduct` write the document an
offer refers to (Products → Offers); deleting a user leaves the reset documents (Accounts →
Password reset); orders placed for a courier enter the Redis list (Orders → Dispatch).

### OSRM

A pipeline of programs turns a map into files, `osrm-datastore` puts them into shared memory, and
`osrm-routed` answers queries from there.

| component | state | operations | hard behaviour | what makes it correct |
|---|---|---|---|---|
| Extraction (`extractor/`): containers, node-based graph and its compression, restriction graph, edge-based graph | lists of nodes, edges, restrictions; the graph that is compressed in place; geometries; via nodes and suffixes | node by node, path by path | a node that disappears is named by restrictions and signals; zipped geometries of two directions; restrictions that overlap | the walks of the edge-based graph are the lawful walks of the map at the same cost |
| Updater (`updater/updater.cpp`) | packed segment weights, turn penalties, edges | CSV lookups, a parallel update, re-weighting, writing back | tasks that set packed values in one word; a second run over what the first one wrote | an edge has the weight and penalty that its lines and what earlier runs left give it; no packed value is lost |
| Contraction (`contractor/`) and routes and tables on it | graph, priorities, shortcuts; heaps of a query | parallel rounds, renumbering, exclude filters; bidirectional search, unpacking | independent nodes of a round; ties broken by a hash; a renumbering in the middle; loops | distances survive; routes and tables are those of the graph |
| Partition (`partitioner/`), customisation (`customizer/`) and queries on the overlay | cells by level, cliques, heaps | parallel inertial flow, recursive bisection, cells of a level in any order, search with recursion into cells | the best cut by a comparison that is not transitive; border nodes that move; cliques that remember no path | cells nest, cuts are minimal, routes, tables and waypoint routes are shortest |
| Snapping (`engine/geospatial_query.hpp`, `util/static_rtree.hpp`) | priority queue of a search | best-first search with filters and terminators | stopping with ties, islands and copies of a street | what a look at every segment would find |
| Services (`engine/plugins/`), trips, map matching | a request, its phantoms, the table, the hidden Markov model | refuse, snap, answer | fixed ends by overwriting a table; breakages, splits and restarts | best trip; most likely matching |
| Server (`server/connection.cpp`, `request_parser.cpp`) | a connection with parser, timer, reply | asynchronous reads, writes, timeouts | a request split into reads; a kept connection that reuses everything; a timer's handler already queued | every reply answers the request its client waits for; every client is answered or let go |
| Data update (`storage/`, `engine/datafacade_provider.hpp`, `data_watchdog.hpp`) | register of regions, segments, locks in shared memory | store, switch, detach; a watchdog thread per router | two swaps under one mutex, killed processes, removed registers, timeouts, lost notifications | a router serves a whole data set; no key leaks; updates, switches and shutdowns end |
| Guidance, answers, profiles, parsers, files, tiles, encodings, bindings | labels, text, bytes | - | - | not modelled, see section 6 |

## 2. Modules

| module | models | state → code |
|---|---|---|
| `CourierDispatch` | every awaited Redis command of `getDeliveries`, `addOrder` and the list helpers | `list` = `city:<city>`; `registry` = `cityCoursier:<city>`; `conn` = the pipeline of the connection `coursierQueue`; `pc`, `scan`, `held` = where a request is and its locals; `handed`, `spent`, `placed` are history |
| `OrderPool` | abstract: an order waits from placing to handing over, once | - |
| `Cart` | `addToCart`, `getCart`, the guest merge | `cart` = the document (items by position, `__v`); `req` = locals, among them the snapshot `doc` and the list in memory; `shop`, `live` = what sellers and time change |
| `Offer` | `createOffer`, `updateOffer`, `deleteOffer`, and the writes of `updateProduct`, `deleteProduct` to the same documents | `offer`, `product` = the documents; `req` = locals |
| `OfferBook` | abstract: one running offer per product, a finished one never comes back | - |
| `Accounts` | `register`, `verify`, `resend_verification_code`, `updateUser`, `deleteUser` | `users` = documents; `saving` = the save that `verify` does not await; `seen`, `moved`, `confirmed` are history |
| `PasswordReset` | requests, mails that fail, resets, the TTL monitor, deletion, crashes | `docs` = documents with their age; `password`, `deleted`; `last` (the code stored last, the time since, whether it was mailed), `issued`, `overlapped` are history |
| `Database` | what the four modules above share: `None`, no document | - |
| `Datastore` | every step of an `osrm-datastore` run between two system calls, the watchdog's constructor, thread and destructor, queries | `shm`, `filled` = segments at keys; `named`, `region`, `inUse`, `mutex` = the register objects; `sPC`, `sNew`, `sOld`… = a store; `rPC`, `rSeen`, `rFacade`… = a router |
| `Snapshots` | abstract: a router serves nothing or a pair that was current as a whole when it loaded it | - |
| `Contraction`, `ContractedRouting` | `contractGraph` with every order of its parallel loops, the shared and the core contractions, the container; the queries on it | `graph`, `core`, `priority`, `weight`, `depth`, `remaining`, `toOld` = the contractor's vectors; `todo`, `independent`, `inserted` = the parallel loop that runs; `container` = the query graph with a filter per edge; queries are functions of it |
| `Partitioning`, `MultiLevel`, `MultiLevelRouting` | components, inertial flow, bisection, cells; the packed partition and the customisation; searches, tables, waypoint routes | `forest` = the recursion's open work; `bisectionIds`, `partitions`, `permutation` = its result; `mlp`, `cells`, `overlay`, `metrics` = what is stored; `todo` = the parallel loop over the cells of a level |
| `ExtractionContainers`, `NodeBasedGraph`, `RestrictionGraph`, `Extraction` | collecting, compression node by node, restriction paths and transfers, edge-based nodes and turns | `g`, `geometries`, `rg`, `ebg` = what the phases of `Extractor::run` pass on |
| `Updater`, `PackedVector` | CSV files, tasks that compare and swap words, edges weighed again | `files` = what is on disk; `update` = a run with its tasks; `Field`, `Replaced` = masks and shifts of a word, whose powers of two are the function `Power` |
| `LawfulWalks` | the references of extraction and updater: walks of the map that its laws allow, and their cost; what a sequence of updates makes of every edge | - |
| `StaticRTree`, `GeospatialQuery`, `Plugins`, `MapMatching`, `Connections`, `Engine` | the tree, the search entry by entry, the services, the Viterbi algorithm point by point, the connection; `Engine` composes them | `search` = one `Nearest` search; `job` = the request under way; `model` = the HMM; `conn`, `wire`, `client` = a connection, the bytes on their way, the other end |
| `Iteration`, `QueryHeap`, `Components` | loops as recursive functions, the query heap, strongly connected components | - |
| `MC*` | constants of an instance and symmetry sets; `MCServer` also joins `Cart`, `Offer`, `Accounts` and `PasswordReset`, whose steps write different documents and so commute: a behaviour is one of one service | - |
| `*Proofs` | inductive invariants, lemmas and theorems | - |

Each module says what one action is. In the server: an awaited call together with the JavaScript
that runs until the next one. In `Datastore`: what happens between two calls on shared memory,
locks or files. In the data pipeline: one turn of the loops that run in parallel or whose order is
open, while sequential code in between is part of the step. In the engine: one handler of the
connection, one entry of a search, one point of a matching.

A definition called a *slip* is a plausible bug (a dropped guard, a swapped order) that no
specification uses; replacing the definition by its slip makes a property fail, which shows that
the property depends on that code.

Points where the models follow a library or the code's accidents:

- *Redis.* The connection `coursierQueue` is a FIFO: a BRPOPLPUSH with timeout 0 blocks every later
  command on it. `null.coordinates` and `JSON.parse("REMOVEIT")` throw to the catch that ends the
  request.
- *mongoose.* `save` sends the fields that changed. A field of an array element is set by position
  under the condition that `__v` is the one read, without raising it; a push is unconditional and
  raises it; a spliced array is set whole, under the condition, and raises it.
- *Cart.* The query for a live offer asks for `active`, a virtual no document stores, so it never
  finds one. `updateCart`, `deleteProductFromCart` and others throw before they write and are not
  actions.
- *Accounts.* The save in `verify` is not awaited: its rejection is handled by nobody and ends the
  process.
- *Password reset.* `tokenResetPassword.delete()` is not a method of mongoose 8 documents: it throws
  after the password is set and the document stays. `sendMail` is not awaited and may fail; it and the save before it are two
  steps, and the server may die between them. A code for a phone is never sent: `axios` is not imported.
- *Datastore.* The mutex is robust to nothing: a store killed between the two swaps leaves it locked
  until `--remove-locks`.
- *Extraction.* `insertEdge` and `insertRestriction` copy from a vector into itself, and
  `add_suffix_transfer` iterates while it pushes (`restriction_graph.cpp`); they are modelled with
  the memory intact.
- *Updater.* `updateSegmentData` reads a packed weight while other tasks swap the same word
  (`packed_vector.hpp:563`); the bits it reads are not the ones they write. Lines of one key in one
  file are sorted by `tbb::parallel_sort`, which is not stable, so `Lookups` takes any of them. That the
  comment over the sort promises the last one is a finding below.
- *Contraction.* The bodies of a parallel loop run in any order and on any thread. They read the
  graph, which no body writes, and the node weights, which a simulated contraction writes as well: a
  data race, modelled as whatever an order of the bodies gives. Durations and distances travel with
  the weights and are left out.
- *Engine.* Heap ties come out in any order. `std::sort` of at most 16 candidates is stable. A
  request whose first coordinate is not a waypoint, with `tidy`, reads `waypoints.back()` of an empty
  vector and is left out. The parser states `uri_start` and `header_lws` are never entered.
  The copies of a street that restrictions over several ways lead through have segments of their own in the
  tree. A copy against the direction of its geometry has its positions counted along the copy
  (`edge_based_graph_factory.cpp:415`) while a snap reads the weights along the geometry
  (`edge_based_node_segment.hpp:46` says that they go with the geometry); the model counts and reads as the code does, and the copy
  of the instance runs forward.


## 3. Runs

"Serial" is one request at a time, "concurrent" lets requests interleave. A property that only a
serial instance checks is *not* true of interleaved requests: the code has no guard there.

| run | instance | properties, and what they show |
|---|---|---|
| `dispatch_concurrent` | 2 couriers, 3 orders (one out of everybody's reach), one city, 3 calls, a crash, an API that fails; 300 561 states | `NoDuplicates`: no order twice in the lists and hands; `RemovalAccounting`: the orders that are gone are covered by replies, lost replies and removals under way |
| `dispatch_serial` | 1 courier, 3 orders, 3 calls, an API that answers; `FairSpec`; 672 states | `ScanIsClosest`: the index a scan keeps is that of the closest order it passed; `PoolSpec`: refines `OrderPool`; `ReachableServed`: a waiting courier with an order in reach is served whatever else is in the list |
| `server` | `MCServer`: the four services over Mongo, each as if alone. Cart: 3 variants (one with an offer), 2 requests at once, 5 calls, an edit by the seller. Offers: 2 products, 3 offers, 2 rates, a crash, one request at a time. Accounts: 3 requests, an email, a phone, 2 names, 2 codes, an edit, a crash. Password reset: 2 users (one has only a phone), 3 requests, two at a time, 2 codes, a deletion, crashes, mails that fail. 786 870 states under symmetry | `OneItemPerVariant`: an element of a variant per cart as long as requests did not overlap; `NothingLost`: no interleaving loses an item that was on sale; `WritesHitTheirItem`: a write by position lands on its variant; `OneLiveOffer`; `BookSpec`: refines `OfferBook`; `ContactSharedByRaceOnly`: two accounts have one email or phone only if their registrations overlapped or the account moved; `VerifiedForGood`; `PasswordByIssuedCode`; `OnlyLatestCodeWorks`: no code works but the one stored last, whatever mails are lost; `ResetByCurrentCode`: a password is set with a code in force. The last two for users whose requests do not overlap |
| `reset_expiry` (violated) | `PasswordReset`: one user, two requests one after the other, 2 clock steps | `CodesLastAnHour`: a finding below |
| `datastore` | one store program and one router, 4 keys, a ring of 2, 3 runs, 2 register objects, a killed process, timeouts, metric-only runs; `FairSpec`; 188 153 states | `FacadeSound`: a router that follows the register serves two filled regions that belong together; `KeysAccounted`: between updates exactly the keys of registered regions are in use; `SnapshotSpec`: refines `Snapshots`; `UpdateEnds`, `RoutersSettle`: updates and shutdowns end, and a router ends on the current pair |
| `contraction` | 4 nodes, 2 threads: a ring with every subset of 5 chords, closed streets, a toll filter; 7 683 states | `RoundContracts`: every round finds a node to contract, whatever the ties; `DistancesKept`: between rounds the rest of the graph keeps every distance of the whole; `RoutesShortest`, `RoutesUnpack`, `TablesAgree` on the finished hierarchy |
| `contraction_exclude` (violated) | 4 nodes, an exclude filter that forbids the cheap street | `RoutesShortest`: the finding below |
| `multilevel` | 24 directed streets on 15 intersections, cells of 5 and 12, 6 origins; 1 018 states | `CutsMinimal`: every bisection is a minimum cut between the ends of its sweep; `PartitionNested`: each cell lies in one of the level above, also after border nodes moved and cells were packed into bits; `RoutesShortest`, `TablesAgree`, `WaypointsOptimal` against references on the edge-based graph |
| `extraction` | ten maps with 2 to 4 of 8 restrictions, signals, barriers and broken nodes; sequences of up to three traffic files; words of 8 bits with values of 5; 11 878 states | `RestrictionsExact`: the turns of the edge-based graph make the lawful walks, at their cost; `GeometriesFit`: geometries have the weights of the segments they pass, and as written they lie one behind the other with words for all weights; `ComponentsExact`; `UpdatesExact`: after any of the runs the streets that it names weigh what its lines and those of all runs before it make of them, every other edge is as extracted, and the penalties on disk are those that the runs which write them left; `NoWriteLost`: no packed value is lost to a neighbour in its word |
| `last_line` (violated) | one of these maps, one file with two lines of a key | `LastLineKept`: a finding below |
| `engine` | a town of few streets, one of them with a copy, and about 60 requests of all services, reads of at most 12 characters; fairness; 220 261 states | `SnapsExact`: a search returns what a look at all segments would; `TripsOptimal`; `MatchesMostLikely`; `RepliesFollowRequests`: a reply answers the request its client waits for; `ClientsSettled`: a client that sent a whole request is answered or let go |
| `one_location` (violated) | two roads and a spur equally near to a point | `OneLocation`: a finding below |

Every property of a passing run has a mutant in `PROJECT.json`: a slip of a mapped definition under
which the same run finds the property violated.

**The findings.** Each is a run that finds what the repository says violated by what the code does.

- *Contraction* (`contraction_exclude`, `RoutesShortest`). `docs/http.md:200` and `:39` promise that an
  excluded class is avoided and the route is the best of what is left. `contractExcludableGraph` contracts a
  first part of the graph once for all filters; the witness searches of this shared part run through
  excluded nodes, so a shortcut a filter needs is not made when a witness uses a street the filter forbids, and
  the route found under the filter is longer than the best one, or missing.
- *Password reset* (`reset_expiry`, `CodesLastAnHour`). The mail says that the code expires in 60 minutes
  (`resetPasswordService.js:47`). A second request puts its code into the document of the first
  (`:33`), whose `createAt` stays, so the code dies with the first one's hour.
- *Updater* (`last_line`, `LastLineKept`). A comment (`csv_file_parser.hpp:60-62`) speaks of a stable sort after
  which the line with the largest number in a file is kept. Line 64 sorts with `tbb::parallel_sort`, which is not
  stable; a stable sort with this comparison would keep the first line.
- *Snapping* (`one_location`, `OneLocation`). A comment (`geospatial_query.hpp:81-85`) says that of equidistant
  locations candidates come from one only. When the search meets first a small component at one place and then
  the big one at another as near, the filter (`:100-130`) keeps the small one of the first and the big one of the
  second, and drops the big one of the first.

**Bounds, and why they are enough.** *Server*: `MaxCalls`, `MaxSellerEdits`, `MaxAccountEdits`, `MaxDeletes`
and the `Max…Crashes` bound how often the environment acts, `MaxActive` how many requests run at once, `Lifetime` is the 3600 s
in clock steps. The races are between two requests, or a request and an edit. A third order lets a
scan pass over an element and lets the closest be neither first nor last; three variants let a
splice shift an element between a read and a write by position; two codes and two clock steps
separate issued, current and expired. *Datastore*: 4 keys are two whole pairs,
the one that is served and the one that is loaded, so that a key that leaks is missed; a third run uses the keys
of the first again; a ring of 2 semaphores fills up; a second register object is one made after the first
was removed, while a router still holds that. *Contraction*: 4 nodes
are the fewest for a shortcut over a shortcut and a witness beside it; the settled-node limits are
low enough that a witness is sometimes missed. *Multilevel*: three levels with at least two cells
each, a cell with several border nodes, a route that leaves a cell and comes back; `BisectionBits` = 6,
`NodeBits` = 5 and `PartitionBits` = 10 for the 32, 32 and 64 of the code hold its cuts, nodes and cells. *Extraction*:
words of 8 bits with 5-bit values make values straddle words with neighbours on both sides.
*Engine*: the tree has three levels, a breakage and a split need 4 and 5 points, 12 characters cut
every well-formed request at one place (`RequestsAreMadeOut` covers every split), and a second request over a kept connection follows the first.
For the server's components, the datastore and the connection the theorems of section 4 say the
same for every value of the constants.

Deadlock checking is off where calls, orders or requests run out by a bound (dispatch, server,
reset, datastore, extraction) and on elsewhere.

**Fairness.** *Dispatch*: weak fairness of each request's next step, `\A c : WF_vars(Step(c))`. Redis
answers what is not blocked and the event loop runs every continuation; that the routing API
answers or fails is an assumption about the network, as the axios call has no timeout. Nobody has to
place orders or to call. The instance has one courier and one city because of the head-of-line
blocking listed below. *Datastore*: every step of a process that is alive and not blocked is weakly
fair; taking the register's lock, taking the notification's mutex and waking from it are strongly fair,
since the operating system hands out a mutex that keeps being freed. Starting, killing and
querying are not fair. *Engine*: a step of the server or the kernel that stays possible is taken,
and a search that runs goes on, since a query is finite work
(`WF_vars(ServerStep \/ KernelStep)` and the progress of `Querying`); clients need do nothing.

**Refinement mappings.** `OrderPool`: waiting are the orders in the lists, in a request's hand and
between LREM and the reply. `OfferBook`: an offer runs while its product refers to it and it is not
marked deleted; it is over when it exists, is not about to be assigned, and no product runs it.
`Snapshots`: current is the published pair of the register that bears the name; serving is a
router's facade, or `Lost` when it belongs to a register that was removed.

**Hazards no property catches.** Where the code has no guard, a property that caught the hazard would be false,
and nothing in the repository promises it: two creates of an offer at once, registrations that overlap, two
requests for a code at once, a code that is replaced or expires between check and use, the keys that a failed
update leaks, the timer's handler that closes a connection under a request. The models contain these behaviours
(but two creates at once, as the run's instance takes offers one request at a time); the properties
state what holds around them, and `PROJECT.json` says so at each hazard.

**Known limits of the code, met while modelling.** No run is about them; where a line of
the repository says otherwise, it is named.

- *Dispatch*: an index read from a list is used many awaits later (`setupredis.js:66` against `:28`
  and `:39`), so two removals that overlap read one order and mark another. A BRPOPLPUSH shares its
  connection with every courier and city (`coursierService.js:173`, `:230`). A crash with an order in
  hand loses the order, one between LSET and LREM leaves a `REMOVEIT` behind. `cityCoursier:<city>` only
  grows.
- *Cart*: two interleaved adds of a variant make two elements, or mix the fields of both under an
  offer; a live offer's discount is lost when the cart is read; a splice of a later element reprices
  the one before; `totalPayable` adds up only items with an offer; an unavailable first item makes every
  later `getCart` throw (`cartService.js:147`, `:151`); the guest merge keeps one item of a cart that starts
  empty (`authService.js:125`).
- *Offers*: two interleaved `createOffer` make two live offers.
- *Accounts*: `updateUser` can make two emails equal; a rejected save of `verify` ends the process
  (`authService.js:208`).
- *Password reset*: two requests at once make two documents whose codes both work; when the mail fails or the
  server dies after the save, the code mailed before is dead and the one in force was never mailed.
- *Datastore*: `--only-metric` with a metric of another data set (`storage.cpp:560`); with `--max-wait` an
  update fails when the time is over (`storage.cpp:98`), where `store.cpp:123` and `CHANGELOG.md:676` say that
  it takes the lock by force.
- *Contraction and customisation*: the hierarchy keeps one turn id for both directions
  (`graph_contractor_adaptors.hpp:74`); 8-bit edge offsets limit a node to 255 edges; the integer
  division of `inertial_flow.cpp` truncates the balance it compares.
- *Updater* (`UpdatesExact` says all of this): a second run without a segment of the first leaves the geometry updated and the edge at
  its extracted weight; the penalties are not rewritten when only segments change; conditional
  penalties stay on disk; nodes without outgoing edges keep old weights.
- *Engine*: a kept connection serves 513 requests (`connection.cpp:159`) where `http.md:3` says 512, which no
  property is about; bytes after a whole request in one read are dropped; `keep_alive` is never reset, so a later
  `Connection: close` is ignored; a queued timeout can close a connection that has just got its next request; a
  first request that never completes has no timeout; candidates pruned at the end of a trace count
  as alternatives (`map_matching.cpp:386`); a trace of three points whose last one breaks off gives no
  match although the first two fit.

## 4. What is proved

The theorems hold for every value of the constants that each module's assumption allows (sets of any
size, any bounds); TLC evaluates these assumptions in the runs. Every proof has the same shape: an
inductive invariant, `Init` establishes it, a lemma per action shows that it is kept, and the property
follows from it. Where a theorem has a further hypothesis, the property is false without it, and the
run that checks it has an instance where the hypothesis holds.

| theorems | hypotheses | inductive invariant, and why the property alone is not inductive |
|---|---|---|
| `CourierDispatchProofs`: `TypeCorrect`, `NeverDuplicated` | - | `DispatchInv` = `TypeOK` ∧ `HolderHolds` ∧ `PlacedFirst` ∧ `NoDuplicates`. `AddOrder` pushes `held[c]`, so type and uniqueness need that a request which measures or pushes back holds an order; `Place` pushes an order, so uniqueness needs that only placed orders are about. Lemmas say what rotation, RPOP, LSET and LREM do to a sequence without duplicates |
| `RemovalsArePaid` | - | `AccountInv` adds what is in which hand and that the placed orders are finitely many: the bound counts orders and requests, and every removal moves one unit from one set to another |
| `ScansFindTheClosest` | one courier per city, an API that answers | `ScanInv`: while a request scans, the list is the one it read the length of, rotated as far as its index (`Follows`), and the best so far is the closest of what it passed (`SeenCloser`) |
| `DispatchIsAPool` (refines `OrderPool`) | one courier per city, no crashes | `PoolInv` adds where every placed order is (`Home`) and that what was handed over is nowhere else (`HandedOnce`); every step is then a step of the pool or a stutter |
| `CartProofs`: `CartTypeCorrect`, `ItemsAreNotLost`, `WritesStayInPlace` | - | `VersionInv` = `CartTypeOK` ∧ `OffSaleWasGone` and per request `ReadIsOld` (the document it holds is of this version or an older one, and of this version element by element the same variants) and `GetsOwn`: mongoose's check of `__v` protects a write by position only because every shift of positions raises `__v` |
| `NoVariantTwice` | - | `AloneInv` adds `AloneSees`: as long as no other request overlapped, what a request read is what is stored |
| `OfferProofs`: `OfferTypeCorrect`, `OffersLoseOnlyDeleted` | - | `OfferInv` = `OfferTypeOK` ∧ `ClearsMarked`: a request about to clear a product has marked its offer, and no offer is unmarked |
| `OneOfferLives` | one request at a time | `SerialInv`: the live offer is the one the product refers to (`LiveAssigned`), one about to be created has found no other (`NoLiveYet`); after a crash the property holds vacuously, as it speaks of behaviours without one |
| `HandlersKeepTheBook` (refines `OfferBook`) | one request at a time | `BookInv`: the offer a request is about to assign exists and nobody runs it, an offer refers back to the product that runs it; survives crashes |
| `AccountsProofs`: `AccountsTypeCorrect`, `NamesStayUnique`, `ContactsSharedByRaceOnly`, `VerifiedStays` | - | `AccountsInv` = `AccountTypeOK`, `NamesUnique`, `ContactSharedByRaceOnly` and per request `Carries` (what it has in hand), `Unborn` (its account does not exist before its insert), `Checked` (it clashes with no account it saw, unless that one moved) |
| `PasswordResetProofs`: `ResetTypeCorrect`, `PasswordsSetByIssuedCode`, `LatestCodeOnly`, `ResetsUseCurrentCode` | - | `ResetInv` = `ResetTypeOK`, `Alone` (two requests of one user are remembered), `Carries` and `Current` per request (a checked or stored code is that of the user's document unless requests overlapped), `OneDocument`, `StoredIsIssued`, `PasswordIsSettled`, `OnlyLatestCodeWorks`. A crash ends requests and changes nothing stored |
| `DatastoreProofs`: `DatastoreTypeCorrect`, `FacadesAreSound`, `KeysDoNotLeak`, `UpdatesAreSnapshots` (refines `Snapshots`) | - | `DatastoreInv`: what every step of a store has prepared (`StoresInv`), who may hold the locks (`LocksInv`), what a router has read and attached at each step (`RoutersInv`), which data set each segment bears (`GensInv`, `SegsInv`, `WholeInv`), which key is whose (`KeysInv`), and `FacadeSound`. A router's facade is sound because a region it registered as in use is not removed under it; that needs the order of the steps of both programs, with kills and timeouts in between |
| `EngineProofs`: `RepliesAreFollowed` | - | `ServingInv` = `Shape` ∧ (`Faithful` ⇒ `Reading` ∨ `Handling` ∨ `Writing`): the characters of the request its client waits for are, in order, partly in the parser, partly in the buffer and partly on the wire; or it is being handled; or its reply is being written; or the connection is done |
| `EngineProofs`: `SearchesAreExact` | - (the map has one segment per edge-based node and position, `MapAssumption`; copies of a street have nodes of their own) | `SnapInv` = `JobShape` ∧ `Snapped` (a request that is being snapped has the lists its checks asked for) ∧ `SearchInvOf`. Of a running search: the queue's entries cover disjoint sets of segments, none nearer than its entry, and what no entry covers was visited, is within reach and no farther than any entry (`HeapInv`); `nearest` and `big` are the places of the first segments of their sort (`PlacesInv`); the results are, in order, the fit ones of those visited (`ResultsInv`). The tree enters by `Packed` alone: leaves hold each segment once, inner boxes enclose what is below |
| `EngineProofs`: `SnapsAreExact` | one main network: all components that are not small are one | `FoundInv` = `FormInv` (results are segments of the map, those of small components at the nearest place) ∧ `Followed` (the search asks for the next coordinate; what was found for those before, `FoundWell`, has candidates of the main network whenever some is within reach, and elsewhere than at the nearest place only such). Candidates are gathered by a loop; its states are shown to exist by induction over the rounds, done as a least counterexample |
| `EngineProofs`: `RequestsAreMadeOut` | - | about the parser alone: fed a whole request in any two reads, it makes out exactly that request. The loop over the characters is a recursive function; the proof names the state of the parser after every character as an explicit function (`ParserAt`) and shows by a least counterexample that the loop gives it |
| `PreparationProofs`: `WritesAreNotLost` | when `osrm-extract` is done, its lists lie one behind the other with words for all weights (`ExtractedLaidOut`) | `UpdateInv`: the files are laid out; the commands are those of the map; and of a run at work `Working`: its data has the places of the data it read, what the tasks have still to do belongs to places no two of them share (`TasksGood`), a task that is about to write the upper half of a value finds its lower half written, and every weight is the old one, the one its line says, or half of each in the hand of one task (`ValuesGood`). The words are numbers: the lemmas say that replacing one field of a word keeps every field beside it, and that the fields of all places are beside each other |
| `PreparationProofs`: `CellsAreNested` | - | `NestingInv`: until the cells are made, every edge leads to a node (`GraphLeads`); from then on the partition is nested and has no cell that the bits did not give (`NestedSoFar`); once packed, the cells that `GetCell` reads are nested (`NestedPacked`). The steps are loops: a split keeps every cell inside one of the level above (`Whole`, `Finer`), and a node that moves goes to the cells of a node with which it shares the cell above. The second part is needed for the packing: the bits of a level are counted from the cells that the bisection gave, the numbers come from the moved ones, which lie together in the order of all levels only because they nest (`LieTogether`); so there are no more numbers than cells (`NewCellsFew`), each fits into its bits, and the sum of the shifted numbers gives each of them back (`PackedRead`) |

TLC checked the inductive invariants on instances of their runs before they were proved.

**Only model-checked, and why.**

- *Liveness*: `ReachableServed`, `UpdateEnds`, `RoutersSettle`, `ClientsSettled`. They need fairness and
  ENABLED, which the installed provers do not handle.
- *What recursive definitions compute for every input*: `RoundContracts`, `DistancesKept`,
  `RoutesShortest`, `RoutesUnpack`, `TablesAgree`, `CutsMinimal`, `WaypointsOptimal`,
  `TripsOptimal`, `MatchesMostLikely`, `RestrictionsExact`, `GeometriesFit`, `ComponentsExact`, `UpdatesExact`. Each
  compares the result of searches, sweeps or folds with a reference: a proof is an induction over
  paths, lists or sets, and the induction theorems take an operator as parameter, which the
  provers cannot instantiate. `MultiLevelRouting` moreover has `RECURSIVE` operators. (The parser's loop,
  the gathering of candidates and the loops of the partition are the exceptions above: one has states in
  closed form, the others need only one fact that every round keeps, and a least counterexample does for
  an induction.)
- *The hypothesis of `WritesAreNotLost`*: `ListsLaidOut` of what `osrm-extract` leaves is a conjunct of
  `GeometriesFit`, which the run `extraction` checks for each of its maps. It is about loops that push and merge
  (`ToSegmentData`, `Packed`), so it belongs to what recursive definitions compute.

## 5. Left out of what is modelled

- *Server*: handlers that only read (`login`, `checkToken`, `get*`); images and mail, except where their
  failure changes what happens next; replication and persistence of MongoDB and Redis (a
  command is atomic and a reply implies the write).
- *Extraction*: parsing of OSM files and the profiles, which the maps stand for; roundabouts, u-turn
  lanes, turn lanes, classes, maneuver overrides, annotations.
- *Contraction, multilevel*: durations and distances, which follow the weights; files.
- *Engine*: routes between phantoms are external to it and checked by `contraction` and `multilevel`; extra
  alternative routes; `continue_straight`. Distances are along axes or squared. Clients do not
  pipeline, and after a malformed request a client sends nothing more. There is one connection: connections
  share only the request handler, which has no state.

## 6. Not modelled

- *Other server components*: orders, notifications, deliveries, courier accounts, products' counters
  and images, stores and categories, search. View statistics, token checks and joi schemas are pure.
- *OSRM*: guidance and instructions, the answers in JSON and flatbuffers, vector tiles, the Lua
  scripting of profiles, files and their formats, polyline encodings, bindings for C and node. They
  label, format or convert; `PROJECT.json` gives the reason for each.
- *The Flutter applications*: user interfaces whose shared state is the server's.

## 7. Plan

Modules were written in the order dispatch, cart, offers, accounts, password reset, data update,
contraction, partition and overlay, extraction, updater, engine; proofs in the order of section 4.
What is left to prove, in order:

1. `Extraction`: the lists that `osrm-extract` writes lie one behind the other (`ListsLaidOut`, part of
   `GeometriesFit`), so that `WritesAreNotLost` needs no hypothesis.
2. `Partitioning`: the side that a bisection takes is cut by as many edges as it flows
   (`CutsMinimal`), from the flow that its last level graph leaves.
