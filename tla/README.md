# TLA+ models of vearch's control plane

These modules model the parts of vearch (`src/`) where concurrency, partial failure and retries decide correctness:
- the master's admin operations on spaces;
- replica placement;
- the leader-chasing RPC client the master and routers use to talk to partition servers (PS).

Every definition is translated from the Go source. `PROJECT.json` maps each one to the lines it models.

## The system

- **Master** (`src/master/cluster_service.go`, HTTP glue in `cluster_api.go`) is the only writer of metadata in an etcd-like KV store. Keys used here: `space/{db}/{id}`, `partition/{id}`, locks.
  - `createSpaceService`:
    1. takes the cluster-wide lock `space`;
    2. counts existing replicas per candidate server (`filterAndSortServer`);
    3. stores the space disabled;
    4. places every partition greedily on the least-loaded live servers (`generatePartitionsInfo`);
    5. starts one goroutine per partition that sends `CreatePartition` to each chosen server, reporting errors on a channel of capacity 1 (`errChain`);
    6. polls the store until every partition key has been registered by its leader;
    7. enables the space with `updateSpace`.
  - `ChangeMember`:
    1. reads the partition key and the space;
    2. edits the replica list;
    3. calls `updateSpaceService`, which takes the per-space lock, re-reads the space, copies `Partitions` and `Enabled` from the caller's copy, bumps `Version`, pushes `UpdatePartition` to every leader and writes;
    4. for ADD, creates the replica on the target;
    5. asks the leader to change the raft configuration;
    6. for REMOVE, deletes the replica on the target.
  - `RecoverFailServer` finds the fail-server record of a dead server and calls ChangeMember ADD of a new server for each of its partition ids. An error panics, and the panic is recovered into the returned error. After the last one it deletes the record. `RemoveServerMeta` (`cluster_api.go`) calls ChangeMember REMOVE of the dead server for the same ids and replies the first error.
- **Catalog** (also `cluster_service.go`):
  - a db is three keys: `db/name/{name}` → id, `db/id/{id}` → name, `db/body/{id}`;
  - `createDBService` puts the three keys in one transaction after taking an id from a sequence;
  - `deleteDBService` reads the db, checks that it has no space (`DB_Not_Empty`) and deletes the three keys in one transaction. It builds the cluster lock but never calls `Lock`;
  - `updateDBIpList` reads the body and puts it back with `Ps` edited;
  - `createSpaceService` looks up the db id before it takes its lock `space`, then checks the name, creates the key disabled and finally enables it, or deletes it on an error. The HTTP handler sets `Version = 1` before the call, so the key is created at version 1 and enabled at version 2;
  - `deleteSpaceService` deletes the space key without a lock.
- **Partition servers** (`src/ps/handler_admin.go`) serve the admin RPCs. `CreatePartition`, `ChangeMember` and `DeleteReplica` change state. `psErrorChange` turns a not-leader error into a `NOT_LEADER` reply carrying the leader's address, but only for handlers whose chain includes it (`DeletePartition`, `DeleteReplica`, `UpdatePartition`). Of these only `UpdatePartition` can fail that way: its store's `UpdateSpace` is a raft proposal. The other two always answer SUCCESS. Behind the handlers sit the store and a raft group per partition. The leader of a group registers the partition with the master (`registerPartitionService`).
- **Client** (`src/client/ps.go`, `ps_admin_service.go`): `Execute` retries up to `adaptRetry = 3` times. On `NO_LEADER` it sleeps and retries. On `NOT_LEADER` it follows the address in the reply. `operatePartition`, `ChangeMember` and `DeleteReplica` wrap it and turn a non-success reply code into an error. That check matters: after a redirect `Execute` can return nil with a `NOT_LEADER` reply.

## Modules

| Module | Models | State / actions |
|---|---|---|
| `PlacementOps` | `filterAndSortServer`, `generatePartitionsInfo` | Constant operators: `EligibleServers`, `FilterAndSortServer`, `KvLists` (every order `sort.Slice` can leave), `Walk` (the loop, IsLive skips), `GeneratePartitionsInfo` (`<<>>` for `MASTER_PS_NOT_ENOUGH_SELECT`), `Bump`. `LeastLoaded` is the reference definition it is checked against. |
| `Placement` | placement across several `createSpace` calls | `load` per server, `serverPartitions` (the count map), `placed`; actions `StartCreateSpace`, `PlacePartition` (one `generatePartitionsInfo` with any set of servers answering IsLive), `StoreSpace`, server `Crash`/`Restart`. `PlacementRefines` instances `PlacementSpec`. |
| `LeaderChase` | `Execute`/`execute` and `psErrorChange` | One call of Execute against a group whose leader changes, whose servers learn the leader late, crash and restart. Each loop iteration is one action: `AttemptAnswered`, `AttemptReplyLost` (executed, reply lost, `reply` keeps the old content), `AttemptUnreachable`. `AfterAttempt` is the loop's branch structure. The constant `Handler` is the admin handler called; `Redirects` holds when its chain carries `psErrorChange` (`ErrorChangeHandlers`, from `ExportToRpcAdminHandler`). `Respond` answers NOT_LEADER or NO_LEADER only for `UpdatePartition`, which the run calls. `CallerOk` is `operatePartition`'s check of `Execute`'s error and the reply code. |
| `PartitionServer` | PS admin handlers; store and raft (from the design) | `up`, `hosted`, `members`, `leader`. The handlers are operators the master's actions call, because an RPC is atomic at the server: `CreatePartitionOk`, `UpdatePartitionOk`, `ChangeMemberOk`, `IsLive`, and the `*Effect` operators. `ElectLeader` needs a majority of live members holding the store. |
| `PlacementSpec` | what createSpace promises of stored replicas (abstract) | `held` only; one action `AddSpace`: a whole space of `partition_num` partitions, each on `replica_num` distinct candidates (the allow-list, else the non-private servers). `Placement` implements it under the mapping `INSTANCE PlacementSpec WITH held <- load`: a space in progress is not yet held. |
| `Master` | `createSpaceService`, `ChangeMember` + `updateSpaceService` + `updateSpace`, `registerPartitionService` | Store keys `space`, `partKey`, the per-space lock `spLock`. createSpace is a pipeline `CreateStart` → `CreatePlace` (per partition) → goroutines `GoCreate`/`GoUnblock` → `CreatePoll`/`CreatePollSleep` (no partition key yet: sleep and retry) → `CreateEnable` (or its `Update` fails), with `CreateFails` (the deferred delete, whose error is only logged, so the key may stay). There is no timeout step: the poll selects on `ctx.Done()` of a `*gin.Context`, which is nil. Each ChangeMember handler runs `CmStart` (with `CmBegin`, the reads and checks) → `CmUpdate` (lock, re-read, checks) → `CmWrite` (push `PushOk`, write, unlock) → `CmCreate` → `CmMember` → `CmDelete` (`DeleteReplicaRPC` when the node answers IsLive). With `Job = "recover"` or `"remove"` the handlers run `LoopStart` → (`LoopNext` → the Cm steps)* → `LoopAbort` on an error. The record is `failRec`, and the dead server `FailNode` starts down. `afault0` is a history variable: the fault count when the run began. |
| `Catalog` | `createDBService`, `deleteDBService`, `updateDBIpList`, and the catalog steps of `createSpaceService` and `deleteSpaceService` | Keys `nameKey`, `idKey`, `bodyKey`, `spaceKey`, the id sequences, and the lock `space`. Each handler takes a request (`Start`) and runs it step by step: `CreateDB` (with `ValidatePSOutcomes` for the allow-list); `DeleteDBQuery` → `DeleteDBSpaces` → `DeleteDBKeys`; `DBIpListRead` → `DBIpListWrite`; `CreateSpaceLookup` → `CreateSpaceKey` → `CreateSpaceFinish` (enabled or deleted); `DeleteSpaceRead` → `DeleteSpaceKey`. Placement and partition creation are the nondeterministic outcome of `CreateSpaceFinish`. The store's `Update` is modelled as a put, as in `Master`. The master process itself: `MasterCrash` ends every request where it is and skips its deferred functions (the delete of a space not enabled, the Unlock); `LeaseExpire` releases the lock of a holder that is gone (the 300 s lease, from the design); `CleanLock` is the `/clean_lock` handler, with its comment's precondition that no createSpace is running. A failed deferred Delete of a createSpace leaves its key disabled (`delFails`, bounded by `MaxDelFail`). |
| `CatalogUpdate` | the HTTP `updateSpace` (`cluster_api.go` → `updateSpaceService`) beside the catalog handlers | Extends `Catalog` with the lock `ulock` (`LockSpaceKey(db, space)`) and `uread`, the space each request read with the body applied. `UpdateSpaceRead` takes the lock, looks up the db id and the space by name (an error when either is missing), and applies the body's `enabled`. `UpdateSpaceWrite` writes the space back with a put, or fails (a check, `UpdatePartition` or the `Update` itself), then unlocks. `UpdateLeaseExpire` releases a lock whose holder is gone. `CleanLockU` is cleanLock, which deletes this lock too. The body's partitions and schema are abstracted away. |
| `MC*` | model values and layouts | `MCPlacement`, `MCLeaderChase`, `MCMaster`, `MCCatalog`, `MCCatalogUpdate` (with an `updateSpace` request). |

The store and raft code behind the PS handlers are not in the repository:
- `server.CreatePartition`;
- `store.ChangeMember`;
- leader election.

They are modelled from the design:
- a group is formed with the replica list of the space its first replica is created with;
- the leader applies a configuration change;
- a removed leader steps down.

These definitions are marked `spec_modelled` in the map.

Faults are bounded by `MaxFault`:
- a `CreatePartition` whose reply is lost (the retry in `Execute` then gets `PARTITION_DUPLICATE`);
- a `CreatePartition` that fails inside the server;
- an IsLive probe failing on a live server;
- a failed `UpdatePartition` or space-key `Update`;
- a `DeleteReplica` applied whose reply is lost;
- a `ChangeMember` applied whose reply is lost.

An `UpdatePartition` to a leader that has crashed, or no longer holds its store, since `updateSpaceService` checked IsLive fails by the model's state, not as a fault. Crashes, restarts and leader replacements are bounded by `MaxEnv`. A group without a leader always elects one when a majority can vote. A failed `Update` when createSpace enables the space, and a failed deferred Delete, are also possible. These two are not counted against `MaxFault`, because there is one createSpace.

## Runs

| Run | Config | Expect | What it shows |
|---|---|---|---|
| placement | `MCPlacement.cfg` | pass | Checked for every sort order and every IsLive outcome. The chosen servers are `replicaNum` distinct live candidates, none more loaded than one left out (`PickIsLeastLoaded`). Placing a partition with the partition-count query succeeding and all candidates answering never widens the spread of held replicas beyond max(1, previous) (`PlacementBalanced`, §8.5 of the design). `Placement` implements `PlacementSpec` (`PlacementRefines`): the stored load grows only by whole spaces whose partitions each sit on `replica_num` distinct candidates; an abandoned create leaves nothing. 4 servers, one private, up to 2 creates of ≤2 partitions (MaxSpaces = 2). |
| execute_chase | `MCLeaderChase.cfg` | pass | `Execute` calls `UpdatePartition` while the leader changes, servers learn it late, and servers crash and restart (`MaxEnv = 4`). If every replica knows the single leader when Execute starts and nothing changes, Execute returns nil after exactly one execution (`ExecuteConverges`). Execute itself can return nil when no server executed the last attempt, because `err = cbjson.Unmarshal(...)` clears the error of a redirect (ps.go:177). But `operatePartition` reports success only when a server executed the last attempt (`CallerOkOnlyIfServed`), because it also checks the reply code. The mutant that drops that check fails. |
| create_space | `MCMaster_create.cfg` | pass | A space is enabled only after all its partitions have a registered leader (`EnabledOnlyWhenRegistered`). Checked with 3 servers, 2 partitions × 2 replicas, one fault (a lost or failed CreatePartition, an IsLive miss, a failed enabling Update), a failed deferred Delete and one crash/restart. |
| create_hangs | `MCMaster_create_hangs.cfg` | violation | `CreateReturns` under `FairSpec`, which makes the goroutines, raft elections of leaderless groups and partition registration fair. TLC's counterexample: both partitions get their two replicas created, then n1 crashes before either group elects a leader. With one of two voters up, no leader is ever elected, no partition key appears, and createSpaceService polls for ever, holding `space`. `case <-ctx.Done()` (cluster_service.go:402) never fires, because the ctx is the handler's `*gin.Context` (cluster_api.go:282), whose `Done()` is nil. |
| create_drops_error | `MCMaster_droperr.cfg` | violation | With 3 replicas, a majority registers the partition. The third `CreatePartition` then fails after the poll passed it, and createSpace returns nil (cluster_service.go:387). |
| change_member | `MCMaster_change.cfg` | pass | One handler does two ChangeMembers in turn (add n3, remove n1 on partition 1), with one fault and one leader change. When all return nil, the space key's replica lists equal the groups (`MetaMatchesRaft`). Every member holds a store (`MembersHosted`). |
| change_member_race | `MCMaster_change_race.cfg` | violation | Two handlers at once lose an update of the replica list (cluster_service.go:651). |
| catalog | `MCCatalog.cfg` | pass | Three handlers, two requests each, over every kind of request on one db and one space name. No two spaces of a db share a name (`SpaceNameUnique`, invariant 2). deleteSpace takes no lock, and createSpace's enabling `updateSpace` writes a deleted space back, but createSpace holds `space` from the name check until it has enabled or deleted its key. One master crash may happen anywhere. The lock it leaves is released by the lease or by cleanLock, and the name check still sees the stranded key. The deferred Delete of a failed create may fail (one such failure is explored); its error is only logged. When no request is in progress, the disabled space keys are no more than the crashes plus the failed Deletes (`StrandedOnlyByFault`). So the deferred delete cleans up every failed create that is not cut by a crash or its own error. A crash does strand a key: the design's "restart cleans up via the deferred delete" does not hold, and only a deleteSpace removes it. The HTTP updateSpace is left out of this run; catalog_update_race adds it. |
| catalog_consistency | `MCCatalog_consistent.cfg` | violation | `CatalogConsistent`: the three db keys agree (name ↔ id, body only with its id key) and every space's db exists. TLC's shortest counterexample: deleteDBService finds the db empty. A createSpace that had looked the db up then creates its key, and deleteDBService deletes the db, leaving a space of a deleted db. The lock deleteDBService builds is never taken (cluster_service.go:154), and createSpace uses another lock anyway. The same invariant is broken, at the same depth, by updateDBIpList writing back the body of a db deleted after it read it (cluster_service.go:232), and, with three handlers, by a stale deleteDBService deleting the name key of a re-created db (cluster_service.go:168). |
| catalog_update_race | `MCCatalogUpdate.cfg` | violation | `SpaceNameUnique` with the HTTP `updateSpace` beside the catalog handlers. TLC's shortest counterexample (9 states): c1's createSpace creates its key disabled. c3's updateSpace takes `LockSpaceKey(d1, s1)`, which is not the lock `space`, and reads that space. c1's create fails, and its deferred delete removes the key. c2's createSpace creates a second space of the name. c3 writes the first one back with a put. Two spaces share a name (cluster_service.go:613, 727). A deleteSpace in place of the failed create does the same. |
| recover_rerun | `MCMaster_recover_rerun.cfg` | violation | The first run fails after ChangeMember wrote n3 into the space key (here CreatePartition at n3 fails). The re-run meets no fault, but ChangeMember refuses the ADD as "already has", so the record can never be cleared by re-running. The design says partial progress "is recoverable by re-running" (cluster_service.go:862, 765). |
| remove_server_meta | `MCMaster_remove_meta.cfg` | pass | RemoveServerMeta of a dead n1, up to 3 runs with 2 faults. A run without a fault returns nil whatever earlier runs left, because REMOVE of a non-member passes (`RerunSucceeds`). The contrast with recover_rerun is the design's idempotence asymmetry. A run that returns nil has removed n1 from the space key and the group of every partition it held (`LoopComplete`). `LoopComplete` also states the recover case (the new node everywhere, the record deleted). |

Each property of a passing run has a mutant in `PROJECT.json`. The mutant is an operator defined just before the definition it replaces, modelling a plausible bug: a dropped update, an off-by-one in a loop, a missing deferred delete, a reversed sort, a missing version bump. Each mutant makes its property fail.

Two further disagreements were found while modelling. They are recorded as hazards in `PROJECT.json` rather than as runs of their own:
- With two ChangeMember handlers, an ADD and a REMOVE of the same node can leave a group member without a store (`MembersHosted`).
- A ChangeMember during createSpace makes the enabling `updateSpace` write the space key with the version it already has (invariant 7). The create writes version 1, ChangeMember writes 2, and updateSpace writes 2 again. No run combines the two handlers, so no property checks this.
- `filterAndSortServer` ignores the error of `QuerySpacesByKey` (cluster_service.go:499). A failed query counts every server with 0 replicas. `Placement` models this, and `PlacementBalanced` is stated for a query that succeeded; without that premise TLC finds it violated.

### Bounds

- **Placement:** 4 servers (one private) and two partitions per space is enough for ties, skips and a NOT_ENOUGH at the second partition. Two creates build uneven load. `queried` is chosen at every create: the unchecked `QuerySpacesByKey` error.
- **LeaderChase:** 3 replicas and `MaxEnv = 4` allow a leader change, a late learner and a crash within one call of three attempts.
- **Master:** 3 servers and 2 partitions. `updateSpaceService` checks every partition, and the poll loop moves between partitions. `ReplicaNum = 2` in the passing runs, so a leader needs both replicas. `ReplicaNum = 3` where the dropped error needs a majority before the last replica. One fault and one environment step are enough for every error path. The loop runs use a layout where the dead n1 holds both partitions, so a loop has two iterations and can fail in the second. They have no environment steps: `RerunSucceeds` is about faults of the run itself, and a crash of the only live replica would fail any run. Larger bounds only repeat these interleavings on more partitions.

- **Catalog:** one db name and one space name, so every request meets the others. Three handlers with two requests each reach a create, a delete and a second create of the same space around an unfinished create. A db is created with an empty allow-list, with the address of the one registered server, or with an unknown address, so `validatePS` takes every branch. `MaxId = 2` ids per sequence allow a db to be recreated and a space to be created twice. At the bound, `NewIDGenerate` fails, which is an error path of the code. `MaxCrash = 1`: one crash reaches every step a crash can cut, and the lock it strands. The orphan space and the written-back body need two handlers; the stale name-key delete needs three, which the consistency run has. Handlers are symmetric, and no property is about liveness, so `SYMMETRY` is sound. `MCCatalogUpdate` uses the same bounds with an `updateSpace` request (body `enabled` unset) added; the race needs three handlers.

### Fairness

`Master`'s `FairSpec` is used by create_hangs. It adds weak fairness to the steps of a handler that has begun (`HandlerSteps(a)`) and to the steps of createSpace after the request (`CreateSteps`). A handler is a goroutine the HTTP server runs to its return. It also adds weak fairness to each partition's `PartitionSteps`: the dispatch goroutines, registration by a leader, and the election of a leader by a group without one when a majority can vote. Raft and the partition server do these on their own. New requests, crashes, restarts, leader replacements and faults get no fairness: nothing in the code makes them happen, and a crashed server may stay down. No step models a timeout: the poll's `ctx.Done()` is nil for a `*gin.Context`. Under this fairness `CreateReturns` fails. `ExecuteConverges` stays a safety property over finished calls, because Execute's loop is bounded. Catalog's `Spec` has no fairness. A property that every createSpace waiting on `space` gets it (weak fairness on handler steps and on `LeaseExpire`) held with symmetry in 4.5 minutes. TLC warns that symmetry can hide liveness violations, and without symmetry the check ran past ten minutes, so no run checks it.

## Not modelled, and the plan

Done: placement (with its abstract specification), Execute, createSpace, ChangeMember, RecoverFailServer, RemoveServerMeta, the db and space catalog with master crashes, lock leases and cleanLock, and the HTTP `updateSpace` beside it. `FailServerClear` (deleting a record by hand: it would turn every re-run of recover into a refusal, which the recover run does not want to mix with the finding), the partitions of the HTTP `updateSpace` body (`space.Partitions = temp.Partitions` takes the body's partitions, empty when the body has none; only the `enabled` field is modelled) and the failure detector that writes records (not in the repository) are left out. Next, in this order:

1. A run of createSpace beside ChangeMember, for the version written twice (invariant 7) and for a liveness property of two handlers contending for the per-space lock. A run that composes Catalog's deleteSpace with Master's ChangeMember, and a ghost of the Ps edits to state updateDBIpList's lost update.
2. **The connection pool** as its own module: `GetOrCreateRPCClient`'s double-checked creation, and `Stop`, which closes and drops clients without `cliCache.lock` while a caller may be in `rpcClient.Execute` (there is no idle sweeper).
3. **An abstract at-most-once RPC**. `LeaderChase` states `ExecutedAtMostOnce`, and TLC finds it violated: a reply lost after execution is retried at the same server (ps.go:184). With `UpdatePartition`, which is idempotent, the second execution does no harm, but Execute itself promises nothing. Its run gave way to `catalog_update_race` under the project's run budget, so no kept run checks it; the finding stands as a hazard. Next: the abstract RPC, with `LeaderChase` shown to refine it where redirects are exact.
4. **The router** (`doc_rpc.deal`, `setTimeout`, the per-partition fan-out of `doc_service`).

Properties taken out because they held by the shape of the model:
- "a failed createSpace leaves no space key": the deferred delete is in the same step. The Delete's own error is now modelled, so the statement is false anyway.
- "the version rises with every write" over ChangeMember alone: with one writer it restates the `+1`.
- "every handler returns without the lock" with one handler: nothing contends.
- `MetaMatchesRaft` in remove_server_meta: `ares` persists across runs, so only the fault-free single run meets its premise, and change_member already checks that.

Out of TLC's reach or without state to check, and left out:
- the monitor (metrics);
- the gamma table flatbuffers encoding;
- the gamma reader (C++ engine);
- buffer allocation;
- HTTP response formatting;
- the request/entity data types;
- the mapping unit test.
