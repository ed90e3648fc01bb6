# TLA+ models of the DIFS worker's CPU model manager

This directory holds TLA+ models of the worker-side instance manager in
`src/src/worker/common_model_util.cc`, namespace `CpuModelManager`, and the
TLC configurations that check them.  `PROJECT.json` lists the components, the
runs, the mutants, the map from every definition to the source lines it models,
the findings and the hazards.

## The system

Many worker threads call four entry points concurrently:

| Entry point | What it does |
|---|---|
| `LoadModel(srcurl, m, ..., containername, foronline)` (271-525) | Reserves a port for the instance name under `updatemutex` (or answers 1, "being loaded", if the name already has one). Outside the lock it stages the model directory, runs a docker container and checks it with `docker ps`. Under the lock again it publishes the name in the online or offline queue of `m`. The first online instance also calls `add_running_model` on the metadata store. |
| `UnloadModel(m, ..., containername, foronline)` (527-616) | Under the lock, removes the named instance (or the tail of the queue) from the queue and the port table. Outside the lock: `is_model_running`, then for the last online instance `set_model_load_unload` and `remove_running_model`, then `docker stop`, then `unset_model_load_unload`. |
| `QueryModelOnline(m, ...)` (618-793) | A wait loop, bounded by `maxtry`, that checks the online queue without the lock and calls `LoadModel(m, containername = m)` when it is empty. Then a round robin pick under the lock (front, pop_front, push_back). Then `nametoport[instance]` outside the lock, and the request. |
| `QueryModelOffline(m, request)` (795-983) | Makes scratch directories named after `m_submitter`. Runs the same wait loop in offline mode, but without the timeout check. Picks an instance, runs the batches (none in this build), removes the scratch directories with `rm -r` and `rmdir`, and calls `UnloadModel(m, m, offline)`. |

Shared state, all guarded by `updatemutex` when it is written:
`modeltonamesonline` / `modeltonamesoffline` (model -> deque of instance
names), `nametoport`, and `usedports` (a `std::set<int, std::greater<int>>`).

External collaborators whose state matters to the manager:
- **Docker:** the containers, each with a name and a published port.
- **Metadata store:** which models run on this worker, and the load/unload flag.
- **The disk:** model directories and scratch directories.

## Modules

- `ModelManager.tla` models all four entry points.
- `MCModelManager.tla` instantiates it with model values, a replica name `r1` of model `m1`, and a symmetry set of threads.
- `GpuModelManager.tla` models the GPU manager of `common_model_util_prev01.cc` and, for builds with `ENABLE_TRTIS`, `common_model_util_trtis.cc` (see below).
- `InstancePool.tla` is the abstract specification of the pool (`spec.md` §3 and §4), with no threads, ports or containers. For each model and mode it has a queue of names. A name is free, loading, or in a queue:
  - `Claim`: free to loading.
  - `GiveUp`: loading back to free.
  - `Publish`: loading to the back of a queue.
  - `Withdraw`: out of a queue from wherever it sits.
  - `Rotate`: dispatch moves the front of a queue to its back.

  `ModelManager` defines `Pool == INSTANCE InstancePool WITH pool <- modeltonames, loading <- {names with a port entry but no queue slot}`, and `PoolRefinement == Pool!Spec` is checked as a property.

| Code | Model |
|---|---|
| `modeltonamesonline`, `modeltonamesoffline` | `modeltonames[TRUE]`, `modeltonames[FALSE]`: sequences of names |
| `nametoport`, `usedports` | partial function `nametoport`, set `usedports` |
| metadata store `running` record, load/unload flag | sets `running`, `loadunload` |
| docker containers | `containers`: container name -> port |
| scratch directories | `dirs` ⊆ `{"out","parent","in"} × Models × Submitters` |
| thread program counter and locals | `pc[t]`, `ctx[t]` (model, name, mode, caller, port, picked instance, numtry, submitter) |

Each block the code runs under `updatemutex` is one action:
- `LoadReserve` (the reservation);
- `LoadPublish` (the publish);
- `UnloadRemove`;
- `RoundRobin` inside `QueryPick` and `OfflinePick`.

Each unlocked step is an action of its own:
- `LoadLaunch`: staging, docker run and docker ps, with the unwind through `Unreserve`;
- `UnloadCheck`, `UnloadRemoveRunning`, `UnloadStop`, `UnloadUnset`;
- `QueryCheck` and `QueryPort`;
- the offline directory steps, `OfflineMkOut` through `OfflineRmdirParent`.

`Return` models what a caller does with LoadModel's result: the entry point
returns it, or one of the two wait loops breaks, fails, or retries.

Abstractions:
- Staging is the constant `Staged`. For any other model, the download path ends in the `list_s3_path` stub, which lists no keys, and returns -1.
- `docker run` fails when the name or the port is taken.
- `docker ps -aqf name=` finds any container of the name.
- `docker stop` succeeds exactly when the container exists.
- The readiness waits are stubs that return true, so their unwind paths are dead and are not modelled.

Undefined behaviour is modelled by what libstdc++ does:
- `namesqueue.erase(end())` pops the back element (`DequeErase`).
- `front()` of an empty deque sends the thread to the terminal `"ub_front"`.

Request payloads, command strings, logging and timings are left out: no
property is about them.

### The GPU manager

`GpuModelManager` has no state of its own. Its `LoadModel` and `UnloadModel`
return -1 at once in the default build (`EnableTRTIS = FALSE`, `Call`). With
`ENABLE_TRTIS` they call `WaitGpuModelState`, which polls `GpuModelState` up to
`max_retries` times for `MODEL_READY` (load) or `MODEL_UNAVAILABLE` (unload)
(`Desired`, `Poll`). The TRTIS server, which loads and unloads model versions
from its repository by itself, is an environment (`Server`): a version goes
from absent or UNAVAILABLE to LOADING, then to READY or UNAVAILABLE, and from
READY to UNAVAILABLE. `GpuModelState` is the set of states one poll can report:
- MODEL_UNAVAILABLE when the status RPC fails (`RpcOk` contains FALSE);
- MODEL_UNAVAILABLE when the model has no version entry;
- otherwise the state of `version_map.begin()`. A protobuf `Map` iterates in
  no specified order, so this is any listed version.

## Runs

| Run | Expect | Checks | Shows |
|---|---|---|---|
| `load_dedup` | pass | TypeOK, NoDuplicateLaunch | Without unloads, an explicit load and two query-triggered loads of one name never launch it twice. This holds even while loads of the unstaged `m2` leak their reservation. Every port stays in the allocator's range. |
| `dispatch_unload` | pass | NoDuplicateLaunch, SingleSlot, PoolRefinement | The round robin racing loads and tail unloads keeps every name in at most one queue slot, with a port entry. Every step of the manager is a step of the abstract pool. |
| `calls_return` | pass | CallsReturn | Every call of all four entry points returns, or stops in `ub_front`. |
| `port_collision` | violation | PortsUnique | The third instance gets the second one's port. |
| `phantom_port` | violation | PortTableConsistent | `nametoport[]` after the unlock inserts port 0. |
| `visibility_race` | violation | VisibleIffServing | The unlocked "last instance" test races a reload. |
| `empty_front` | violation | NoEmptyFront | `front()` on a queue an unload emptied. |
| `named_unload` | violation | NoDuplicateLaunch | Unloading a still-loading name frees its reservation. |
| `backend_drift` | violation | BackendMatchesPool | A reload between an unload's port release and its `docker stop` adopts the old container, which the unload then stops. |
| `offline_leak` | violation | OfflineUnloaded | `rmdir` after `rm -r` fails, so the offline instance is never unloaded. |
| `name_clash` | violation | OnlineWaitJustified | An offline instance, named after the model, blocks online loads. |
| `gpu_unload_confirm` | violation | ReturnConfirmed | A failed status RPC reads as MODEL_UNAVAILABLE, so the GPU `UnloadModel` returns 0 while a version of the model is READY. |

Each violation is a finding in `PROJECT.json`, with the line and what the code
does against what its comment or `spec.md` says. Every property of a passing
run has a mutant in `PROJECT.json` that breaks it. Each mutant is a plausible
bug in the mapped definition:
- a dropped dedup check;
- a port computed the other way;
- `push_back` without `pop_front`;
- a retry without `numtry++`;
- `push_front` instead of `push_back` on publish, which breaks the refinement.

### Further bugs the model reaches

`BackendMatchesPool` also covers two further bugs. TLC reports only the
shortest counterexample, the stale backend, so neither has a trace of its own:
- **Orphaned container.** Two concurrent tail unloads: the second sees `is_model_running` false and returns -1 before `docker stop`, so its container keeps running.
- **Stuck flag.** A `docker stop` that finds no container returns -1 with the load/unload flag still set.

The model also reaches these, and no run checks them:
- **Reservation kept on the download path.** When `local_model_dir/<m>/` is absent, `LoadModel` takes the download path (line 336). The `list_s3_path` stub lists no keys, so it returns -1 without erasing the port reserved at 305-306, unlike the later failure paths. Every later load of the name answers 1, and queries of the model time out. A property that a port entry is held only for a queued or launching name fails here at once, so it cannot pass in any run that leaves a model unstaged. The same leak hides any missing unwind on the later failure paths (456-486), so those unwinds are modelled but no passing property checks them. A single-threaded test reaches this bug, so no run is spent on it.
- **GPU unload confirmed by the wrong version.** With `RpcOk = {TRUE}`, `ReturnConfirmed` still fails in `gpu_unload_confirm`. The model has two versions, one UNAVAILABLE and one READY. `begin()` reads the first, and the unload returns 0.
- **Offline unload hits the same UB.** The offline job's final `UnloadModel(m, "m")` can meet an online load of `m` in flight. Through `erase(end())` it then frees that load's reservation, the same path as `named_unload`.
- **Scratch directory left behind.** When the input parent directory is absent, `createdir(localinput)` fails and leaves `localoutput`. The next job of the same model and submitter then fails at once. A single-threaded test reaches this, so no run is spent on it.

`PoolRefinement` treats the phantom entry that `QueryPort` inserts as a
`Claim` of a free name. The `phantom_port` run is the check that catches it.

## Bounds

- Two threads in the violation runs and `calls_return`.
- Three threads in `dispatch_unload`, so that a query, a load and an unload can all be inside a call at once.
- Three threads in `load_dedup`, so that an explicit load and two query-triggered loads of one name can race.
- One or two models, with the replica name `r1` where named unloads or explicit loads matter.
- One submitter.
- `MaxTry = 2`. One retry is enough to reach both "retry" and "give up".
- `MaxCalls`, the number of entry-point calls in a behaviour: 6 in `load_dedup`, 5 in the other safety runs, 4 in the liveness run. Ports then range over `FirstCpuPort - MaxCalls .. FirstCpuPort`.

Every bug above needs at most three calls of two threads. The port collision
needs three loads, so it gets three models.

The passing runs fire every action and every disjunct. In particular,
`OfflineRmdirParent` reaches its UnloadModel only when a second job of the same
name recreates the output directory between `rm -r` and `rmdir`.

Symmetry over threads is used in the safety runs only.

`gpu_unload_confirm` uses two callers, one model, two versions, `MaxRetries =
3` (10 in the code) and three calls. The unload bug shows at the first poll.
The two versions are what `begin()` can choose between.

## Fairness

Threads are OS threads scheduled preemptively, so `Spec` has weak fairness
on each thread's steps.

`GpuModelManager`'s only run checks a safety property, so its `Spec` has no
fairness.

Callers stop after `MaxCalls` calls. `Quiesced` is the idle stutter that
follows, and it also covers the case where every thread is lost in `ub_front`.

## Not modelled

- **The std::map data race.** `QueryModelOnline` and `QueryModelOffline` read the pools with `find` and `operator[]` without the lock, and so does `numReplicas`. The model takes each of these reads as one atomic step, which sees the old queue or the new one. A torn read of the tree is undefined behaviour TLC cannot enumerate.
- **The offline batch loop and its load gate** (lines 900-933). `list_s3_path` is a stub that lists no inputs, so they never run in this build.
- **The late GPU answer.** `WaitGpuModelState` gives up after `max_retries` polls, and the server may reach the wanted state right after. No caller of `GpuModelManager` is in this repository, so nothing states what a late success should cause.
- **`sprintf` into fixed buffers.** The docker commands go into `docker_cmd[512]` (LoadModel) and `docker_cmd[200]` (UnloadModel), and a long instance name overflows them. Memory corruption is outside the model: names are model values.
- **The numeric suffix of a variant name** (lines 360-368 and 430-438). `std::stoi` throws on a suffix beyond `INT_MAX`. The throw leaves LoadModel holding its reservation, the same outcome as the download path. Names are model values, so the model does not derive this throw from the name.
- **InfaModelManager.** It is compiled only under `INFAAS_NEURON_WORKER`. Its LoadModel is missing from this repository: the namespace ends with "Add other InfaModelManager functions here". Nothing therefore fills its maps, and `cleanLoadFailure` always takes its "already unloaded" return. A model of it would have no state beyond the empty maps.
- **The filesystem and storage helpers** (`filesystem_utils.cpp`, `local_storage_backend.h`). No code of the worker calls them: `common_model_util.cc` has its own `list_local_path` and LOCAL_MODE stubs. Each helper is a sequential wrapper around `std::filesystem`, with no shared state.
- **The configuration constants** (`constants.h`, `common_local_paths.h`). Where they matter, they appear as constants of the model (`FirstCpuPort`, `MaxTry`).
- **Scratch names built from strings.** The scratch directories are named `modelname + "_" + submitter`, so variant `a_1` with submitter `b` shares them with variant `a` with submitter `1_b`. The model keys scratch directories by the pair of model values, so it cannot reach this collision. It is listed as a hazard.
- **The request path.** Payload encoding, the gRPC or REST call and the reply are left out, since they change no manager state. Two defects there are plain to read and to unit-test, so no run is spent on them:
  - Line 673 assigns the int port to the `std::string` field `destaddr.port`, which keeps the single character `portnum % 256`. Online pytorch and GNMT queries therefore dial `localhost:)` for port 9001. The offline path (873) uses `std::to_string`.
  - The download URL `bucketprefix + infaas_buckets_dir + modelname` (636) has no `/` between the bucket directory and the model name. Its `parse_s3_url` result is ignored (325).

## Plan for later work

- A round-robin fairness property for the dispatcher: every queued instance is eventually picked by repeated queries.
- Unload idempotence (spec §8): two unloads of the same name in a row both return success.
- A passing run for `GpuModelManager` (for example, every call returns within `max_retries` polls), alongside the violation run.
