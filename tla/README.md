# TLA+ models of SID (Storage Instantiation Daemon)

This directory holds TLA+ models of the SID sources under `src/`. It also has
the TLC configurations that check them and `PROJECT.json`, which lists:

- every component;
- every run with its properties;
- the mutants that show each property depends on the code;
- the map from each TLA+ definition to the source lines it translates;
- the findings;
- the hazards, each at its source line.

## 1. Inventory of the system

| Part | Source | State | Operations |
|---|---|---|---|
| Worker control | `src/src/resource/wrk-ctl.c` | `worker_control` (type, channel specs, default timeout, `worker_init`); per worker proxy (`pid`, `state`, channels, `timeout_spec`, `exec_timeout_es`); per worker (`channels`, `parent_exited`); the file descriptors of each channel; the signal mask and pending signals of each process | `sid_wrk_ctl_get_new_worker`, `sid_wrk_ctl_run_worker`, `sid_wrk_ctl_run_new_worker`, `sid_wrk_ctl_chan_send`, `sid_wrk_ctl_chan_close`, `sid_wrk_ctl_yield_worker`, `get_idle_worker`, `find_worker`, `detect_worker`, `get_worker_state/id/arg`; the handlers `_on_worker_proxy_channel_event`, `_on_worker_channel_event`, `_on_worker_proxy_child_event`, `_on_worker_proxy_timeout_event`, `_on_worker_signal_event` |
| Resource tree (old API) | `resource/resource.c` | a tree of `sid_resource` (parent, children list, id, event loop) | create (with children kickstart), destroy (post-order), add_child, isolate, isolate_with_children, iterator, event-source helpers, run/exit loop |
| Hash table | `src/internal/hash.c` | an array of bucket chains, entry count | add, add_allow_multiple, lookup, lookup_with_data, lookup_with_count, del, del_with_data, update, iteration, wipe |
| Utilities | `misc/util.c` | none (pure functions) | pid_to_string, create_full_dir_path, udev action parsing, now_usec |
| Daemon entry | `src/daemon/sid.c` | command line, daemonisation | main |
| Logging | `src/log/log-target-syslog.c` | syslog handle | open, output, close |
| Dummy ucmd type | `src/modules/ucmd/type/dummy_type/dummy_type.c` | none | callbacks that log |
| Headers | `include/buffer.h`, `src/include/resource/*.h` | declarations only | none |

### How the parts interact

The daemon's resource tree holds a worker-control resource. It works as follows:

- `get_new_worker` creates the channels. Each channel is a `pipe()` pair for
  the `PIPE_TO_WRK` and `PIPE_TO_PRX` wires, or a non-blocking socketpair for
  the `SOCKET` wire.
- It blocks every signal and forks.
- In the parent it creates a worker-proxy resource whose init registers:
  - a child-exit source at priority 1;
  - one io source per channel at priority 0;
  - the exec-timeout timer at priority 0, when `timeout_spec.usec != 0`.
- In the child it sets `PR_SET_PDEATHSIG`: SIGUSR1 for internal workers,
  SIGTERM for external ones. It checks `getppid()` and returns to the caller,
  who calls `run_worker`.
- An internal worker builds a `worker` resource with a signalfd source
  (SIGTERM, SIGINT, SIGUSR1) and its own channel sources, then runs its loop.
- An external worker redirects its channels to stdin/stdout and `execve()`s.
- Internal workers frame every message as a size prefix plus a command
  (`YIELD`, `DATA`, `DATA_EXT`).
- The proxy of an external worker uses a plain buffer. It delivers the
  program's whole output as one message at EOF.

The event loop dispatches one ready source at a time, by priority. Every
handler runs to completion.

### Hard behaviours

- Two processes, each with its own single-threaded event loop, talk over
  pipes. Writes are blocking (`sid_buf_write_all` on a blocking fd), so a
  writer stops its whole loop.
- Channel data and child exit reach the proxy at the same time. Only the
  priority decides which one is handled first.
- The exec timer races the worker's own exit and the YIELD handling.
- The daemon can die at any point. Workers learn of it through the
  parent-death signal and through EOF or EPIPE on their channels.
- The fork happens with every signal blocked. The child inherits that mask.
- A proxy can fail to be created after the fork.
- A worker can exit while the daemon still thinks it alive: until the
  child-exit source runs, a send writes into a pipe with no reader.
- A worker learns that its daemon died only when its loop dispatches the
  parent-death SIGUSR1; until then `parent_exited` is stale.

### Properties the code should have

- No message a worker wrote is lost when its proxy is reaped.
- A worker told to exit, or timed out with a signal, is reaped.
- A worker that exits while its proxy lives is reaped: the priority-1
  child-exit source is not starved by the channel sources.
- A blocked write returns.
- A worker that yields after its daemon died ends.
- Every forked worker is supervised.
- Proxy states follow the documented lifecycle
  `NEW -> (ASSIGNED <-> IDLE)* -> (EXITING | TIMED_OUT)? -> EXITED`.
- Hash table: lookup returns what was added and not deleted, and the count
  matches the chains.
- Resource tree: the tree stays a tree, and destroy visits children before
  parents.

## 2. Modules

| Module | Models | Notes |
|---|---|---|
| `WrkCtl.tla` | worker control, for one worker type per instance | detailed specification |
| `WorkerLifecycle.tla` | the promised proxy lifecycle | abstract specification, instantiated with `wstate <- state` |
| `MC_WrkCtl.tla` | TLC instances of `WrkCtl` | constants, timeout-spec sets, `LifecycleSpec` |
| `ResourceTree.tla` | the old resource API of `resource/resource.c` | the tree and the children iterator |
| `MC_ResourceTree.tla` | TLC instances of `ResourceTree` | resource model values, symmetry over the loop-less resources |
| `Hash.tla` | the hash table of `src/internal/hash.c` | detailed specification: chains of node addresses, `hash_update` split at its callback |
| `HashMap.tla` | what the hash table promises | abstract multimap, instantiated with `map <- AbsMap` |
| `MC_Hash.tla` | TLC instances of `Hash` | keys with fixed hashes, node-address symmetry, the `hash_create` rounding check |

### WrkCtl: state

Each worker `w` has one channel `req`, the `PIPE_TO_WRK` wire: the proxy
writes and the worker reads. It also has one channel `resp`, the
`PIPE_TO_PRX` wire: the worker writes and the proxy reads. A pipe holds at
most `Cap` whole frames. The variables and what they stand for:

| Variable | Code |
|---|---|
| `state`, `signum`, `timer` | `worker_proxy->state`, `timeout_spec.signum`, `exec_timeout_es`. `NONE` means no proxy exists. |
| `proc`, `masked`, `sigs` | the worker process (`none`, `forked`, `running`, `exited`, `reaped`), its blocked-signal mask and its pending signals |
| `parentExited` | `worker->parent_exited` |
| `req`, `resp`, `reqOpen`, `respOpen` | the pipe contents, the proxy's req fd, the worker's resp fd |
| `prxRx`, `wrkRx` | whether the io sources are still registered (an EOF destroys the source) |
| `prxBlk`, `wrkBlk` | a process blocked inside `write()` on a full pipe. A blocked daemon dispatches nothing. |
| `rxBuf` | the plain rx buffer of an external worker's proxy |
| `parent` | the daemon, `alive` or `dead` |
| `lateYield` | history: the worker called `sid_wrk_ctl_yield_worker` after the daemon died |
| `wrkSent`, `prxGot`, `prxFrames`, `wrkFrames` | histories and bounds. They are not program state. |

### WrkCtl: actions

Each action is a whole handler or API call:

| Action | Code |
|---|---|
| `GetNewWorker` (with `InitWorkerProxy`) | `_do_worker_control_get_new_worker` and `_init_worker_proxy`, including the branch where the proxy is not created |
| `ChanSend`, `ChanClose` | `sid_wrk_ctl_chan_send` and `sid_wrk_ctl_chan_close` from the proxy, built from `ChannelPrepareSend` and `PrxWrite` (`_chan_buf_send`) |
| `ProxyWriteDone` | the daemon's blocked write returning: room in the pipe, or a gone reader (EPIPE). The daemon's SIGPIPE disposition is left to its top-level type `sid_res_type_sid`, whose code is not under `src/`; a write to a gone reader is taken to fail with EPIPE. |
| `ProxyChannelEvent` | `_on_worker_proxy_channel_event` with `_chan_buf_recv` (`ChanBufRecv`: a whole frame, plain data kept until EOF, EOF, or EAGAIN). YIELD goes to `MakeWorkerExit`, DATA to the rx callback, EOF destroys the source and flushes the plain buffer. |
| `ProxyChildEvent` | `_on_worker_proxy_child_event`, enabled only once the channel source is gone. This is what priority 1 achieves: the EOF on `resp` is ready whenever the child has exited. |
| `ProxyTimeoutEvent` | `_on_worker_proxy_timeout_event` |
| `ParentDeath` | the daemon dying (`DaemonEnds`: the parent-death signal set by `prctl` is delivered) |
| `RunWorker` (with `InitWorker`, `ExecWorker`) | the child after fork through `run_worker`: the getppid race, then `_init_worker` (signal and channel sources) for an internal worker or the `execve` of `_run_external_worker`, each of which may fail |
| `KernelKill` | a delivered SIGKILL |
| `WorkerSignalEvent` | `_on_worker_signal_event` |
| `WorkerChannelEvent` | `_on_worker_channel_event`, with the same `ChanBufRecv` on `req` |
| `WorkerChanSend` (with `WrkWrite`) | `sid_wrk_ctl_chan_send` from the worker |
| `YieldWorker` | `sid_wrk_ctl_yield_worker`: YIELD, or `raise(SIGTERM)` once `parent_exited` is set |
| `WorkerWriteDone` | the worker's blocked write returning: room in the pipe, or EPIPE |
| `WorkerChanClose` | `sid_wrk_ctl_chan_close` from the worker |
| `ExtUnblock`, `ExtSignal`, `ExtRead`, `ExtWrite`, `ExtExit` | the external program after `execve`, the daemon's environment (no code under `src/` is translated by `ExtRead`, `ExtWrite`, so they are not in the map). It starts with the inherited mask and blocks in `write()` on a full pipe, like an internal worker; a signal that ends it ends a blocked write too. |

Operators named `...NoKill`, `...SamePrio`, `...NoSignal`,
`...NoEpipe` and `...EofKeepsSource` are variants of a mapped definition with one plausible bug.
`PROJECT.json` lists them under `mutants`. No run uses them directly.

### Fairness

Weak fairness is assumed for:

- every event-loop handler (`ProxyChannelEvent`, `ProxyChildEvent`,
  `ProxyTimeoutEvent`, `WorkerChannelEvent`, `WorkerSignalEvent`): sd-event
  dispatches every ready source, and ready sources stay ready until they are
  handled;
- the kernel's actions (`RunWorker`, `KernelKill`, `ExtSignal`): a forked
  child runs, and an unblocked signal is delivered;
- `ProxyWriteDone` and `WorkerWriteDone`: a blocked `write()` returns once
  the pipe has room or its reader is gone.

No fairness is assumed for application calls (send, close, yield, spawn), for
the external program's choices, or for the daemon's death.
`CHECK_DEADLOCK FALSE` is set in every worker-control cfg. The system really does stop: once
all workers are reaped, the daemon's loop waits idle for new requests.

### ResourceTree

`resource/resource.c` keeps a parent pointer and an ordered children list in
every `struct sid_resource`. `list_add` appends at the tail. The model keeps
the list a node sits in (`children`) apart from the parent pointer
(`parent`), because the code can make them disagree. `status` records
whether a resource is not created yet, live, or freed.

The iterator (`iter`) caches three list positions: `prev`, `cur` and
`next`. A position is a resource's list head, a resource's node, or
`GarbagePos`. `GarbagePos` is a link read from a freed or unlinked node.
`Succ` and `Pred` follow the real list links, so a cached position goes
stale exactly as it does in memory.

| Action | Code |
|---|---|
| `Create(r, p)` | `sid_resource_create`. It succeeds, or unwinds to nothing. If the id malloc fails, it reads the uninitialized `res`, and the model may crash. |
| `Destroy(r)` | `sid_resource_destroy`. It frees the subtree and unlinks `r` if `r->parent` is set. A cycle recurses until the stack overflows (a crash). |
| `AddChild(p, c)` | `sid_resource_add_child`. The only check is that `c` has no parent. |
| `Isolate(r)` | `sid_resource_isolate`. Children go to the tail of `r->parent`'s list, and their parent pointers are left alone. |
| `IsolateWithChildren(r)` | `sid_resource_isolate_with_children` |
| `IterCreate`, `IterReset`, `IterNext`, `IterPrevious`, `IterDestroy` | the `sid_resource_iter_*` calls |
| `CreateEventSource(r, k, s)` | every `sid_resource_create_*_event_source`: find the loop with `GetResourceWithEventLoop`. No loop gives `-ENOMEDIUM`; a walk through a freed parent crashes. Otherwise the source is registered with `r` as its data. `SdKind` maps post and exit to the `sd_event_add_defer` the code calls. |
| `DestroyEventSource(s)` | `sid_resource_destroy_event_source` (`sd_event_source_unref`) |
| `RunEventLoop(r)`, `ExitEventLoop(r)` | `sid_resource_run_event_loop` and `sid_resource_exit_event_loop` on a resource with its own loop |
| `Dispatch(s)` | the running loop calling a source's handler. This is sd-event, modelled from the spec. A defer source is one-shot. A source whose resource was destroyed hands the handler freed memory (a crash). |

`sources` and `loopState` hold the event-loop binding. The resource does
not record its sources, so `Destroy` leaves them registered, as the code
does.

Two read-only walks follow the parent pointers. `TopWalk` is
`sid_resource_get_top_level`. `GetResourceWithEventLoop` is
`_get_resource_with_event_loop`, which every `create_*_event_source` helper
calls. Both read a freed resource's parent field as garbage.

The only removal allowed while iterating is that of the current child
(`MayRemove`). The iterator's `prev`/`next` cache exists to make exactly that
removal safe.

### Hash

`Hash.tla` keeps each slot's chain as a sequence of node addresses
(`slots`). It also keeps each node's key, data and `data_size` (`node`),
the allocated addresses (`alloc`) and `num_nodes`. A `struct hash_node **`
(what `_find` returns) is a slot head or a node's `next` field.
`Deref` reads through it in the current chains. A key is a model value;
`HashOf` gives its `_hash`. Running out of `Ids` is a failing malloc.

| Action or operator | Code |
|---|---|
| `Init` | `hash_create`, with `HashCreateSlots` the rounding loop in `Width`-bit arithmetic |
| `HashAdd`, `HashAddAllowMultiple`, `HashDel`, `HashDelWithData`, `HashWipe`, `HashDestroy` | the calls of the same name; `DoHashInsert`, `DoHashDel` and `FreeNodes` are `_do_hash_insert`, `_do_hash_del` and `_free_nodes` |
| `HashUpdatePlain` | `hash_update` without a `hash_update_fn` |
| `HashUpdateCall`, `HashUpdateReturn` | `hash_update` with a `hash_update_fn`: `_find`, then the call. The callback may call into the table (`MaxNested` calls) before the update acts through the pointer found before it. |
| `HashLookup`, `HashLookupWithData`, `HashLookupWithCount`, `HashGetEntryCount`, `HashGetDataSize` | the lookups |
| `HashGetFirst`, `HashGetNext`, `Walk`, `HashIter`, `HashGetKey`, `HashGetData` | `hash_get_first`/`hash_get_next` loops, `hash_iter`, and what a loop reads of each node |

`HashDestroy` ends the table: `destroyed` is set, and no call is enabled
after it. A `hash_update_fn` that destroys the table leaves its update
holding a pointer into freed memory. The hash cfgs therefore say
`CHECK_DEADLOCK FALSE`: a destroyed table is the one state where the model
stops. `TableWellFormed` and the entry-count conjunct of `LookupsAgree`
speak of a table that exists.

`AbsMap` reads the table as the multimap of `HashMap.tla`: for each key,
the (data, size) of its nodes in chain order. `HashMap` defines what each
call does to that multimap and what each lookup answers. For example,
`hash_add` of a present key replaces only the first entry's data and keeps
its size.

`FindLast`, `DoHashDelNoCount`, `HashGetNextSameSlot`, `HashCreateSlotsLe`
and `HashLookupWithCountLast` are the mutants of `Find`, `DoHashDel`,
`HashGetNext`, `HashCreateSlots` and `HashLookupWithCount`.

## 3. Runs

The worker-control runs use `MC_WrkCtl` with `Cap = 1` and two payloads. `usec` is only told
apart as zero or non-zero; that is all the code tests.

| Run | Expect | Bounds | What it shows |
|---|---|---|---|
| `wrk_internal` | pass | 1 internal worker, `MaxPrxFrames = 2`, `MaxWrkFrames = 1`, all timeout specs | `NoReplyLost`, `YieldedWorkerReaped`, `TimedOutWorkerReaped`, `BlockedWriteCompletes` for a daemon blocked on `req`, and `ExitedWorkerReaped`: a worker that exits while its proxy lives is reaped, unless the daemon dies |
| `wrk_internal_wrkblk` | pass | `MaxPrxFrames = 1`, `MaxWrkFrames = 2` | `NoReplyLost`, `BlockedWriteCompletes` for a worker blocked on `resp`, released by the proxy's reads or by EPIPE when the daemon dies, and `YieldedWorkerReaped` where the worker's YIELD itself blocks behind a DATA frame (`MaxWrkFrames = 1` in `wrk_internal` never reaches that) |
| `wrk_external` | pass | 1 external worker, `MaxWrkFrames = 2`, timeout spec with SIGKILL | the plain buffer is delivered at EOF before reaping, also when the program blocked writing it, a SIGKILL timeout ends the program, and `ExitedWorkerReaped` holds for an exec'd program too |
| `ext_timeout_unkillable` | violation | external worker, SIGTERM timeout | `TimedOutWorkerReaped` fails: the program runs with SIGTERM blocked |
| `pipe_deadlock` | violation | both sides send 2 frames into 1-frame pipes | `BlockedWriteCompletes` fails: both processes block in `write()` |
| `lifecycle_refinement` | violation | 1 worker, all timeout specs | `WrkCtl` does not implement `WorkerLifecycle`: TIMED_OUT or EXITING goes back to ASSIGNED on a send |
| `late_yield` | violation | 1 internal worker, no timeout, one yield | `LateYieldExits` fails: the daemon dies, the worker yields before its loop has dispatched SIGUSR1, the YIELD goes to a pipe with no reader, SIGUSR1 then sets `parent_exited`, and the worker runs for ever |

Resource-tree runs (`MC_ResourceTree`) use four resources. `r1` has an
event loop, so it cannot be isolated. Every run uses `CONSTRAINT Acyclic`:
callers never add a resource under its own descendant. `add_child` does not
check this (finding below), and no run is spent on that misuse.

| Run | Expect | What it shows |
|---|---|---|
| `res_tree` | pass (symmetry over `r2..r4`) | `ListsWellFormed` holds for every mix of create, destroy, add_child, isolate, iteration, event-source creation and dispatch, and loop run and exit. Only live resources are in lists, each is in at most one list, and a resource is listed exactly when its parent pointer is set. |
| `parent_links` | violation | `ParentWalksStayLive` fails: create `r1 > r2 > r3`, isolate `r2`, destroy `r2`. `r3` still points at `r2`, so get_top_level and the event-loop lookup from `r3` read freed memory. |
| `iter_stale` | violation | `IterYieldsChild` fails: create the iterator, call next, destroy the current child, then call previous. The last call returns the freed child. |

Hash runs (`MC_Hash`) use three keys (`k1` and `k2` share slot 3 of 16;
`k3` is in slot 12), data `{NULL, d1}`, sizes `{1, 2}` and three node
addresses, with symmetry over the addresses.

| Run | Expect | What it shows |
|---|---|---|
| `hash_table` | pass | For every sequence of adds, deletes, wipes, updates and a final destroy, the following hold. `TableWellFormed`: each node is in its key's chain and `num_nodes` is exact. `IterVisitsEachOnce`: a get_first/get_next loop visits every node once, in `hash_iter`'s order, and what it reads with `hash_get_key`/`hash_get_data` is each key's entries in lookup order. `LookupsAgree`: every lookup answers what the multimap holds. `SlotsRoundUp`: `hash_create` rounds hints up to a power of two of at least 16. `HashMapSpec`: the table implements `HashMap`. |
| `hash_update_reentry` | violation | `UpdateTouchesOnlyItsKey` fails with one nested call. Add `k1`, then update `k1`. Its callback calls add_allow_multiple for `k2`, which puts `k2` at the head of the shared slot. The update returns REMOVE, and the pointer found before the callback now leads to `k2`'s node, which is deleted. |

Three nodes in two chains are enough for all of these cases: a key with two
entries, a chain with two keys, and a full table (failing malloc).
`Width = 8` keeps the rounding loop's wrap within TLC's integers.
`MaxNested = 1` is the smallest callback that calls back into the table.

`res_tree` also has one event source (`SrcIds = {e1}`), created as an exit
source (`Kinds = {"exit"}`): every kind differs only in `SdKind`, and exit
is the one the code maps to something else. The constraint `IterOrSources`
explores the iterator and the event sources one at a time. The iterator
calls do not touch sources or loops, and the event-loop calls do not touch
the iterator. Both still interleave with every create, destroy, add_child
and isolate. Without it the run takes 13 minutes.

Four resources suffice for these runs:

- isolate needs a grandparent, a parent and two children;
- the iterator needs one child to step over and one to remove.

These bounds are enough for the following reasons:

- With `Cap = 1`, the second frame on a side fills the pipe. Blocking,
  EPIPE while blocked, and data left in the pipe at child exit all happen.
- Two frames per side is the least that makes a circular wait.
- The interesting behaviours belong to one proxy and its worker. Two
  workers share nothing in the code except the daemon's single event loop,
  and a daemon blocked on one worker's pipe already stops all dispatching.
  No run uses a second worker.
- Every action and every disjunct of `Next` fires in the passing runs.

## 4. Findings

The findings are listed in `PROJECT.json`. In short:

1. **External workers execve with every signal blocked.** The child returns
   at `wrk-ctl.c:896`, before the mask restore at line 943. A SIGTERM exec
   timeout or parent-death signal cannot end the program.
2. **The pipe wires are blocking.** The daemon and a worker can deadlock
   writing to each other (`wrk-ctl.c:142`).
3. **The lifecycle diverges from the documented one.** `_channel_prepare_send`
   moves any state, including TIMED_OUT and EXITING, to ASSIGNED. The timer
   can also fire after EXITING. IDLE is never reached, because the YIELD
   handler calls `_make_worker_exit` directly.
4. **isolate leaves the children's parent pointers stale**
   (`resource.c:337`). Once the isolated resource is freed, get_top_level
   and the event-loop lookup read freed memory.
5. **A yield after the daemon died can leave the worker running for ever**
   (`wrk-ctl.c:1380`). `sid_wrk_ctl_yield_worker` decides on `parent_exited`,
   which is set only when the worker's loop dispatches SIGUSR1. A yield in
   between writes YIELD to a pipe nobody reads; the spec says such a yield
   raises SIGTERM.
6. **The iterator's cached `prev` is stale after `next`** (`resource.c:389`).
   `iter_previous` can return a child that was destroyed.
7. **hash_update acts through a pointer its callback invalidated**
   (`hash.c:412`). The callback may add to or delete from the table (the
   comment in `_do_hash_insert` says so). The update then removes or
   overwrites another key's node, or writes through a freed node.

Some defects are seen in the code and modelled, but get no run:

- isolate does not keep the children's order (`resource.c:340`). It
  re-adds them at the tail of the parent's list, so `[A,B,C]` with
  `B = [X,Y]` becomes `[A,C,X,Y]`, where the spec's example says
  `[A,X,Y,C]`. One call shows it. `IsolateKeepsOrder` states the expected
  order.
- A worker is orphaned when proxy creation fails after fork
  (`wrk-ctl.c:940`, a FIXME in the code). `GetNewWorker` has that outcome.
- `sid_resource_add_child` does not check for cycles (`resource.c:316`).
  After isolate_with_children, a resource can be added under its own
  descendant. Destroy then recurses until the stack overflows.
- `sid_resource_create` reads the uninitialized `res` when the id
  allocation fails. `Create` models it as a possible crash.
- `hash_create` loops forever for a hint above 2^31 (`hash.c:88`).
  `RoundUp` returns 0 there.
- `hash_add` of a present key keeps the old `data_size` (`hash.c:180`).
  `HashMap` records this.

## 5. Not modelled, and why

| Part | Why |
|---|---|
| `util.c` | `pid_to_string`, `create_full_dir_path` and `now_usec` have no shared state and no interleaving. Their defects are listed as hazards: the truncation at `util.c:30`, and the milliseconds added as microseconds at `util.c:111`. One call with a boundary input shows each, so no run is spent on them. |
| `SOCKET` wire with `DATA_EXT` | The data frame and the ancillary byte travel in two calls (`sid_buf_write_all`, then `sid_comms_unix_send`). The framing depends on `buffer.c` and `comms.c`, which are not under `src/`. The hazard is listed at `wrk-ctl.c:1244`. |
| `sid_wrk_ctl_run_new_worker` | This is a proxy with its own event loop in a forked process. `_channel_prepare_send` does not match that proxy type (hazard at `wrk-ctl.c:1300`). |
| `get_idle_worker`, `find_worker`, `detect_worker`, `get_worker_state` | These are read-only searches. `get_idle_worker` looks for IDLE, which is never reached (finding 3). |
| channel creation and `_setup_channels`, `_close_non_channel_fds`, `_set_channel_specs` | These are fd plumbing. Their effect is in the initial channel state of `GetNewWorker`. |
| sd-event internals | Priorities, timers, signal and child delivery inside the loop belong to sd-event, outside the repository. `Dispatch` keeps only what the resource layer depends on: a running loop calls the handler with its data, once for a defer source. |
| `_hash` | A constant per key: its value only picks the slot, and the model lets keys collide or not by choice of `HashOf`. |
| `sid.c`, syslog logging, the dummy ucmd module | These are start-up code, I/O and stubs. The daemon's SIGPIPE disposition is left to `sid_res_type_sid`, whose code is not under `src/`; the model takes a write to a gone reader to fail with EPIPE. |
| header files | declarations only |
| `log.h`, `list.h`, `buffer.c`, sd-event | These are not under `src/`. They are used through their documented behaviour: whole frames, and one-at-a-time dispatch by priority. |
