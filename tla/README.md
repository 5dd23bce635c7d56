# A TLA+ model of melinoe

melinoe is a Rust library of zero-sized, branded capabilities ("tokens") that
prove data access at compile time, and of the run-time machinery such proofs
make possible: cutting a region of cells into disjoint writer shards, running a
closure on every shard in parallel, atomics that switch between a plain and a
shared phase, collections of branded cells, and small gates against
re-entrancy. This project models the
places where unsafe code relies on arguments the compiler does not check:
initialised slots, disjoint index ranges, tasks that do not outlive a call,
flags that survive panics, storage whose ownership is passed on by reading it
a second time, and the claim that a token, its borrows and the
`Send` and `Sync` impls of the cell leave no aliased `&mut` and no data race.

## Inventory

| Component | State | Operations | Hard behaviour | What makes it correct |
|---|---|---|---|---|
| Partition engine, `sync/scoped/partition/driver_core.rs` | `MaybeUninit` out-buffer, one flag per slot, panic mutex, drop guard; scoped-thread handles | `drive`, `task_wrapper`, `ExecutorDropGuard::drop` | tasks on any thread in any order; panics of tasks, of the executor, of `scope.spawn`, of destructors | one result per index in order; no double drop, no leak; no task outlives the call; panics are raised |
| Executor slot, `executor.rs` | process-global pointer | `register_`/`clear_parallel_executor`, the load in `drive` | changes while calls run | a call stays with the executor it loaded |
| Plans and tiling, `plan.rs`, `region/tiling.rs`, `region/par_chunks.rs` | none (pure) | `PartitionPlan::{parts, chunk_size, available_parallelism, resolve}`, `partition_count`, `ParChunks::{len, range}` | zero, exact multiples, `usize` overflow | in-bounds, non-empty, disjoint, covering ranges |
| Slice drivers, `map.rs`, `read_map.rs` | region, chunk size | `partition_map_with`, `partition_read_map_with` and the functions that forward to them | closures on shards of one region interleave | each cell goes to one closure, once |
| Shard iterator, `region/chunks.rs` | `rest`, `chunk` | `next`, `size_hint` | last shard, exhaustion | agrees with `ParChunks`; exact size |
| `WriterShard`, `region/shard.rs` | a `&mut` of some cells | `new`, `split_at`, the slice views, `as_cells`, `into_mut_slice`, `into_cells` | halves on several threads, views beside the owner's token | no aliased `&mut` |
| Deque drivers, `collections/deque/partition.rs` | descriptors, raw segment pointers | `from_lengths`, `map_read`, `map_mut`, the four `partition_*` methods | a shard that crosses the wrap of the ring buffer; closures over raw slices interleave | descriptors in their segments, ascending, complete; no slot shared; results in queue order |
| Re-entrancy gates, `reentrant/` | `active` flag | `Reset::acquire`, `enter`, `enter_unguarded` | nesting of several gates, panics caught half-way | one `&mut T` per cell; the flag never stays set |
| Tokens and scopes, `token/`, `sync/tokens/`, `scope_exclusive` | who has the token and its borrows | `brand_scope` and its siblings, `share`, copies and moves between threads | long chains of hand-overs between threads | one writer or many readers per brand |
| Cells and guards, `cell/` | who has the cell, live references | `borrow`, `borrow_mut`, `get_mut`, slices, `map`, `map_split` | references of several kinds on several threads | no aliased `&mut`, no data race, payloads only where their type may be |
| Branded atomics, `atomic/` | value, phase | plain accesses, `load` ... `fetch_update`, with run-time orderings or policies | weak memory, retries, phase switches | plain phase is alone; no lost update; policies synchronise |
| `BrandedVec`, `BrandedVecDeque`, `collections/` | values in one or two storage segments | insertions, removals, `drain`, `split_off`, `append`, conversions, partition methods | panicking closures, drains used from both ends, conversions that read the storage twice | every value owned once |
| Copy-on-write views, `cell/cow.rs` | a borrowed or an owned slice | `borrow_cow`, `retain_cow`, `cow_with`, `cow_if` | wrapped storage | a view shows the whole queue |
| `thread_cached!`, `thread_cached.rs` | a thread-local `Option` | `get_or_init`, `set`, `get`, `clear` | an initialiser that uses the cache itself | the cache holds what it told last |

The slice drivers resolve a plan, count shards, and call `drive` with a closure
that forms a shard from an index; `drive` reads the slot once and runs the
closure through the registered executor or on scoped threads. The deque drivers
compute descriptors and hand them to the read driver one by one. Cells, atomics
and collections take their permits from the tokens; the gates mint a token for
the closure they let in. Gates, tokens and atomics do not interact with the
engine.

## Modules

| Module | Models | Used by |
|---|---|---|
| `Drive` | one call of `drive`, all its tasks, and threads that change the slot meanwhile | `MCDrive`, `PartitionMap`, `DriveProofs` |
| `PartitionCall` | abstract specification of a partition call | `Drive!ImplementsPartitionCall` |
| `DriveInvariant` | inductive invariant `IInv` of `Drive` | `MCDrive`, `DriveProofs` |
| `DriveProofs` | proofs about `Drive`, and that it implements `PartitionCall` | `PartitionMapProofs` |
| `Tiling` | plan resolution and ranges as operators, `usize` arithmetic modulo 2^w | `ShardPlan`, `DequePlan`, `PartitionMap` |
| `ShardPlan` | resolution of any plan for any region | `MCTiling`, `ShardChunks` |
| `TilingProofs` | proofs about `Tiling` and the planning loop of `DequePlan` | `PlannedCutsProofs`, `PartitionMapProofs` |
| `ShardChunks` | the sequential shard iterator over the chunks of a `ShardPlan` | `PlannedCuts` |
| `DequePlan` | the loop of `DequeShardPlan::from_lengths` | `PlannedCuts`, `PartitionMap` |
| `PlannedCuts` | one plan cuts a slice (`ShardChunks`) or a queue (`DequePlan`) | `MCPlannedCuts`, `PlannedCutsProofs` |
| `PlannedCutsProofs` | proofs about `PlannedCuts`, with `ShardPlan`, `ShardChunks` and `DequePlan` in it | |
| `PartitionMap` | the slice and deque drivers: `Tiling` + `DequePlan` + `Drive` + closures that go through their shards cell by cell | `MCPartitionMap`, `PartitionMapProofs` |
| `PartitionMapProofs` | proofs about `PartitionMap`, on top of `DriveProofs` and `TilingProofs` | |
| `Permits` | scopes, tokens, permits, cells, guards and writer shards on several threads | `MCPermits`, `PermitsProofs` |
| `PermitsProofs` | proofs about `Permits` | |
| `BrandedAtomic` | both phases of branded atomics over a weak memory | `MCBrandedAtomic`, `BrandedAtomicProofs` |
| `BrandedAtomicProofs` | proofs about `BrandedAtomic` | |
| `ReentrantGate` | nested calls through gates on one thread | `ThreadCached` |
| `ThreadCached` | a thread's cached value, its initialisers and the gates, nested in each other | `MCThreadCached`, `ThreadCachedProofs` |
| `ThreadCachedProofs` | proofs about `ThreadCached`, the gates included | |
| `Collections` | `BrandedVec`, `BrandedVecDeque` and their copy-on-write views | `MCCollections`, `CollectionsProofs` |
| `CollectionsProofs` | proofs about `Collections` | |

### Drive

`pc` is the position of the calling thread. With an executor it goes
`execute` -> `returned`, or `execute` -> `teardown` -> `raised` (a payload was
recorded), or `execute` -> `guard` -> `raised` (the executor unwound, the armed
`ExecutorDropGuard` runs). Without one it goes through `single`, or through
`spawn`, `inline`, `join`, and on a panic `unwind` and `scope wait`. `aborted` is
a destructor that panics while the thread is unwinding: of a result in the guard
or among the locals of the scope's closure, of a payload left in the panic mutex
or taken from it when a result's destructor panics in the teardown. It is also a
result or a payload in the packet of a worker nobody joined, whose destructor
panics, on which std aborts.

`task[i]` follows one invocation of `task_wrapper`: `running` (inside
`catch_unwind`), `ok` (value in hand), `written` (slot written, flag not set),
`done`; or `caught`, `panicked`; `escaped` is the case in which the destructor
of a second payload panics and unwinds into the executor. The write and the
flag are separate steps, so other tasks and the caller interleave between them.
`home[i]` is the owner of the value of task `i` and `drops[i]` counts its drops.
Values and payloads are identified with the index of their task.

The executor is external. It may invoke the indices in any order and in
parallel, return when all were invoked and none is running, or unwind when none
is running: the three points of the contract in `executor.rs`, of which the
second is read as covering the executor's unwinding as well as its return (an
invocation that goes on after either would use a freed buffer). Its violation is
undefined behaviour by that contract and is not modelled. `scope.spawn` may
panic. `ResultDropMayPanic` and `PayloadDropMayPanic` switch panicking
destructors on.

Only the slot is shared between calls, and it is written by `register` and
`clear` at any moment, so one call stands for any number of concurrent calls.

### Tiling, ShardPlan, ShardChunks, DequePlan, PlannedCuts

`range`, `read_range` and the loop of `from_lengths` wrap at `UsizeMax`, as in a
build without overflow checks. A region of sized cells has at most `isize::MAX`
cells; below this bound no sum wraps. The run uses a five-bit `usize` and takes
every length up to its `isize::MAX` and every plan argument up to its
`usize::MAX`, so the boundary cases of the arithmetic are all there.
`PlannedCuts` is one machine: its initial states are all inputs, its first step
resolves the plan, then either `chunks` and `next` go through the region as a
slice, or the planning loop goes through it as a queue that wraps at a place
chosen freely.

### PartitionMap

Adds the region to `Drive`: the driver called, the length of the slice it cuts,
the chunk size, and for every cell how often a closure went through it. A cell
is a storage segment and an offset in it, which is what the raw pointers of
`DequeMutSlices` address; a slice has one segment. `Visit(i)` is one access of
the closure of index `i`; a closure may panic before any cell and returns after
the last one of its shard; nothing goes on in a process that has aborted.
An empty region returns at once without `drive`.

The drivers of a queue first take the planning loop turn by turn (`PlanQueue`,
`PlanTurn`). `map_shards` stands for `map_read` and `map_mut` (the `for_each`
forms discard their results): both return at once for an empty plan and
otherwise hand the descriptors to the read driver with chunk size 1. The
partition methods of `BrandedVec` forward to the slice drivers.

### Permits

The library's discipline is enforced by types; the model is of the programs
that these types admit. What the compiler knows of a value is a guard of the
actions that use it:

* A `&mut` of a token, a move of it, and the end of its scope need
  `TokenUnborrowed`: no read permit and no guard that carries a borrow of the
  token (the bound `P: 'a` of `borrow` and `borrow_mut`) is alive.
* `SendToken`, `SendCell` and `SyncCell` are the `Send` and `Sync` impls and
  the marker field of `ThreadLocalToken`.
* `get_mut`, a move of a cell and the end of its scope need the cell
  unborrowed.

`brand_scope` stands for the three scopes that run on their caller,
`scope_exclusive` mints on a worker and blocks the caller until the worker is
joined. `share` stands for `&token` as well. `borrow` and `borrow_mut` take a
set of cells of one payload type: one for the methods of the cell, several for
the slice views. `replace` is a `borrow_mut`, a `deref_mut` and a drop.
A `WriterShard` is a `&mut` of cells that moves: it takes the cells away from
every other path to them (`Held`), `split_at` divides it, and a guard remembers
in `via` whether it borrows a shard or the bare cell. `as_cells` gives a `&` of
the cells behind a `&` of the shard, so guards made with a token can exist
beside the `&[T]` of `as_slice`; its documentation names reads only, and
`ShardCellsWritten` says whether programs keep to that. It is `FALSE` in the run
`permits`; the run `permits_shard` is about the other value (see the findings).
Locations are components of payloads, so that `map` and `map_split` have
something to divide; a projection is to one component or to all of them.

Nothing at run time synchronises accesses: that two of them are ordered comes
only from the hand-over of a token, a permit, a cell or a guard between their
threads. `knowW` and `knowR` record, for one location chosen at the start, which threads
an access happens before.
`NoDataRace` says that a guard is never usable on a thread that does not know
of the accesses it conflicts with. A cell that is shared stays with its keeper
while it is lent, and a reference comes back to it; references that are lent on
by the borrower are not modelled.

### BrandedAtomic

An atomic is the sequence of the stores made to it, a thread has a view of how
much of each sequence it knows, a store carries the view it releases. A load
returns any store its thread's view does not exclude, so stale reads happen. A
read-modify-write takes the newest store and passes on the view of the one it
replaces. `fetch_update` is two actions, the load and the exchange, so other
threads come in between, and the exchange may fail for no reason. `SeqCst` has
no total order of its own in the model and acts as `AcqRel`; that only adds
behaviours. `Refused` is the panic of `core::sync::atomic` for an ordering an
operation does not accept. Values have one bit: an increment is then told from
a repetition of the old value, which is what a lost update would be.

`owner[a]` is the thread that has the atomic to itself; it needs no permit for
`get_mut` and `as_atomic_mut`. `Lend` and `Reclaim` are the start and the end of
the time the atomic is borrowed by all threads, and synchronise them.
`as_atomic` returns the `&` of the atomic for as long as the permit lives, which
is what a thread in `readers` has.

### ReentrantGate

The gates are not `Sync`, so one thread's stack of calls is the whole state. A
frame is a closure running inside a gate, guarded (`enter`) or not
(`enter_unguarded`). A panic pops frame after frame, each pop running
`Reset::drop`, until some caller catches it. `Permitted` is the documented safety
contract of `enter_unguarded`. `get_mut` and `into_inner` need the cell
exclusively and leave the flag alone; they are not actions.

### ThreadCached

Gates and cached values live on one thread, and the closures given to both may
use either. An initialiser that is running is a frame of the same stack of
calls: `pending` records how many gates were entered when it was called. A
value found by `get_or_init` is a `Hit`; a `Miss` calls the initialiser, which
returns (`InitReturns` stores over whatever nested calls left) or panics, and is
unwound in turn with the gates around it. `answered` is what the outermost code
was told last. The two builds of the macro differ in where the cell lives.

### Collections

A collection is a pair of segments, sequences of values; a vector has one, and
after every operation the storage of a queue may wrap anywhere. The operations
are alloc's with a cell put around each value; the model says what they do to
the sequence, what they release, and what remains when the caller's closure
panics. `into_vec`, `into_vec_deque` and the two `From` impls take the storage of
a source in `ManuallyDrop` over to a new owner. A drain has cut the collection
down to what comes before its range, and puts the tail back when it is dropped;
when it is forgotten, what it had is leaked. A borrowed `Cow` is the first
segment itself and keeps mutation away; an owned one is a copy.

## Runs

| Run | Bounds | Shows |
|---|---|---|
| `drive` | up to 4 chunks, 2 executors, all destructors may panic | the safety properties of a call, that it ends, and that it implements `PartitionCall` |
| `drive_leak` | 3 chunks | the documented "nothing leaks" fails when a destructor of a result panics |
| `tiling` | `usize` of 5 bits, all lengths up to `isize::MAX`, all wraps, all plans | shards in bounds, disjoint, covering; drivers agree; `Parts(n)` gives at most `n` shards and no finer plan would; the shard iterator cuts like `ParChunks` and has an exact `size_hint`; descriptors in bounds and tiling; both loops end |
| `tiling_shard_count` | the same | the documented count `min(parts, len)` is not the count of shards (5 cells in 4 parts give 3) |
| `tiling_zst` | lengths up to `usize::MAX` (zero-sized cells) | `start + chunk` wraps, a range is not in bounds |
| `partition_map` | slices and queues of up to 4 cells (the `isize::MAX` of the run), all wraps, 6 plans, 1 executor | no cell in two hands, each cell once, results in queue order, nothing after the call, the call ends |
| `permits` | 2 threads, 1 region brand, 2 cells (a payload of 2 components and a plain one), every choice of `Send`, `Sync`, both; 2 guards; shards of one and two cells | no aliased `&mut`, no data race, payloads stay where their type allows |
| `permits_local` | 2 threads, a thread-local brand and an exclusive one | a cell of the thread-local brand moves to another thread |
| `permits_shard` | the same brand, plain payloads, writes through `as_cells` | a `&mut` of a cell beside the `&[T]` of `as_slice` |
| `atomic` | 2 threads, 2 atomics, 2 stores in all, policies `AcqRel` and `Relaxed` and the run-time ordering `AcqRel` | the plain phase is alone and up to date; no increment is lost; `AcqRel` publishes in loads, read-modify-writes and failed exchanges; no policy is refused |
| `thread_local` | 3 gates, 3 nested initialisers, 2 values | one holder, flag exact, refusals justified, the cache agrees with its answers |
| `collections` | 3 values, 3 collections | each value owned once, views show the queue, drains give both ends |

Four chunks give three workers, an inline task and two panics on either side of
a success, in every order; a second executor is there so that a slot can change
from one to another. Depth of the gate stack needs no bound: a gate occurs at
most once on it (`OneHolder`). Two guards alive at once are the two sides
of every conflict and both halves of a split; two cells are what a slice and a
second payload type need. Two threads hand a token, a permit, a cell or a guard
over and back in any order; an order passed on along a third thread is not in
the run, and is covered by the proof of `NoDataRace`. Threads are
interchangeable in the runs of `Permits` and of `BrandedAtomic`, and so are the
two components of a pair of cells in the one and the two atomics in the other;
the runs use them as symmetry sets, and check no liveness property. Two stores
are a message and its flag on two atomics, or on one atomic a store between the
load and the exchange of an increment. Three values fill a range
and leave one on either side of it, or a value on both sides of a wrap and one
more. Three nested initialisers are an outer call, one that overtakes it, and one
that is unwound in between. Deadlock is not checked where the model ends with
the call or the loop.

Fairness. `drive` and `partition_map` assume that the calling thread is
scheduled (`WF` of its steps), that every task and worker is scheduled and its
closure ends, and that the executor invokes every index and returns, which is
its contract. No fairness is assumed for failures and for other threads'
`register` and `clear`. The planning loop of `partition_map` and the loops of
`tiling` are assumed to go on: they are plain loops of one thread.

## Findings

* `drive` disarms its guard before the teardown loop; a destructor that panics
  there leaks the remaining results and the buffer and replaces the payload
  (`driver_core.rs:200-219`, against the doc at 145-147). Run `drive_leak`. With
  destructors that do not panic `ReleasesEverything` holds, and is proved.
* `partition_map` documents `min(parts, cells.len())` shards; it makes
  `ceil(len / ceil(len / parts))`. Run `tiling_shard_count`.
* For regions of zero-sized cells longer than `isize::MAX`, `ParChunks::range` wraps
  in builds without overflow checks, against the safety comment of
  `get_unchecked_chunk`. Run `tiling_zst`.
* `thread_local_scope` documents that no cell its token governs can be moved to
  another thread; `MelinoeCell` is `Send` whenever its payload is
  (`melinoe_cell.rs:175`). Only the token is confined, so such a cell can be
  moved and then be used through `get_mut`. Run `permits_local`; `NoAliasedMut`
  and `NoDataRace` do not depend on the documented claim.
* `WriterShard::as_slice` rests on the shard excluding all access by a token;
  `as_cells` (`shard.rs:175`) gives the token's holder a `&` of the same cells
  while the slice is alive, and `borrow_mut` makes a `&mut` of one of them. Run
  `permits_shard`. In programs that only read through `as_cells`, as its
  documentation says, `NoAliasedMut` and `NoDataRace` hold: run `permits`.

## Proofs

Every invariant of a passing run, every action property and the refinement of
`PartitionCall` are proved for all values of the constants, from the assumptions
named in the modules that declare them. What a run shows for two threads, four
cells or three values the theorem shows for any number.

**`Drive`** (`DriveProofs`). For every `MaxChunks`, every set of executors and
either value of the two destructor switches, `IInv` is invariant, and from it
follow the safety properties of the `drive` run. The properties are not
inductive by themselves: that the results are complete needs to know that a flag
means a written slot, that a recorded payload means a panicked task, where every
value is at every `pc`, and how far the loops are. `IInv` says this in parts:
`Untouched` (nothing beyond `num_chunks`), `Lives` (a value exists between
production and drop), `Fresh`, `Control` (position and loop index), `Collected`
(results joined so far), `ExecutorPath`, `ExecutorPayload` and `ScopedPath`. There
is one lemma per action and under it one step per part. `FirstPayloadIsKept` is
an action property and needs no invariant. The assumptions: `MaxChunks` is
positive, and `Null` and the payloads of the environment are not indices.

`ImplementsTheCall` is the refinement. The mapping computes the state of the
abstract call from `pc` and `task`. A step of a task either changes nothing the
mapping shows (`SilentStep`), or starts or ends that task and no other
(`TaskMoves`); a step of the caller starts or ends the task it runs inline, moves
nothing, or ends the call (`CallIsOver`), and then `IInv` gives what the abstract
end of a call demands: that all tasks have succeeded, or that one has panicked or
the environment has failed, and that none is running.

**Plans and ranges** (`TilingProofs`, `PlannedCutsProofs`). For every word size,
every region up to `isize::MAX` and every chunk size, ranges are in bounds,
disjoint and covering. The core is that nothing wraps: an index below the count
starts inside the region, and a chunk longer than the region has one shard only.
The planning loop of a queue has the invariant `QueueInv`: the descriptors made
so far tile the queue from its start to where the loop is, and each one lies
within one segment and is no longer than a chunk. `CutInv` adds the shard
iterator: with `y` shards handed out, the rest starts where shard `y` does, and
it is gone exactly when all were. The
assumptions: `UsizeMax` is positive, no region is longer than `isize::MAX`
(`RegionAssumption`), and what is given to a plan's constructor and the reported
parallelism are words (`ParameterAssumption`).

**The drivers** (`PartitionMapProofs`). `MapInv` puts `IInv`, `QueueInv` and the
progress of the closures together: `Entered` says that the call in progress was
cut as its plan says, and for a queue that the planning loop had ended; `Walked`
that a closure has gone through a prefix of its shard, all of it when it has a
value, and that the cells gone through are exactly these prefixes. A step of the
engine keeps `IInv` by `DriveProofs`, so only its effect on the tasks that start
or end is left. `NoSharedCell`, `EachCellOnce` and `ResultsFollowTheQueue` then
follow from the shards being disjoint and covering and the results being in the
order of indices. `PlansAssumption`: the plans are built by the constructors, from
words.

**Tokens, cells and shards** (`PermitsProofs`). `NoAliasedMut`, `NoDataRace` and
`PayloadStaysWhereItMay` for any threads, brands, cells and payload types, for
programs that read but do not write through `as_cells`: `~ShardCellsWritten` is a
hypothesis of the theorems, and without it a `&mut` can alias a slice of a
shard (run `permits_shard`). The invariant has a part per argument: `Scopes` and `Borrows`
(what keeps a token, a cell or a shard borrowed), `Shards` (they are disjoint),
`Exclusion` (the guards of a cell are all shared, or of one exclusive origin with
no component in common), `Homes` (where what is not `Send` or not `Sync` can be)
and `Knowledge`. The last is what makes `NoDataRace` inductive: the last write of a
location is known to everybody who could make a guard of it now, or to the thread
of a live exclusive guard; and the reads since then are known to everybody who
could write, or to the thread of a live guard. Every hand-over tells the receiver
what the giver knows (`KnowledgeFollows`), so this survives chains of any length
over any number of threads.

**Atomics** (`BrandedAtomicProofs`). The invariant says what a store publishes
(`Published`), that a thread's view is of stores there are, that an update under
way keeps its permit, and who knows the newest store: the owner of an atomic
that is not shared, and otherwise at least one holder of a permit or of the token. The
latter is what `Reclaim` and the end of the last permit need, and with it
`PlainIsExclusive` follows. `PoliciesPublish` is about the last step only and is
proved with the invariant, action by action.

**Gates and caches** (`ThreadCachedProofs`). `OneHolder`, `FlagMeansInside` and
`RefusedOnlyInside` are inductive together, for any set of gates and any depth.
`AnswersAgree` needs that while an initialiser is pending the thread holds no
answer of the cache.

**Collections** (`CollectionsProofs`). `EachValueOwnedOnce` counts the places of a
value; the invariant counts its owners instead. Each owner is a sequence without
repetition, so a value is with it once or not at all, and `Held` adds up seven
zeros and ones. The operations are then sums of sets: an operation on the
collection keeps the invariant when what it leaves and what it gives up are
disjoint and together what there was and what it made (`LeavesKeepsInv`). That the
orders `retain_mut` may leave hold every value is the pigeonhole principle. A
borrowed `Cow` is faithful since `clone_with`, which alone may run beside it, writes
values that no collection had before.

In all of them the bounds that keep TLC's runs finite (`MaxStores`, `MaxInits`,
`MaxValues`, `MaxLen`, `MaxChunks`) are constants like any other.

Only model-checked: the liveness properties `CallEnds`, `CutsEnd` and `MapEnds`
(TLAPS does not do liveness under fairness). The properties of the runs that
expect a violation do not hold of what those runs are about, and have no theorem
for it: `ShardsInBounds`, for one, is proved for regions of at most `isize::MAX`
cells.

## Not modelled, and why

* Memory orderings of the slot: a release store and an acquire load of one
  pointer whose target is code; the model reads it atomically.
* The flags are plain `bool`s written by tasks and read by the caller; the
  executor's contract orders the two. A contract-breaking executor is undefined
  behaviour.
* Allocation failure aborts and is left out.
* That the compiler accepts only programs of `Permits` (lifetimes, invariance of
  brands, auto traits) is taken from the language; `new_unchecked` breaks it by
  contract and is left out, and so are `into_inner`, `from_mut` and
  `from_mut_slice` of the cell, which convert uniquely owned values. Static
  assertions are compile-time.
* Capacities, and what alloc's collections do inside: `reserve` and
  `shrink_to_fit` are a step that may move the storage. That `VecDeque<T>` and
  `VecDeque<MelinoeCell<T>>` have one layout, on which two conversions rely, is
  the compiler's choice and not a behaviour.
* Destructors of values in collections do not panic.
* A reference to a cell that a borrower lends on to a third thread, and a
  `&WriterShard` that several threads share: a shard moves between threads, and
  its slices are made on the thread that has it.
* A destructor that enters a gate while a panic unwinds past its frame: gates
  are entered by closures that run normally.
* Benches, examples, contract tests and repository scripts use the library or
  surround it; they are not part of it.

## Plan

1. Done: all modules above.
2. Done: a theorem for every safety property that a passing run checks, and for
   the refinement.
3. Left: that a driver call, seen through `PartitionMap`, implements
   `PartitionCall` as `drive` alone does; that a thread's gates, seen through
   `ThreadCached`, implement `ReentrantGate`.
