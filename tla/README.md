# abfall in TLA+

A TLA+ model of abfall, a concurrent, tri-color, mark-and-sweep garbage
collector for Rust: the heap, its mutators, its collector, the background
thread, the arithmetic that paces it, the `Trace` impls, and the contexts and
`Arc`s through which a program owns its heaps. TLC checks the model on small heaps,
TLAPS proves parts of it for every heap. File names below are relative to the
repository.

## 1. The system

A `Heap` owns objects that live in an intrusive, singly linked *allocation
list*. Application threads hold `GcRoot`s (counted in the object's header) and
store `GcPtr`s in `GcCell`s inside objects. A collection turns the phase from
`Idle` to `Marking`, shades the rooted objects, traces until no gray object is
left, turns the phase to `Sweeping`, drops every white unrooted object, and
turns the phase back to `Idle`. Everything but the gray queue and the
background thread's handle is synchronised with single atomic operations, and
mutators run during all of it.

| component | state | operations | interacts with |
|---|---|---|---|
| object header (`gc_box.rs`, `color.rs`) | `color`, `root_count`, `next`, vtable | white-to-gray CAS, black and white stores, `inc_root`, `dec_root` | read and written by every other part |
| allocation list (`heap.rs`) | `head`, every `next` | push (`allocate`), unlink (`do_sweep`), walks (`do_mark_roots`, `do_sweep`, `allocation_count`, `Drop for Heap`) | pushes race unlinks and walks |
| `GcRoot`, `GcPtr` (`ptr.rs`) | handles the program owns | `clone`, `drop`, `root`, `as_ptr` | root counts decide what root scan and sweep see |
| `GcCell` (`cell.rs`) | a pointer | `get`, `set` with a Dijkstra barrier | barrier: busy counter, phase, gray queue; the store races `trace` |
| `Tracer` and gray queue (`trace.rs`, `heap.rs`) | a local `Vec` per tracer, a shared `Vec` in a mutex | `mark`, `pop_work`, `steal_from`, `append_to` | collectors, assists and barriers |
| mark phase (`heap.rs`) | `phase`, `n_busy_marking` | root scan, budgeted rounds, assist, termination test | waits for barriers and assists |
| sweep phase (`heap.rs`) | `bytes_allocated`, `current_threshold` | list walk, drop, accounting, `finish_gc` (twice) | phase hand-over |
| background thread (`heap.rs`) | generation counter, join handle, condition variable | `start`, `stop`, `wait_stopped`, `is_stopped` | starts and gives up cycles |
| pacing (`GcOptions`) | options, the two counters | `calculate_threshold`, `should_collect` | decides when to collect |
| `GcContext` (`gc.rs`) | thread-local pointer, `local_gray` | `with_heap`, `drop`, lookup by the barrier | whether a barrier runs, and on which heap |
| `Trace` impls (`trace.rs`) | none | recursion over types, `NO_TRACE` | what a trace visits |
| lifecycle | `Arc<Heap>` count | `Drop for Heap`, `Drop for StartStopJoinHandle` | the background thread owns an `Arc` |

What is hard here, and where it bites, is listed under `hazards` in
`PROJECT.json`: termination of marking against barriers, the phase hand-over
between collectors, list surgery without a lock, roots and objects that appear
after the root scan, cycles given up half way, liveness of the waits, `usize`
arithmetic at its limits, a barrier that reports to whatever heap the calling
thread has a context of, and heaps that die before their roots or outlive
their users. A hazard without a property has a note there that says why.

What correctness means:

* **the promise**: seen from the program, the heap is the atomic heap of
  `AbstractHeap` (`ImplementsAbstractHeap`), and so nothing it can reach is
  dropped (`NoDangling`);
* **safety inside**: the list holds live objects, and all of them
  (`AllocationListSound`, `NoLostAllocation`); nobody holds on to a dropped box
  (`NoStaleTraversal`);
* **marking**: `TriColor`, `GrayIsQueued`, `MarkingComplete`,
  `CycleStartsWhite`, `OneCollector`;
* **bookkeeping**: `BusyExact`, `RootCountExact`, `BytesExact`;
* **precision**: a collection nobody interferes with leaves exactly what is
  reachable (`ExactCollection`);
* **progress**: `CallsReturn`, `BackgroundCollects`;
* **pacing**: `ThresholdAtLeastMin`, `NotDueAgain`, `ShrinksSignificantly`;
* **tracing**: whatever the type, a scan or a barrier marks what the value
  leads to and nothing else (`BlackIsScanned`, `MarksExactly`), and ends
  (`TraceEnds`);
* **ownership**: the thread-local context is never stale
  (`CurrentIsTheContext`), a heap lives exactly as long as it is used
  (`AliveWhileUsed`) and goes while nothing runs in it (`DropIsQuiet`), and its
  phase is free again when its collectors are done or have given up
  (`PhaseIsGivenBack`).

## 2. The modules

```
Pacing ──── HeapState ──┬── Mutator ───┐
   │                    └── Collector ─┴── GcHeap ── Refinement ── MCGcHeap
   └─ Pacer                                              │
                                                    AbstractHeap
TraceShapes ── MCTraceShapes            Program ── MCProgram

proofs: PacingLemmas ── PacerProofs
             │
        GcHeapProofs ── CycleProofs ── RefinementProofs
        (on GcHeap)                    │ (on Refinement)
                                AbstractHeapProofs
        ProgramProofs (on Program)     TraceShapesProofs (on TraceShapes)
```

* **`Pacing`**: `GcOptions` as constants, its switches and
  `calculate_threshold`, `should_collect` as operators on `0..UsizeMax` with
  the wrap of a release build.
* **`Pacer`**: the two counters of the heap with objects of several sizes;
  `Allocate` and `ForceCollect` are the only ways they change.
* **`HeapState`**: the variables and initial states of the concurrent model,
  `Tracer::mark`, and the vocabulary of reachability. `pc` and `local` are the
  program counter and the local variables of each thread's current call.
* **`Mutator`**: `allocate` (assist, box, push with retry, count),
  `GcRoot::clone` and `drop`, `GcCell::set` (busy check, shade, merge,
  decrement, store) and `get`, `GcPtr::root`, `allocation_count`.
* **`Collector`**: `force_collect` and `collect`, root scan, mark loop, sweep,
  and the background thread with its `StartStopJoinHandle`.
* **`GcHeap`**: the composition, its fairness, and the properties.
* **`AbstractHeap`**: what a program may rely on: objects, roots and cells,
  every call one step, and a collector that may drop any object out of reach at
  any time.
* **`Refinement`**: `GcHeap` as an implementation of it. Roots are roots. An
  allocation exists for the program from the step in which `allocate` returns
  its `GcRoot`; a store happens when the cell is written; a drop in the sweep
  is a `Collect`; every other step is invisible.
* **`MCGcHeap`**: who makes which calls in each run.
* **`TraceShapes`**: the impls of `trace.rs` as type constructors with their
  `NO_TRACE`; one object of any type built from them, with any value, is
  scanned through its vtable or, where the type is `Copy`, shaded by
  `GcCell::set`. Calls of `trace` are a stack, so what is checked is what the
  code does step by step against a reference read off the value. The types of a
  program, their values and what a value refers to are constants, of which the
  module assumes one equation per impl (`AreTypes`); **`MCTraceShapes`** defines
  them by recursion up to a depth, and TLC evaluates the assumption there.
* **`Program`**, **`MCProgram`**: several heaps, the `GcContext` of each
  application thread, who owns an `Arc` of which heap (the background thread
  does), start, stop and join, and when `Drop for Heap` runs. There are no
  objects here. Of a collection only the stores to the phase are left, each a
  step of its own, the second `finish_gc` included; so collectors overlap as
  they do in the code. What happens between those stores is `GcHeap`'s subject.

Operators named `...Blind`, `...Lost`, `...StalePrev` and the like, each under
a comment *Variant for a mutation test*, are deliberately wrong versions of the
definition that follows them. They are used by no specification; `mutants` in
`PROJECT.json` says which property each must violate.

### Correspondence

A step of a thread is at most one access to shared memory that another thread
can observe. So `allocate` is `Allocate` (raises the busy counter), `BusyCheck`
(loads the phase), the steps of the mark loop, `DecrementBusyMarking`,
`AllocateBox`, `AllocateLoadHead`, `AllocatePublish` or `AllocateRetry`, and
`AllocateReturn` (adds the bytes and hands out the root). `map` in
`PROJECT.json` gives the lines of every definition.

Choices a reader should know of:

* An object is an allocation; addresses are never reused. A use after free is
  an access to an object whose `mem` is `"freed"`, and never goes unnoticed
  because the memory was handed out again.
* Memory is sequentially consistent. The relaxed and acquire/release orderings
  of the code allow more on weak hardware; the model shows what is possible
  without them.
* Steps that are merged: reading a field and the color CAS on what it holds
  (a later read would only see a newer value); the visit of one node in the
  root scan; unlink and drop of one node in the sweep; the two loads of
  `should_collect`; load and store of `update_threshold`; `is_started` and
  `start`, which repeats the test under the lock.
* A `GcCell` written by one thread while another traces it (a data race in
  Rust's terms; the cell is one machine word) yields the old or the new
  pointer.
* `set` stores `None`, a pointer to an object the thread has a `GcRoot` of, or
  a copy of the pointer in another cell (`a.set(b.get())`).
  `GcPtr::root` is unsafe and its contract is a guard: the object is still
  reachable when the count is raised.
* In `GcHeap` every object has size 1; sizes are `Pacer`'s subject.
* `usize` counters of `GcHeap` are integers, so that an underflow is visible
  as a negative value.
* In `GcHeap` every thread has a `GcContext` of the one heap, so every `set`
  has its barrier.
* `GcRoot`s stored inside heap objects and user `Drop` code that calls the heap
  from inside the sweep are left out.

## 3. What TLC checks

The runs finish in seconds but for `SingleThread`, `ConcurrentAllocation`,
`LeafCells`, `FreshLeaves`, `StartAndStop`, `TraceShapes` and
`EarlyTermination` (half a minute to two minutes each).

| run | environment | shows |
|---|---|---|
| `SingleThread` | one thread, the whole API, 3 objects (one `NO_TRACE`), 1 field, budgets 2 and 1, batch 1 | the abstract heap is implemented; exactness, list, colors and queue over whole cycles; no deadlock |
| `ConcurrentAllocation` | two threads allocate, clone (to each other), drop and clear; one thread collects; 2 objects, batch 2 | the abstract heap is implemented; the list and all three counters stay sound |
| `LeafCells` | a graph of 3 objects in every shape, two of them rooted by both threads; the threads clone, drop, store leaf pointers and clear; the background thread collects all the time | no dangling pointer, and no walk or queue with a dropped box, whatever is dropped or cut off during a cycle |
| `FreshLeaves` | two threads allocate leaves and store them into a graph of 2 objects; a third collects; assists; budget 1, batch 1 | the barrier keeps the tri-color invariant for leaves the root scan has not seen; marking is complete and no gray object is forgotten while assists compete with the collector for the queue |
| `StartAndStop` | one thread stops the background thread, another starts it, allocates, drops and collects; two generations, weak fairness | every call returns, `stop` included, also when the old and the new thread overlap; white garbage is dropped by a running thread |
| `Pacer` | sizes 3 and 5, heap up to 60, limit 40, 50 % growth, 30 % shrink | the pacing properties |
| `TraceShapes` | every type two constructors deep, collections of up to 2 items, maps of up to 1 entry, nodes in a cycle, a leaf | a scan and a barrier mark exactly what the value leads to, and end |
| `Lifecycle` | two threads with every call, two heaps, one of them with a background thread (two generations) | contexts, `Arc`s, stop and join, overlapping collectors, the moment of `Drop for Heap` |

**Bounds.** `Objects` bounds the allocations, `MaxHandles` the roots per thread
and object (2 roots of one object need 2 threads), `MaxStarts` the generations
of background threads (2: an old and a new one at a time), `MaxHeap` the bytes
in `Pacer`. Three objects are a root, an inner object and a leaf, and a work
budget of 2 ends a round in the middle of such a graph. In `FreshLeaves` two
assists and the collector steal from one queue: the batch of 1 makes each come
back for every box, the collector's budget of 1 makes it put its tracer back
after every object, and the two leaves are one for each thread, or two for a
thread that overwrites one by the other. `Depth` 2 nests every impl in every
other, and `MaxItems` 2 has a first and a last item; a map has one entry at
most, for with two the values are too many. Two heaps in `Lifecycle` are one
whose context a thread has and one it is refused. All but one of the flaws
below need two objects at most, or three threads at most. The exception is
`EarlyTermination`, which takes five objects, two complete cycles and a batch of
at least 2: the assist must put back more than one box. `FreshLeaves`, with a
batch of 1, is just below it, and `ConcurrentAllocation` has too few objects and
does not list `NoStaleTraversal`.

The threads of `FreshLeaves` never drop a root: a leaf that was stored while the
phase was `Sweeping`, where the barrier is off, and whose root is then dropped
is swept under the cell (section 4). The run is therefore about marking and says
nothing about such a leaf.

**`BackgroundCollects`** speaks of an object that is in the list, unreachable and
white, at a moment when no cycle is in progress and the heap is over its
threshold. An object that an aborted cycle has left gray is not promised
anything: the next cycle takes it for marked, keeps it, and may raise the
threshold so that there is no cycle after it. Nor is one whose push was lost
(`LostAllocation`): no sweep meets it.

**Symmetry** is used for safety runs only: over the traced objects or the
leaves, and over the threads that make the same calls. The abstract specification has no
fairness, so the refinement is a safety property too.

**Deadlock** is checked where a program that stops making calls is impossible
(`SingleThread`, `Pacer`); elsewhere the environment runs out of
objects, roots or starts.

**Fairness** is weak fairness of each thread's steps within a call: the
operating system runs every runnable thread. No thread has to begin a call, and
nothing is assumed of the lock-free retry loop or of the order in which threads
run. `CallsReturn` is checked with finitely many allocations: with mutators
that store for ever, the marker can find `n_busy_marking` raised every time it
looks, and `do_mark_work_full` does not return (TLC finds that lasso when a
thread of the run may also store). The code promises nothing about it, so no
run claims it.

### Where the code and its documentation part

Each of these runs checks one documented property and TLC finds a behaviour of
the code that violates it; `findings` in `PROJECT.json` quotes both sides.

| run | property | what happens |
|---|---|---|
| `TwoCollectors` | `OneCollector` | the second `finish_gc` of a cycle (heap.rs:418) resets the phase under another collector |
| `EarlyTermination` | `NoStaleTraversal` | the mark loop looks at the queue before the busy counter (heap.rs:496); an assist puts its boxes back between the two looks, they stay in the queue through the sweep, and a later sweep drops one of them there |
| `WhiteAllocation` | `NoDangling` | an object allocated during marking is not scanned |
| `LostAllocation` | `NoLostAllocation` | the sweep's store to `head` (heap.rs:536) overwrites a push |

TLC shows more of the kind when the environment of a run is widened, and the
passing runs leave these cases out: an object rooted through `GcPtr::root` by
another thread after the root scan has passed it, its cell then cleared, is not
scanned (ptr.rs:49); `allocation_count` can stand at a node a concurrent sweep
drops (heap.rs:572); a stop during marking leaves colors and queue behind for
the next cycle (heap.rs:629); a leaf allocated during a cycle, stored while the
phase is `Sweeping` and then unrooted is dropped under its cell (cell.rs:49).

`Program` shows what the owner of a heap with a background thread has to know:
it is dropped only after `stop_background_collection`. Without it the thread's
own `Arc` keeps the heap and the thread for the life of the process, and when
`GcContext::new` panics because the thread has a context, nobody is left who
could stop it (gc.rs:143). `AliveWhileUsed` counts such a thread as a user.

More differences are read off the code and need no model checker:
`incremental_work_budget = 0` makes every round do no work, which the mark loop
takes for completion (heap.rs:442 and 496); with `threshold_percent` 0 and a
limit set, `should_collect` still compares with the initial threshold
(heap.rs:338), though heap.rs:156 says threshold-based collection is disabled
then; and `limit_bytes`, "Maximum allowed heap size" (heap.rs:167), makes a
collection due but refuses no allocation.

Together with the passing runs they draw a line. The collector is safe and exact
for one thread. With several it is safe in programs like `LeafCells`, where one
thread collects, the others do not allocate, and what they store are leaves they
have a root of; and in programs like `ConcurrentAllocation`, where all allocate
but nothing is kept by a cell alone. Between the two lie programs that are not
safe, and the line is not drawn exactly: that is item 2 of the plan.

## 4. What TLAPS proves

Every theorem holds for every value of the constants that meets the named
assumptions (`PacingAssumption`, `PacerAssumption`, `HeapAssumption`,
`ProgramAssumption`): any number of objects, cells, threads and background
threads, any calls, any options. Where more is needed of the program, a theorem
says so as a hypothesis on `Calls` and `Background`:

| hypothesis | the program | runs that are such programs |
|---|---|---|
| `SoleCollector(c)` | only `c` collects: the background thread of a heap on which nobody calls `collect`, or the one thread that does on a heap without | all passing runs of `GcHeap` but `StartAndStop` |
| `SoleAllocator(c)` | the other threads do not allocate | `SingleThread`, `LeafCells` |
| `LeafMutators(c)` | `SoleCollector(c)`, the other threads clone and drop roots, clear cells and store leaves, and the incremental budget is not 0 | `SingleThread`, `LeafCells` |
| `Undisturbed(c)` | `LeafMutators(c)`, and the other threads call nothing | `SingleThread` |
| `CopiesAlone(c)` | `c` copies from cell to cell (`a.set(b.get())`) only if there is no other thread | `SingleThread`, `LeafCells` |
| `FlatProgram(c)` | `SoleCollector(c)`; every thread may allocate, clone, drop and clear, and no cell ever holds a pointer | `ConcurrentAllocation`, `LostAllocation`, `EarlyTermination` |
| `UnassistedProgram(c)` | `FlatProgram(c)`, `assist_work_budget = 0` (as in `GcOptions::OFF`), the incremental budget is not 0, and only `c` calls `allocation_count` | none |

None can be dropped: `TwoCollectors`, `LostAllocation`, `WhiteAllocation` and
`EarlyTermination` are programs just outside them in which TLC finds the
property violated, and a budget of 0 ends marking before it begins. Without
`CopiesAlone` another thread can clear the cell a pointer was copied from and
the copy brings back an object that no promise keeps. A `FlatProgram` keeps its
boxes by `GcRoot`s only, because with other threads that allocate a cell is not
enough: a leaf allocated after the root scan is white, a thread may store it in
a cell when the phase is `Sweeping` already and the barrier is off, and drop its
root; the sweep then drops the leaf under the cell. With assists on, a flat
program can leave a dropped box in the gray queue (`EarlyTermination`), which is
what `UnassistedProgram` excludes.

### The parts of the heap (`GcHeapProofs`)

* **`TypeCorrect`**: `Spec => []TypeOK`. `TypeOK` is inductive as it stands. The
  proof has a lemma per group of actions, and under it a step per action and
  per variable the action writes. It rests on `MarkType` (what `Tracer::mark`
  does to colors and queues for any value found in a field), `PopType` and
  `StealType` (what is taken off the ends of a queue) and `ThresholdBounds`
  (the threshold computed from any integer is a `usize`).
* **`BusyCorrect`**: `BusyExact`. It is not inductive: collectors and assists
  share the mark loop, and only the operation of the thread tells whether it is
  counted. `BusyInv` adds `MarksAsCollector` (a thread about to enter the loop
  as a collector is not in `allocate`) and `UnbornUntilStarted` (the thread that
  `start_background_collection` starts has not run before). Each action is a
  `BusyStep`: it moves one thread, and raises the counter on entering the busy
  section, lowers it on leaving, and leaves it alone otherwise; `BusyStepKeeps`
  turns that into a fact about cardinality.
* **`GrayQueueCorrect`**: `GrayIsQueued`, whatever the threads call. `QueueInv`
  adds that a thread outside the loop has an empty tracer; each action is shown
  to leave a gray object in somebody's hands, in the queue, or no longer gray.
* **`RootCountsCorrect`**: `RootCountExact`, whatever the threads call. The count
  is the cardinality of a set of (thread, number) pairs, so no induction over
  threads is needed: a clone adds one pair, a drop removes one. `RootInv` says
  who can know an object: until `allocate` returns, the box is in nobody's cell
  or root, so the count that `allocate` starts with is right.
* **`AllocationListCorrect`** (`SoleCollector`): no dropped box stays in the
  list. `ListInv` says where the walk of `do_sweep` stands (`SweepsTheList`) and
  that no node comes twice. "In the list" is a least closed set; where a fact is
  needed for every node of it, the nodes for which it holds are shown to be
  such a set, and where one has to go backwards, a counterexample nearest to
  the head is taken.
* **`NoPushIsLost`** (with `SoleAllocator`): every live box is in the list.
  `WholeListInv` adds that the walk without a predecessor stands at the head,
  which is what the store to `head` relies on and what a concurrent push breaks.
* **`BytesCorrect`** (`SoleCollector`): `BytesExact`. `BytesCount` is the
  balance `bytes_allocated + additions under way = live boxes + boxes dropped by
  the sweep and not yet subtracted`.

### A whole collection (`CycleProofs`)

Under `LeafMutators(c)`:

* **`CollectionIsSafe`**: `NoDangling`.
* **`MarkingKeepsTriColor`**, **`MarkingIsCompleted`**: `TriColor` and
  `MarkingComplete`.
* **`TraversalIsSafe`**: `NoStaleTraversal`.

All four rest on one inductive invariant, `CycleInv`. `NoDangling` says nothing
about what a cycle in progress is going to do, so the invariant speaks of
`Kept(c)`: the boxes that will be left when the cycle ends, all of them but the
white ones the sweep has not reached. Its core, `KeptIsClosed`, says that `Kept`
holds every rooted object and is closed under references; `Reachable` is the
least such set, and `NoDangling` follows. When `StartSweeping` is taken every
white object leaves `Kept` at once, and that the rest is still closed is exactly
what the tri-color invariant at the end of marking gives. So `CycleInv` carries
a claim for each stage of the cycle: `NothingScanned` (between cycles no object
with cells is black), `RootsAhead` (a white rooted object is still ahead of the
root scan), `MarksFromRoots` (roots are not white, black does not point to
white, and the fields already visited of the object being scanned do not
either), `SweepsByColor` (the colored objects are ahead of the sweep). Beside
these stand `ControlInv` (phase, queue and call fit the program counter of `c`,
and the other threads are between calls or store a leaf they have a root of),
`HandsAreLive` (what is in the queue and in the tracer is live), and the
invariants of list, roots and queue above. `StepsOfTheProgram` reduces a step of
any thread to three kinds: one of a leaf mutator (`LeafMove`, whose whole effect
is described by `LeafEffect`), of a call of `c`, or of `c`'s cycle.

Under `Undisturbed(c)`:

* **`CyclesStartClean`**, **`CollectionIsExact`**: `CycleStartsWhite` and
  `ExactCollection`. `UndisturbedInv` adds the other direction: what is colored
  or queued is reachable while marking, what is kept is reachable while
  sweeping, what is colored is unswept, and nothing is colored between cycles.

### The promise (`AbstractHeapProofs`, `RefinementProofs`)

* **`PromiseIsSafe`**: the abstract heap satisfies its `NoDangling`. The
  invariant is `TypeOK /\ NoDangling`; each action is shown to leave some set of
  live objects closed under the roots and cells *after* the step (what was
  reachable before, plus the new object in `Allocate`), and the reachable
  objects are the least such set (`ReachableIsLeast`, `ReachableIsClosed`,
  `ClosedAfter`).
* **`HeapImplementsPromise`** (`LeafMutators`, `CopiesAlone`):
  `Spec => ImplementsAbstractHeap`. `Visible(o)` is what the program sees of a
  box; `UnseenStep` is the stuttering case. The sweep's drop is a `Collect`
  because the abstract reachable set is within `Kept` (`AbstractReach`). The
  invariant adds `WritesReachable` to `CycleInv`: the data of the box being
  pushed, and the pointer about to be stored, are things the program can still
  reach when they become visible, several steps after they were read.
* **`HeldBoxesAreSafe`** (`SoleCollector`, and nobody calls `GcPtr::root`): a
  box with a `GcRoot`, or with one that an `allocate` in progress is going to
  return, is not dropped, whatever else the threads do. `HoldInv` adds to
  `ListInv` that the box `do_sweep` has decided to drop is held by nobody
  (`FreesUnheld`): the root count was read some steps before, and a clone in
  between needs a `GcRoot` to clone (`NobodyComesToHold`). This is the argument
  that the two loads of `is_white`, of color and root count, need not be atomic.
* **`FlatHeapImplementsPromise`**, **`FlatHeapIsSafe`** (`FlatProgram`):
  `ImplementsAbstractHeap` and `NoDangling` while every thread allocates.
  `CycleInv` is false there, for a push can be lost by the sweep; `FlatInv`
  is `HoldInv` with `CellsAreEmpty`, so what can be reached is what is held.
  `SeenOrUnseen` sorts the steps of any program into clones, drops, returns of
  `allocate`, drops by the sweep, and steps the program does not see.
* **`FlatTraversalIsSafe`**, **`FlatMarkingIsCompleted`**
  (`UnassistedProgram`): `NoStaleTraversal` and `MarkingComplete`.
  `UnassistedInv` adds `TracesLive`: what is queued or in hand is live, the
  object being scanned names none, the root scan and `allocation_count` stand
  in the list, and from the round that found the queue empty to the end of the
  sweep it stays empty (`DrainsQueue`), so boxes are dropped with nothing gray.
  Boxes are pushed throughout, and the sweep may lose some of them.
* **`ImplementationIsSafe`**: a behaviour of `GcHeap` that satisfies
  `ImplementsAbstractHeap`, in whatever program, never has a dropped box within
  reach of a returned `GcRoot`. `ConcurrentAllocation` and `SingleThread` check
  the refinement and therefore do not list `NoDangling`.
* **`ReturnedRootsAreSafe`** puts it together with the two refinements.

### Tracing (`TraceShapesProofs`)

`TypesAssumption` says that a type is the result of one impl applied to types
of less nesting, which values it has in terms of theirs, what a value refers to
in terms of its parts, and that a `GcPtr<T>` points to an object holding a `T`.
Types may nest as deep as they like, collections have any length, and the heap
any shape. That the equations are assumed of constants and not derived from
definitions is due to the prover, which has no recursive operators; the
definitions of `MCTraceShapes` meet them.

* **`ScansAreComplete`**: `BlackIsScanned`. An object whose vtable holds
  `trace_noop` is blackened without being looked at, so the theorem rests on
  `NoTraceHoldsNothing`: a type with `NO_TRACE` has no value that refers to an
  object. It is shown by a least counterexample on `Nesting`, an impl at a time.
  For the others `TraceCovers` says that the calls one `trace` makes refer,
  together, to what the value refers to. `ShapeInv` carries it through the
  recursion: what an object being scanned refers to is marked, or still referred
  to by a call that has not returned (`ScanInHand`).
* **`TraceIsExact`**: `MarksExactly`. One half is `OnlyReached` (everything
  colored, queued or in a pending call is in the least closed set); for the
  other the black objects are shown to be closed when the queue is empty, which
  is `BlackIsScanned` with nothing gray left (`GrayIsPending`).

### Programs and pacing (`ProgramProofs`, `PacerProofs`)

* **`ProgramTypeCorrect`**, **`ContextIsCurrent`**: `TypeOK` and
  `CurrentIsTheContext` of `Program`.
* **`HeapsLiveWhileUsed`**, **`DropsAreQuiet`**: `AliveWhileUsed` and
  `DropIsQuiet`, from `OwnInv`: a thread that waits in `stop` still uses the
  heap, every running background thread is the current one or is waited for,
  who collects a heap owns it, and a heap is alive as long as it is owned. That
  `stop` joins is what makes it work: a stopped thread is always waited for by
  a thread with an `Arc` of its own.
* **`PhasesAreGivenBack`**: `PhaseIsGivenBack`. The store that ends a cycle, or
  gives one up, is the last its collector makes, and it stores `Idle` even where
  that takes the phase from another collector.
* **`MinimumKept`**: the threshold stays at or above the minimum, wrap or no
  wrap.
* **`CollectionPays`**, **`ShrinkingIsSignificant`**: `NotDueAgain` and
  `ShrinksSignificantly`, under the hypothesis `NoOverflow` that
  `live * threshold_percent` and the sum fit a `usize`. The hypothesis is
  needed: where the product wraps, the threshold computed can be far below the
  live bytes. `ShrinksSignificantly` has the boundary of the code: a new
  threshold equal to the shrink limit is taken (heap.rs:232), though heap.rs:161
  says "below this percentage".

### Only model-checked

* Liveness (`CallsReturn`, `BackgroundCollects`, `TraceEnds`): fairness and
  ENABLED are out of the prover's reach.
* `TriColor`, `MarkingComplete` and `NoStaleTraversal` where other threads
  allocate and store beside the collector (`FreshLeaves`). They do
  not hold in all such programs: `EarlyTermination` has a larger batch.
* That the recursive definitions of `MCTraceShapes` meet `TypesAssumption` at
  every depth: TLC evaluates it for the depth of the run.
* That a dropped box is not used in programs outside `LeafMutators` and
  `UnassistedProgram`. In a flat program with assists on, a traversal can meet a
  dropped box (`EarlyTermination`). The model keeps the box apart from all
  others and lets the access do nothing to them, so `FlatHeapImplementsPromise`
  says nothing there about what the undefined behaviour of the real access may
  do; it says that `do_sweep` itself drops nothing it should keep.

## 5. Not modelled

* The barrier of a thread without a context, which is skipped, and of one with
  the context of another heap, which shades into the wrong queue (cell.rs:49,
  gc.rs:39): the cycle in progress does not see the store either way.
* What becomes of `GcRoot`s that outlive their heap: `Drop for Heap` drops
  rooted objects too (heap.rs:605), and a `GcRoot` keeps no `Arc`. `Program` says
  when it runs and not what it does to objects.
* Narrower than the code are `NewValues` (a `GcPtr` that is neither rooted nor in
  a cell is not stored) and `RootPointer` (only reachable objects are rooted,
  where the contract asks for live ones).
* A value of several words in a `GcCell`, read half written by the tracer: a
  cell of the models is one pointer.
* User `Drop` code that calls the heap from inside the sweep.
* Trait objects and unsized types: `Trace` cannot be implemented for them
  through the impls of the repository.
* Weak memory, panics other than the one of `set_current_context`, allocation
  failure, formatting; `lib.rs` (re-exports and documentation), tests, examples
  and benchmarks, which were read for what the program is expected to do.

## 6. Plan

1. *Done*: the modules of section 2, the runs of section 3 and the theorems of
   section 4. Every invariant of the passing runs is the subject of a theorem,
   though not for every program a run has.
2. The exact condition under which threads that do not collect may allocate
   and store what they allocate: a root held until the next cycle has begun
   would do, which is a condition on behaviours and not on `Calls`.
3. `RootPointer` by threads that do not collect, for which the condition on the
   program is not known yet.
