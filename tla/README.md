# A verification project for malloc_project

`malloc_project` finds the callers of malloc whose blocks are seldom used
("cold") and gives them an allocator of their own. Its first half collects data:
allocators that record every call, tracing clients, cache simulators and Python
scripts that classify callers. Its second half is a preload library,
`src/two_mallocs/mymalloc_with_cold.c`, that sends cold callers to one renamed
copy of ptmalloc2 (`_my_`) and everybody else to another (`_my2_`).

This directory holds TLA+ models of the parts that can go wrong in ways tests
do not reach, the TLC runs that check them, and proofs that TLAPS checks.

## The system

| Component | State | Operations | What is hard |
| --- | --- | --- | --- |
| Arenas of ptmalloc2: `_my_arena.c`, `_my_hooks.c`, public functions of `_my_malloc.c` | `__malloc_initialized`, the hooks, one spin lock per arena and `list_lock`, the ring `main_arena.next ...`, the table `arena_key[256]` | `ptmalloc_init`, `arena_get`, `arena_get2`, `malloc`, `calloc`, `memalign`, `valloc`, `pvalloc`, `independent_calloc`, `free`, `realloc`, `malloc_trim` | any interleaving of threads; locks taken in one function and released in another, or not at all; the ring is read without a lock |
| Fork handlers: `_my_arena.c` 182-311 | saved hooks, saved table entry, all locks | prepare, parent, child | the child has one thread and the locks of many |
| Chunk engine: `_int_malloc` ... in `_my_malloc.c` | boundary tags, bins, fastbins, top chunk, heaps | malloc, free, consolidate, realloc, memalign, grow and trim a heap | every operation must leave tags and lists consistent |
| Preload router: `mymalloc_with_cold.c` | table of cold callers, two allocators, flags in the low bits of a pointer, `n_mmaps` of each copy | malloc, calloc, realloc, free | who owns a block is decided by looking at it; counters without locks |
| Pool allocator: `drcachesim/mymalloc.c` | pools, free lists, a global mutex | malloc, calloc, realloc, free | `backtrace` calls malloc again under the lock |
| Pool tables: `perf`, `DynamoRIO`, `pintools` `mymalloc.c` | array of pools sorted by caller, a mutex, lines in a fifo | malloc, calloc, realloc, free, insert, search, fork | the array is kept sorted by hand; realloc lets go of the mutex half-way; a child logs into its parent's fifo |
| Cache simulators: `cachesim.c` | sets of lines | access | replacement order |
| Reuse distance: `data_reusedistance_*.py` | LRU stack, lifetimes | access, alloc, free, classify | a distance is a property of the whole trace |
| Tracing client: `memtrace_x86.c` | a buffer and a stream per thread, a fifo | reference, dump, thread start and exit, fork | who prints what, after a fork or a kill |
| Data pipelines: `data_record.py`, `data_split.py`, `data_merge.py` | tables of allocations, frees, pools, samples, misses | record, split, join, look up | intervals searched by bisection; processes that share addresses |
| Client for Pin, launcher, tools, plots, the `real_machine` copy | files | batch processing | mostly I/O; not modelled |

The preload library is the program's malloc: each call goes to one of the two
copies, which find an arena for the thread, lock it, run the chunk engine on it
and unlock it. A block may be freed by any thread. The copies share nothing but
the kernel: each asks of a block it did not make only whether it is its own.

### What makes each component correct

* Arenas: one thread at a time in an arena; no chunk lost; the ring stays closed
  and complete; every lock is given back by its holder; every call returns;
  `main_arena` is never used ("we have disabled the main_arena").
* Fork handlers: the child can allocate and free, and no lock stays taken.
* Chunk engine: chunks tile the heap, no two allocated chunks overlap, free
  chunks are in exactly one list, no two free neighbours remain.
* Router: a block in a heap goes back to the allocator that made it, and the
  counters of mapped chunks of both copies together count what is mapped.
* Pool allocator and pool tables: blocks do not overlap, headers stay intact, and
  a block lies in the pool of its caller.
* Cache simulators and reuse distance: the incremental structure computes what
  its definition says.
* Tracing client: each reference is written once, in order, for its process.
* Pipelines: a sample is put down to the block it hit and to no other.

## Modules

| Module | Models | Status |
| --- | --- | --- |
| `Arena` | the arena layer, one action per access to shared memory | done |
| `BlockService` | its promise: atomic requests on pools of blocks | done |
| `ArenaRefinement` | the refinement mapping from `Arena` to `BlockService` | done |
| `ArenaInvariant` | the inductive invariant and the assumptions of an orderly program | done |
| `ArenaProofs` | theorems about `Arena`: exclusion and locks, the ring, the refinement | done |
| `Iteration` | lemmas: induction over a finite set, walks along a function, sums over a set | done |
| `MCArena` | small processes for TLC | done |
| `PoolMalloc` | drcachesim's pool allocator | done |
| `PoolInvariant`, `PoolProofs` | its inductive invariant and the theorems | done |
| `MCPool` | small pools for TLC | done |
| `HeapChunks` | the chunk engine of one arena and its heaps | done |
| `HeapInvariant` | its inductive invariant, as predicates on a memory | done |
| `HeapMemoryProofs`, `HeapProofs` | what one change of memory keeps; every step, and the theorems | done |
| `MCHeap` | two small heaps for TLC | done |
| `ArenaFork` | prepare, parent and child handlers over `Arena`'s state | done |
| `ForkInvariant` | its inductive invariant | done |
| `ForkSteps`, `ForkProofs` | what one step keeps; every step, and the theorems | done |
| `MCFork` | the small processes again, with a fork | done |
| `TwoMallocs` | the router over two allocators seen from outside; mapped chunks; the log of heaps | done |
| `ReuseDistance` | temperature of a miss and both distances | done |
| `PoolTable` | the pool tables | done |
| `ProfileMerge` | recording, splitting and merging of profiles, on top of `PoolTable` | done |
| `ObjectMerge` | drcachesim's pipeline, from lines and misses to objects | done |
| `MemTrace` | DynamoRIO's client | done |
| `CacheSim` | the cache simulator, on top of `MemTrace` | done |
| `StudyProofs` | invariants and theorems of three studies: `PoolTable`, `MemTrace` and `TwoMallocs`, and the theorem that joins the last with `ReuseDistance` | done |
| `Studies` | the five studies side by side | done |
| `MCStudies` | small studies for TLC | done |

Every module that models code marks with `Fault` the operators that repeat one
of its definitions with a plausible mistake. They are never part of the
specification; putting one in place of the definition it follows shows that a
property can fail.

## Arena

**State.** `initialized`, `hook`, `saved` are `__malloc_initialized`, the four
hook variables and the copies `ptmalloc_init` keeps of them. `mutex` gives the
holder of each spin lock (the code stores only 0 or 1; who took the lock is
remembered for the properties). `next` is the ring, `tsd` the table behind
`arena_key`, `heaps` the arenas `_int_new_arena` has made. A thread has a
program counter `pc`, the operation `op`, the arena `av` it works on, the arena
`start` its search began at, and `blk`, the arena of the block it carries. The
chunk engine is a counter `used` per arena, read in `EngineEnter` and written
in `EngineLeave`: two threads inside one arena lose an update, which is what
`ChunksAccountedFor` would show.

**Actions.** One step is one access to memory threads share. `Call` is the
program; `EnterPlain`, `EnterRealloc`, `EnterSmall`, `EnterIni`, `DropHook` and
`EnterStarter` are what a public function does before it looks for an arena, by the
value of its hook (`EnterSmall` is the memalign of an alignment malloc has anyway,
`small_memalign` among the operations: it goes on as malloc); `InitCheck` to `InitDone` are the stores of `ptmalloc_init`;
`GetTsd`, `TryDirect` are the macro `arena_get`, and `Get2`, `LockMain`,
`Scan...`, `TryList`, `DropList`, `NewArena...`, `SetTsd`, `MutexInit`,
`MutexLock`, `ListLock`, `LinkNext`, `LinkMain`, `ListUnlock` are the lines of
`arena_get2` in their order; `GotNothing` to `UnlockFailed` are the second half
of the public functions; `NotMine`, `LockOwner`, `TrimLock` are the entries of
`free`, `realloc` and `malloc_trim`. `main_arena` is disabled in this copy of
ptmalloc2: `arena_get` goes on searching when it has just locked it, and leaves
it locked, and so does the model.

**Runs.**

| Run | Process | Question |
| --- | --- | --- |
| `arena_orderly` | 3 threads, 2 arenas, own slots, one call each and one fork | see `ArenaFork`: is an arena used by one thread at a time, does every chunk stay accounted for, is `main_arena` out of use, does nobody release another's lock, does the inductive invariant hold |
| `arena_calls` | 2 threads, 2 arenas, two calls each: calloc, realloc, free | inductive invariant, every call returns, refinement of `BlockService` with its fairness |
| `arena_no_memory` | as above, with memalign (of a larger alignment), valloc and free, any request may fail | do failing calls leave a lock behind, does every call return |
| `arena_race` | 2 threads that both make the process's first call | what survives a race through `ptmalloc_init` |
| `arena_shared` | 3 threads, two of which hash to one slot, that also call memalign of small alignment | what survives a shared slot |
| `arena_lost_lock` | malloc and free, memory may run out | violated: `EveryCallReturns` |
| `arena_shared_slot` | 2 threads on one slot | violated: `ArenaExclusive` |
| `arena_fork` | a thread that forks, then its child | violated: `EveryCallReturns` |

`MaxCalls` bounds the calls of a thread. One call each is enough to have an
arena created while another is searched and linked; two calls let a thread free
or resize a block of the other thread's arena and come back to its remembered
arena. Two arenas are the least with which two creators can link at the same
time and the ring has more than one dynamic member; when all exist the search
must wait or give up. Symmetry exchanges arenas, and threads (with their slots)
that start under the same conditions; it is used only where no liveness is
checked.

**Fairness.** `FairSpec` has weak fairness of `Work(t)` for every thread: a
running thread is scheduled again and again, and `mutex_lock` spins, so a
thread that waits for a lock that stays free gets it. The program (`Call`) is
under no fairness. Calls are bounded, so no thread can be overtaken for ever,
which is all that spin locks without a queue can promise.

**Proved**, for any sets of threads, arenas and slots and any `MaxCalls`. What a
theorem assumes of the program is a definition of `ArenaInvariant`, and each is
the part of the following that its proof needs and the code cannot do without:
`Started` (one thread makes the first call, the others start when an arena
exists, and nobody calls `independent_calloc` or `malloc_trim`), `DistinctSlots`
(no two threads share an entry of the table), `Orderly` (both), `KeepsNoLock`
(the engine does not fail in malloc, calloc, realloc or a memalign of small
alignment), `FollowsNoNull` (no pvalloc, and no realloc that fails). `DistinctSlots`
is the strongest of these: the slot is `pthread_self() % 256`, and the stacks of
threads are aligned, so that threads usually *share* one. The code gives no reason
to expect that it holds; exclusion, the chunks, the refinement and what is shown of
fork are statements about programs for which it does. `arena_shared_slot` shows what
happens otherwise, and the theorems that do not need it (types, locks, ring, crashes)
are stated without it.

| Theorem | Assumes | States |
| --- | --- | --- |
| `TypeCorrect` | nothing | types |
| `InvariantHolds` | `Orderly` | `Inductive`, the invariant `arena_calls` checks |
| `ArenasExclusive` | `Orderly` | one thread at a time is in an arena |
| `CreatedArenasExclusive` | `DistinctSlots` | the same for created arenas, while threads race through `ptmalloc_init` |
| `MainIsDisabled` | `Orderly` | `main_arena` serves nobody |
| `OnlyHoldersRelease` | `Orderly` | an action property: a lock is cleared by its holder |
| `LocksAreReturned` | `KeepsNoLock` | no call leaves a lock behind but that of `main_arena` |
| `RingIsClosed` | `Dynamic` finite | following `next` leads back to `main_arena` |
| `RingIsComplete` | `Started`, `Dynamic` finite | each linked arena is on the ring |
| `ChunksAreAccounted` | `Orderly`, `Threads` finite | each chunk an arena counts as in use is held by a caller or on its way to or from one |
| `NeverCrashes` | `Started`, `FollowsNoNull` | nobody follows a null arena or block |
| `ArenaImplementsService` | `Orderly` | every behaviour is one of `BlockService` |

*Exclusion* (first part of `ArenaProofs`). The argument is not that the holder of
a lock excludes others: `mutex_init` clears a lock word, whoever holds it. It is
that an arena
between `SetTsd` and `MutexLock` is known to its creator alone, which takes
`PublishInv`: no `next` pointer, no held block, no other slot and no other
thread's local variable refers to it. `WorkersLock` says that whoever links or uses
a created arena has its lock. These two and the types (`RaceInv`) are inductive
without anything on the first calls. For the rest `BootInv` adds that
`ptmalloc_init`, which clears locks as well, is over when the first arena appears,
`MainInv` that `main_arena` is locked for good by then, `LockInv` the same as
`WorkersLock` for all arenas, and `CallInv` what a call carries from step to step.
Without `DistinctSlots` exclusion is false, as `arena_shared_slot` shows.

*Locks*. `HolderInv` follows every lock from the step that takes it to
the one that gives it back; races and shared slots may clear it earlier, which
does no harm to this property, which the theorem states of shared slots as well
(`arena_shared` does not check it again). It needs `KeepsNoLock`, because `malloc` comes back
from a failed engine with its arena locked (`arena_lost_lock`), and calloc,
realloc(NULL) and memalign of an alignment of at most `MALLOC_ALIGNMENT` are that
malloc. The larger alignments unlock, which is what `arena_no_memory` checks.

*The ring* (second part). A property of a path of pointers is proved from
statements about single pointers. `RingInv` says that there is a numbering of the
arenas (a history nobody keeps: the order in which their pointers were set)
along which `next` goes down until it reaches `main_arena`. So a search meets no
arena twice and must end (`RingIsClosed`), even if threads race and one arena
overwrites the link of another. With one first call and the list lock
(`ListInv`) no link is overwritten, and `ChainInv` says that `next` goes to the
next lower *linked* arena, so that a search meets all of them
(`RingIsComplete`). `Iteration` has the facts about paths: a walk with a given
first element exists, and one that descends in a finite set is short. They need
induction, which the library states for an operator and no prover can apply;
`SetInduction` states it for a set, from the order of finite sets by inclusion.
`NeverCrashes` is `ChainInv`'s invariants again, with what a call carries (`CrashInv`).

**Only model-checked**: liveness (`EveryCallReturns`, and the fair half of the
refinement). Liveness is out of the provers' reach.

**Not modelled here**: what the engine does inside an arena (that is
`HeapChunks`), mapped chunks (`TwoMallocs`; the first test of `free` is for them), fork
(`ArenaFork`), the hooks of `malloc_check`, `THREAD_STATS`.

## ArenaFork

`ArenaFork` extends `Arena`: `ForkNext` is `Next`, the steps of the three
handlers, and what the atfork hooks do for threads that call meanwhile. The
locks are those of `Arena`; `saved` is shared with `ptmalloc_init`, as in the
code. New are `process` (which of the two a behaviour follows), `forks` and
`save_arena`.

`Forks` is the program; `Prepare` is `ptmalloc_lock_all`, one step for each lock
it takes and each `next` it reads; `Parent` is `ptmalloc_unlock_all`, likewise;
`ForkChild` is the fork and `ptmalloc_unlock_all2` in one step, since the child
has one thread: the others are `gone` and what they had locked or half done
stays in memory. `MallocAtfork`, `WaitList`, `LeaveList` are `malloc_atfork`,
`FreeAtfork` and `LockChunkArena` `free_atfork`. `GetMark` is `arena_get` in a
thread whose slot holds `ATFORK_ARENA_PTR`.

Assumed of the environment: the C library runs the handlers of one fork at a
time, the program forks after `ptmalloc_init` is over, and no other handler
calls malloc between prepare and parent.

`arena_orderly` forks once, from one of the two later threads, before or after
its call and anywhere in the calls of the others; behaviours go on in the parent
or in the child. `CopiedAtRest` is the point of the handlers: at the moment of
the copy nobody is inside an arena or between the two stores that link one.
`ForkLeavesNothing` is that they undo what they did, `ParentUnharmed` that the
threads of the parent notice nothing. The run checks for deadlock, and finds one,
which `ForkFinished` names and excepts: `free_atfork` does not look whose block
it is given. A block of the C library (from `memalign`, which the preload library
leaves alone) counts as one of `main_arena`, whose lock `arena_get` never gives
back; a thread that frees one while another forks waits for ever. That nothing
else is stuck is what the deadlock check then shows.

`arena_fork` (violated): in the child the hooks and the mark stay. `malloc` is
served by `main_arena` until the first `realloc` of a block has overwritten the
mark; then `malloc_atfork` and `malloc` call each other for ever. If `realloc`
had not been used before the fork, its initial hook drops `malloc_atfork`, and
`arena_get` follows the mark. The run has one thread, which is enough and makes
the behaviour short. `FairForkSpec` is fair to the steps of a call, as `FairSpec`
is.

**Proved** (`ForkSteps`, `ForkProofs`), for any threads, slots, forking threads, number of forks
and calls, whichever process is followed, and however often it forks again:

| Theorem | Assumes | States |
| --- | --- | --- |
| `ForkInvariantHolds` | `Orderly`, `Dynamic` finite | `ForkInductive` |
| `ForkExclusive` | the same | `ArenaExclusive` |
| `ForkCopiesAtRest` | the same | `CopiedAtRest` |
| `ForkReleases` | the same | `OnlyHolderReleases`, an action property |
| `ForkHarmsNoParent` | also `Threads` finite | `ParentUnharmed` |
| `LocksAreHeldAtWork` | also `KeepsNoLock` | `ForkHolder` |
| `ForkCleansUp` | also `KeepsNoLock` | `ForkLeavesNothing` |

`Orderly` and `KeepsNoLock` are those of `Arena`. A malloc that fails keeps its
arena locked for ever (`arena_lost_lock`), and the child would inherit that lock.
`Dynamic` is finite because the list of the arenas is walked: `Walk`
takes as many steps as there are arenas. `Threads` is finite because the chunks
that calls carry are counted.

*The parent.* The threads that run while one forks take other branches than they
do without a fork, so that the invariant of `Arena` cannot be had by adding
cases. But it holds of the parent *with the fork left out*: `PlainPc` takes the
thread that forks for idle, one that waits in `malloc_atfork` for one about to
call, and one that waits in `free_atfork` for one about to ask whose block it has;
`PlainHook` and `PlainTsd` are what the handlers will put back. `Plain` is the module of
`Arena`'s invariants with these in the place of the variables, and `P` that of its
theorems. A step of `Arena` is a step of it (`PlainWorks`), so that each lemma of
`ArenaProofs` serves again; a step of a handler changes only locks, in a way the
invariants do not mind (`ForkInterferes`, from `Interference` of `ArenaProofs`).

*The rounds.* Which locks the handlers hold half-way is a statement about sets: `D`
is what was visited, and `next` stays in `D` up to the arena that comes next
(`Upto`, `Through`). Back at `main_arena` the visited set is closed, and so it is the
ring (`RoundEnds`): all of it, because `ChainInv` has every linked arena there
(`RingHasLinked`), and whoever works in an arena works in a linked one. That is
`CopiedAtRest`. The ring cannot grow meanwhile, as the list lock is held (`ListHeld`).

*The child.* `ChildInv` asks little, since the hooks and the mark stay and the one
thread may crash: nobody else is left, the ring has no locks of those
who are gone and no loose end (`NeverEnds`). `WalkIsRing` joins the sets with the
`Walk` by which the model goes round: a walk of as many steps as there are arenas
comes by all of them, by the pigeon-hole principle.

*The holders.* `ForkHolder` follows each lock from the step that takes it to the one
that gives it back, through the handlers and the threads that wait for them.

TLC checks `ForkInductive` in `arena_orderly`, and `ForkLeavesNothing`, for which
`ForkHolder` is there; `ForkHolder` itself is proved and not listed in a run. What the
proof's invariant (`ForkIInv`) has beside `ForkInductive` are the two numberings of the
ring, of which `Arena`'s section tells; TLC would have to guess them.

**Only model-checked**: that the fork and the calls end but where `ForkFinished` says
so (deadlock, and `EveryCallReturns`, which is violated).

**Not modelled here**: two threads on one slot are not forked; a thread
that shares the slot of the forking one would follow the mark as well.

## PoolMalloc

**State.** `mutex` is `malloc_mutex`, `inTrace` the thread-local
`is_in_backtrace_func`, `ready`, `free` are `is_pool_init` and `pool.free_ptr`,
`heads` the memory of the pool as far as it holds a header's size. `blocks` is
the history of what `pool_alloc` handed out. Program counter and locals are kept for each *activation*: a call
a thread makes (`outer`), or a call the library that `backtrace` loads makes in
the middle of it (`inner`).

**Actions.** `Lock`/`LockSkipped` is the first line of each function; `Refuse`
the returns of NULL; `Prepare` the initialisation of the pool and `align`;
`AllocHead` and `AllocCut` the two halves of `pool_alloc`, with the assertion
in `Fits`; `Copy` the `memcpy` of `pool_realloc`; `Trace` and `Traced` the
bracket around `backtrace`; `Unlock` the end. malloc, calloc and realloc share
these steps and differ in `Refuse` and `Copy`. Sums are those of machine words
(`Add`, `Aligned` wrap at `Word`).

The environment: `backtrace` makes nested calls only until its library is loaded
(`warm`), and a thread starts a second one only between its calls.
`pthread_create` allocates, so the first `backtrace` is over by then. This is
what keeps the allocator safe, because a nested call unlocks the mutex its
caller holds.

**Runs.** `pool`: two threads with two calls each and two nested calls; headers
and alignment of 2, sizes 0, 1 and 7, a pool for four small blocks or one large
and one small one, so that it also fills up and that `memcpy` runs out of it.
`realloc` to a smaller size writes the old length, past its block and past
`free_ptr`, where nothing is lost unless the copy leaves the pool (`CopyFaults`).

**Fairness**: weak fairness of each activation, for the same reasons as above.
A full pool ends the process (`assert`), which `PoolCallReturns` allows.

**Proved** (`PoolProofs`), for any number of threads, any nested calls, any
sizes for which the sums of `pool_alloc` do not wrap (`SaneSizes`): the inductive
invariant with the types (`PoolInvariantHolds`), `BlocksAreDisjoint` and
`HeadsStayIntact`. `TurnInv` is the heart of it: an activation at work either
runs while there is one thread, or holds the mutex; `OneAtATime` follows, and
`MemoryInv` and `CallInv` then describe a sequential pool. Liveness is only
model-checked.

**Not modelled**: the lines printed for each call, the timer, `memalign` (which
the library does not interpose), a failed `mmap` of the pool, and sizes near the end
of the word, for which the assertion compares a wrapped sum and the product of
`calloc` may wrap to 0, which is then not refused.

## HeapChunks

The chunk engine runs under the arena's lock, so one call runs at a time, and a
step is one iteration of a loop or the straight code between two of them. This
takes over where `Arena` stops: what `EngineEnter` and `EngineLeave` enclose
there is a call here.

**State.** `head` is memory as far as it holds chunk headers: address to size,
the two flags, and the footer in the same unit. Addresses and sizes are counted
in `MALLOC_ALIGNMENT`, so that a header is one unit and padding is exact; tags
of chunks that no longer exist leave the domain of `head`, and code that read
one would stop TLC. `bins`, `fast`, `haveFast`, `marked`, `top`,
`lastRemainder` and `systemMem` are the fields of `malloc_state`; `heapSize` and
`chain` are the heaps and `heap->prev`. `call`, `pc` and the variables after it
are the call in progress. `block` is what the program holds. Two variables are
history: `data` is the words of each block that still hold what the program put
there (or, after `calloc`, zero), and `fresh` the words the system mapped during
this call and nobody wrote. `Stores` takes out of both whatever a step writes,
tags and links included.

**Actions.** `TakeFast` to `SplitTop` are `_int_malloc` in the order of its
lines; `GrowHeap`, `NewHeap` and `SystemRefuses` are `sYSMALLOc`; `FreeFast` and
`FreeMerge` are `_int_free`, `ConsolidateOne` and `ConsolidateEnd`
`malloc_consolidate`; `DropHeap`, `Shrink` and `NoShrink` are `heap_trim` with
`grow_heap`; the `Realloc...` actions are the branches of `_int_realloc`, and
`MemalignCut`, `MemalignTail` the two cuts of `_int_memalign`. Internal calls
are a `pc` with the place to return to in `after` and `resume`. `Cleared` in
`Return` is the clearing of `calloc`.

**Runs.** `heap`: five calls with three pointers, sizes 2 and 6 in units,
alignment 4, two heaps of 16 units in pages of 4, the first of 12 or 16. This is
small, and still every action and every branch of every action is taken: two
large bins, a bin with a stale bit, a large request that merges
fastbins, a retry, a heap that grows, is left, is dropped and becomes top again,
refusals at each of these places. Large bins have constant width and start at
4 units instead of 512 bytes. New pointers go to the first empty slot, which
loses nothing, since the program treats its pointers alike. `MaxCalls` is 5
because the state space is otherwise too large to finish.

What is asked: that chunks tile each heap (`HeapShape`), that each chunk is in
one place (`EveryChunkInOnePlace`), that tags, footers, bins and bitmap agree
(`TagsAgree`, the checks of `do_check_malloc_state`, which the library is built
without), that blocks stay apart (`HeapBlocksDisjoint`) and nothing writes into
them (`ContentsKept`), that the assertions hold (`HeapAssertions`), that a chunk
taken from a bin is the best fit (`BestFit`), and that calls return
(`HeapCallReturns`). All hold, and so does the inductive invariant of the proofs
(`HeapInductive`), which the same run checks.

`heap_dropped` (violated): "null if no space is available" is not what the code
does. `sYSMALLOc` makes a new heap, makes it top, and frees the end of the old
one; when that end is large, the free trims, finds the new heap empty and drops
it, and `malloc` returns 0 although nothing was refused. The end of the old heap
is smaller than the request plus `MINSIZE`, and what was left to grow into was
too small, while a heap is dropped only if both together reach `top_pad +
MINSIZE` and a page: a request of at most `top_pad` is safe as long as
`grow_heap` was not refused, which is `SmallRequestsServed`. With the default
parameters a request above 128 KB is mapped instead, so the bug needs
`n_mmaps` at its maximum, a raised threshold or a small `M_TOP_PAD`.

`refused`, which these two properties speak of, is also set where no heap can be had
for another reason: `new_heap` returns 0 for a size above `HEAP_MAX_SIZE`, and the
address space of the model ends after its two heaps, where `mmap` would fail. `Placed`
compares the size of the chunk it puts in order with that of the smallest, which has
its PREV_INUSE bit, as the code does; this decides only the order of equal sizes, of
which no property speaks.

**Proved** (`HeapMemoryProofs`, `HeapProofs`), for any number of pointers, heaps and
calls, any requests, alignments and sizes that `HeapAssumption` allows, and refusals
anywhere.

| Theorem | Property |
| --- | --- |
| `HeapInvariantHolds` | `HeapInductive` |
| `ChunksAlwaysTile` | `HeapShape` |
| `NoChunkIsLost` | `EveryChunkInOnePlace` |
| `TagsAlwaysAgree` | `TagsAgree` |
| `BlocksStayApart` | `HeapBlocksDisjoint` |
| `ContentsAreKept` | `ContentsKept` |
| `AssertionsHold` | `HeapAssertions` |
| `SmallRequestsFailRarely` | `SmallRequestsServed` |
| `SearchIsBestFit` | `BestFit`, an action property |

Assumed of the constants: they are positive; `MINSIZE` has room for a header and its
end, is at most `MIN_LARGE_SIZE`, and that at most `HEAP_MAX_SIZE`; fastbins are
below the large bins; heaps are whole pages; padded requests and alignments are at
least `MINSIZE` (`request2size`, and the test at the head of `_int_memalign`); a
request fits a new heap. The last is where the model leaves out what `sYSMALLOc`
maps instead.

No property here is inductive alone, and neither are all of them together. The
invariant is a conjunction of parts:

* `HeapsSound`, `Tiled`: a heap is whole pages; the next header of each chunk is a
  header of the same heap, up to top or the end tag, and no header lies inside a
  chunk. `HeapShape` follows; the point is to say it of the *next* header alone, so
  that a step has to look at the one or two chunks it writes.
* `FootersSound`: a clear PREV_INUSE and a footer are there exactly for a chunk in a
  bin. `_int_free` believes them when it goes back by `prev_size`.
* `FlagsSound`: a chunk in a bin is marked so behind it, has no free neighbour and
  does not touch top. A merge then has at most three chunks, and what it makes has
  no free neighbour either.
* `BinsSound`, `FastSound`, `PlacesSound`: lists have no chunk twice, bins hold what
  `bin_index` says in falling order under their bit of the bitmap, and the chunks are
  parted into those in bins, in fastbins, of the program and in hand.
* `CallSound`, `WhereSound`: what a call carries from one `pc` to the next; whose
  the chunk in hand is, and that it is as large as asked.
* `SearchSound`: what a search has excluded when it goes on. All chunks that fit are
  in bins not yet looked at (`scan`), or there are none (`top`, `system`); a large
  request has no fastbins left. It carries `BestFit` and the assertion that top is
  reached with fastbins only for small requests.
* `FinishSound`: after `sYSMALLOc` top fits, or the system refused, or the request
  is above `top_pad`; while the end of the old heap is freed, it is too small for
  `heap_trim` to drop the new one (`JustMapped`). It carries `SmallRequestsServed`.
* `DataSound`: `ContentsKept`, and that what `calloc` leaves uncleared is beyond the
  old end of top and in memory nobody has written since it was mapped (`ClearSound`).
* `CountSound`: `system_mem` is the sum of the heaps.

The parts about memory are predicates on a memory, `MemorySound(h, t, hs, ch, G)`
with headers, top, heap sizes, chain and the chunks in bins. So `HeapMemoryProofs` can
say what single changes keep (a cut, a join, a chunk into a bin or out of one, top
moved, a heap grown, made, dropped), whatever action makes them, and chain them: a
step of the model writes several headers at once, and memory between two of these
writes need not be one any state of the model has. It ends with `_int_free` and the loop of `heap_trim`,
which return to four different callers. `HeapProofs` takes the actions one by one.
That `system_mem` and sizes of heaps move together is a lemma of `Iteration` on
sums. Words and their chunks (`HeapBlocksDisjoint`, `ContentsKept`) come down to one
lemma: chunks that do not overlap have words of their own.

Writing the proofs changed four places of the model without changing its
behaviours under the bounds of the run. `EndRoom`, the room from the last header of
a heap that is given up to its end, is `MINSIZE` less a header, instead of a number
that fits one value of `MINSIZE`. `BinOf` stops at the last bin (`LastBin`), as
`largebin_index` does. `Without` is what `unlink` does to one list. And `NewHeap` may
map any heap that is not mapped, as `mmap` may, instead of the lowest.

**Only model-checked**: `HeapCallReturns`, as liveness is out of the provers' reach.

**Fairness**: weak fairness of `Work`, the steps of a call. A thread that holds
the arena's lock is scheduled, and within the engine it waits for nobody. The
program's calls are under no fairness.

**Not modelled here**: mapped chunks (`TwoMallocs`), `main_arena` (disabled, so
that the `sbrk` half of `sYSMALLOc` and `sYSTRIm` never run), `independent_calloc`
and `valloc` as callers of the engine, `mallopt`, requests so large that their
padding wraps, and the version key in the upper bits of `heap->size`.

## The studies

The rest of the repository uses the allocators to learn something about a
program: five studies that share no state, each with modules of its own.
`Studies` puts them side by side: `study` is drawn at the start and says whose
steps a behaviour takes. One run, `studies`, checks them all. No fairness is
assumed, and deadlock is not checked, because every study ends.

### TwoMallocs

**State.** `mem` is one record, since the outcomes of an operator are memories:
`area` says what each area of the address space holds (an area is
`HEAP_MAX_SIZE` long and aligned, so that masking an address gives its heap),
`held` the blocks each allocator has given out in its heaps, `size` their
headers, `mapped` the mapped blocks, `maps` and `bytes` each copy's `n_mmaps` and
`mmapped_mem`. `rows` is the table of callers `produce_cold_addrs.py` reads,
`log` is `mynewheap.csv`, `owned` what the program holds.

**Actions.** `Malloc`, `Free`, `Realloc`, `ReallocZero`, `ReallocFails` are the
functions of `mymalloc_with_cold.c` with what they call in the copies; the
decisions are those of the code (`IsCold`, the flag of a mapped chunk,
`IsMyHeap`, the flags with which `_my_free` and `_my_realloc` say that a block was
not theirs), while *which* heap and place a copy picks is open, as `HeapChunks`
shows how it does. `Memalign` is the C library, which the preload library does
not cover. One thread calls: a block belongs to one caller, the arenas are
`Arena`'s subject, and the counters have no lock, so that two threads could lose
an increment.

**Checked.** `HeldByOwner`: each block is known to exactly one allocator, the one
whose heap it is in, across any chain of mallocs, reallocs and frees.
`CountersAddUp`: `_my_free` is asked first and takes every mapped block, so
`n_mmaps` of `_my_` goes down for chunks `_my2_` mapped and `n_mmaps` of `_my2_`
never goes down; only the sum means anything, which is the statement.
`ColdCallersRouted`: the two tables of flags send every cold caller whose address
under two allocators is in the table to `_my_`, whatever the order of the rows, and
nobody without the offset of a cold caller. Of a cold caller whose address is not
known nothing is claimed: a later row of the same page whose address is known clears
the flag of the page (`produce_cold_addrs.py:30`).

In one place there are more behaviours than the code has: the area of a heap that
`heap_trim` drops becomes free in `Released`, while `delete_heap` is commented out
(`_my_arena.c:688`) and the heap stays mapped.

What the model says about the code and no property claims: `realloc` of a block
of the C library copies the length of the old chunk into a new one that may be
smaller (`mymalloc_with_cold.c:82`). `Overruns` notes it, and the behaviour ends,
as it does where `realloc` fails and reads the header at address 0.

**Bounds**: two areas of two places, chunk sizes 1 and 2 with the threshold at 2,
four calls: enough for a heap that becomes a mapping and a heap again, for each
copy to reach its maximum of two mappings, and for a block to move from the C
library to `_my2_` and be freed there. `MCRowTables` has a row that clears a page
flag, one that comes before the flag it would clear, and no row at all.

**Proved** (`StudyProofs`, third part): `HeldByOwner`, for any callers and tables, any
areas, places and sizes, any threshold and any number of calls; assumed are the
constants' types, that places lie inside an area and have a first. The inductive
invariant is `Sound(mem, owned)`: besides what `HeldByOwner` says, a mapped block
lies at the start of its area and has it to itself (`Placed`). Without that,
`munmap_chunk` could free an area that still holds blocks, and the test of
`IsMyHeap` would then lie about them. What the program owns is between what the
two copies know (`Kept`) and what all three have given out (`Given`), as `realloc`
leaves blocks in the C library. A lemma says of each outcome set (`Serve`,
`Released`, `Unmap`, `Remapped`, `Resized`, `Remade`) that it takes a sound memory to
a sound one.

`CountersAddUp` (theorem `CountersAlwaysAddUp`): the invariant is `SumsUp` beside
`Sound`; each operation adds to or takes from `mapped` at most one block, and the
counters and the sum over `mapped` move by the same amount. That a sum moves by
what was added is `SumSplit` of `Iteration`, proved from the definition of
the fold by induction over the subsets of a finite set.

`ColdCallersRouted` (theorem `ColdCallersAreRouted`): nothing changes the rows, so
this is a statement about the fold that builds the tables, for every sequence of
rows. `Marked(f, rows, n)` says what the first `n` rows have done to the tables:
a cold row with an offset has its table flag, each table flag has such a
row, each page flag a cold row without; one more row keeps it (`MarkMarks`).
Assumed beyond the above is that the table is a sequence of rows whose offsets are
numbers.

### ReuseDistance

`TemperatureIsAllocator` joins this with `TwoMallocs`: the temperature a miss
gets from its address and the log of heaps is that of the allocator whose block
was missed. It is claimed for areas that had one tenant. The log never says when
a heap ends, so an address once in a cold heap stays cold
(`data_reusedistance_space.py:51`); the claim is false without that condition.

**Proved** (`StudyProofs`, third part; theorem `TemperaturesAreAllocators`), for any address
space and any calls. The claim is about the log, and a call may take an area and
give up another before it writes: `Moves` says what one call does to the areas,
that at most one of them becomes a heap, and that an area which ever was a heap of
a copy became one in some call that still shows it as that copy's at its end.
So the lines are exactly the pairs of an area and a copy it ever was a heap of
(`LogsHeaps`, the inductive invariant beside `Sound`), and the ranges of two areas
do not meet (`InAreaOf`).

`missed` is the sequence of rows. `Visit` is the loop over the LRU stack,
`TimeDistances` the numbering, the split by process and page, and the
differences. `PidPage` wraps in 64 bits as the code's key does. `DistancesAgree`
compares both with the definitions, over all sequences of up to five rows of two
processes, two pages, two temperatures: enough for a page to be seen, left,
interrupted twice by another and by its namesake of another process, and seen
again.

### PoolTable and ProfileMerge

**State.** `procs` has, for each process that was started, `pool_table`, where
the system maps next, and the blocks given and held; `lines` is the fifo of all
processes. **Actions**: `PoolMallocCall`, `PoolFree`, and `ReallocBegin` and
`ReallocEnd`, between which the mutex is free and other calls come; `Fork`. A call
is one step, because it is under `malloc_mutex`. `realloc` copies the size of the
old block even into a smaller one; a copy that leaves the mapping is `overrun`,
and the process is not followed further. `Profiled` ends the run: blocks are
sampled at the last byte of the header, the first, the last, and the byte after.

`OnePoolPerCaller`: the table is sorted by hand, yet no pool is lost or doubled,
and each block lies in a region of its caller that was logged before it.
`ResultsHonest`: a row of the profile names the block that has the sampled byte,
its caller and that caller's totals and its time of life; a block that was hit
has its row; and perf's chunks give what the whole gives. DynamoRIO's script gives the
same rows or none at all: it estimates a delay from the blocks that were hit and lived
less than a millisecond, and if there was none it divides by zero
(`DynamoRIO/data_merge.py:349`), after the files are joined and before any result is
written. How long a millisecond is the model does not know, so the property is about
each set `brief` of hit blocks that may have been that short. Its conditions are
the code's limits: a process that allocates and never frees has no `myaf_` file
and no result, and samples of a child in pools it has from its parent are
dropped, because only the parent logged them.

**Bounds**: three callers, so that a new pool comes before, between and after the
others; pools that hold two blocks, so that a sample has neighbours to choose from
(`DataKey`) and a third block expands the pool, and a size that is mapped; three calls; two processes; chunks of one row, so that the first
chunk, of `ChunkRows`, and the later ones, of one more, differ. Left out: the
assertion on the number of pools, the format of the lines, the timer.

**Proved** (`StudyProofs`, first part): `OnePoolPerCaller` (theorem `CallersHaveOnePool`), for
any callers, sizes, number of processes and calls; assumed are the constants'
types, that `Alignment` is positive and that a pool is larger than a header and
the alignment. The inductive invariant is `PoolTableInv` (`PoolsStayApart`): the free
parts of the pools, the blocks with their headers and what the system maps next
lie apart (`PoolsApart`), and what is free of a pool, and each block that was cut
from one, lies in a region that was logged for its caller (`PoolsLogged`). The second part has to
follow the blocks across `pool_expand`, which logs a new region and forgets the
rest of the old one, and across `Fork`, after which two processes write lines about
the same addresses. `SearchFinds` says that the search finds a caller exactly if
the table has it; wherever an insertion puts a new pool, the others stay in the
table and no caller gets two.

### ObjectMerge

**State.** `events` are the lines of `fifo_preload` and `cachemisses.csv` in the
order of their times, `pools` the allocator of each process as far as the lines
show it (its locks and headers are `PoolMalloc`'s subject), `lives` the blocks and
their fates, which nothing but the property reads. **Actions** are those of the
program; the scripts are operators of `events`, since they run when it is over.
calloc and realloc are two steps, `Fill` and the end: calloc clears the block and
realloc copies the whole old block to the new one, and both print the line only then,
so that misses in the block may come first. Meanwhile the process's mutex is taken and
its other calls wait. A copy may go on behind a smaller new block, where a later block
will be (`Touched`).

`ObjectsHonest` compares the scripts with `lives`. It says three things that a reader
of the scripts would not guess. The longest time without a miss (`MaxNonAccess`) need
not lie in the object's life: it may begin with a miss from before the line that dates
the block. Every miss is written to `miss_<pid>.csv` twice,
because `pids` has an entry for each of a process's two files; the longest time
without a miss does not change by it, the histograms of misses do. And the
files of process 1 are also those in whose name a 1 occurs (`str(pid) in data`),
so that the objects of a process may be those of another: `Readings` is the set
of choices the order of the directory leaves, and the property is about the one in
which each process reads its own files, the only one as long as no process number
has the digits of another. The scripts end with an exception, for all processes,
if one of them has no block that counts (`Merges`).

**Bounds**: seven events, of which each process takes one: six lines and misses for one
process, five for two; a block of one byte and one of three, which is more than
`MMAP_THRESHOLD`; misses at the header and the last byte of a block, and at the first
and the last of what calloc and realloc write; chunks of one miss; process 12 and its child 1. Left out: a fork by one thread while another is in calloc
or realloc (the child's mutex would stay taken). So a block of the child can have the
address of one its parent made later, and both be complete, and missed.

### MemTrace and CacheSim

**State.** `data` is `per_thread_t` of each thread with its stream, `fifo` what
was written, `made` the references a thread really made. **Actions**: `Execute`
(an instruction and the notes in front of it, a dump where the buffer is full),
`ThreadStart`, `ThreadExit`, `ForkProcess`, `Killed`. Records are written to the
fifo whole: sixteen of 256 bytes fill the stream's 4096, and a pipe takes those
at once. The C library writes a full buffer when the next record comes (`Flushed`), so
that a stream may hold exactly a buffer. A fork copies the buffer and the stream, so the child prints the
parent's notes under its own process id and the parent's unwritten records
again; `Due` says so, and `ReferencesTraced` that this is all that is ever printed
besides the thread's own references, each once and in order, complete if the
thread exits, and short by less than a buffer and at most a stream if it is killed.

`CacheSim` simulates what is in the fifo. `ReadRecord` reads each record as two
accesses, as `main` does: the second half of the record holds no text, and
`sscanf` leaves the last access in place. `MissesHonest` compares output and sets
with a reference cache, and shows that the second reading never prints anything.
Only the first and the last line of an access are looked at, in the code, the
model and the reference. **Bounds**: two threads, buffers of two notes and streams
of three records, so that neither divides the other, and up to six references, with
which a stream gets full; a cache of two sets of two lines, and references that share
sets and cross lines.

**Proved** (`StudyProofs`, second part): `ReferencesTraced` (theorem `ReferencesAreTraced`), for any
threads, instructions, sizes of both buffers and number of references; assumed are
the constants' types. The inductive invariant is `TraceInv`: for each thread, what
it wrote, what is in its stream and what its buffer would print, in this order,
*is* what is due from it (`Owed`). A prefix and a count would not do, as a fork
copies what is in between. An instruction notes its references one after the other,
a fold, and dumps wherever the buffer fills: `NoteKeeps` is one reference, `AllNoted`
the induction over all of them, along the sets 1..n that the fold's definition
goes through.

## Findings

Four runs expect a violation: `arena_lost_lock` and `arena_shared_slot` (under
`Arena`), `arena_fork` (`ArenaFork`) and `heap_dropped` (`HeapChunks`).

## Not modelled

* The copy in `src/real_machine` (about 9300 lines) and the copies of the perf
  allocator and scripts in `DynamoRIO` and `pintools` (about 2800): the same code
  with other paths, file names and header sizes. A model of the original is a
  model of them; naming their lines as well would only inflate the count.
* In `_my_malloc.c`, of 5600 lines: more than half is comments, macros for other
  systems and declarations; `mstats`, `mallinfo`, `malloc_stats`, `do_check_*`
  (which print or assert, and are compiled out), the hooks of `malloc_check`
  (installed by an environment variable), `malloc_get_state` and
  `malloc_set_state`, `mallopt`; the `sbrk` half of `sYSMALLOc` and `sYSTRIm`,
  which only `main_arena` reaches, and that is disabled.
* `independent_calloc` and `independent_comalloc` inside the engine, and requests
  whose padding wraps: `HeapChunks` counts in unbounded integers.
* The counters of mapped chunks under several threads (see `TwoMallocs`).
* The client for Pin, the launcher, the plots, the scripts that start containers,
  and the test programs: input and output, without state to keep consistent.

## What is left to do

1. The properties of `ReuseDistance`, `CacheSim`, `ProfileMerge` and `ObjectMerge` are
   only model-checked. Each compares what a script computes from a whole file, by
   loops over loops, with its definition; what such a loop computes for every file
   is an induction over data for each of its loops.
2. `independent_calloc` and `independent_comalloc` in `HeapChunks`.
