# cicflow base: TLA+ models and proofs

cicflow is a port of Abseil's base library from C++ to C, in progress. These
modules model its concurrent and its stateful parts, TLC checks them on small
instances, and TLAPS proves the main results for every instance.

## Inventory

Only part of the tree is in the CMake build (log severity, raw logging, config,
core headers). Every file below `synchronization/` is empty. The rest of
`cicflow/base` is source that no target compiles yet; it is listed by what the
code says, with its gaps.

| Component | State | Operations | Interacts with | What is hard | What makes it correct |
|---|---|---|---|---|---|
| raw logging, records (`raw_logging.c/.h`) | a 3000 byte buffer on the caller's stack: pointer, count, text | `raw_log`, `CIC_RAW_LOG`, `CIC_RAW_CHECK`, `CIC_INTERNAL_LOG`, `do_raw_log`, `va_do_raw_log`, the write | reads the hook cells; everybody's checks go through it | buffer boundaries, `vsnprintf` errors, hooks that change while a record is formatted, the stop after EMERGENCY | no byte past the buffer, a cut is announced, a line ends, an EMERGENCY never returns |
| raw logging, hook cells | three atomic function pointers | `atomic_hook_init`, `_store_*` (load, then exchange), `register_*`, `_load_*` | written by any thread, read by loggers | races between the two accesses of a store, three writes that are not one, cells that are null at first | a store installs its function or is refused for a reason; a cell that is called through is emptied by nothing but a registration of null |
| `call_once` (`call_once.h`) | the control word of a flag | `call_once`, `low_level_call_onece` | `spinlock_wait`, `spinlock_wake` | racing callers, callers that sleep, the wait loop | one claim, no return before it, no sleeper that a claimer could not know of |
| spinlock wait (`spinlock_wait.c`, `spinlock_linux.inc`) | the futex queue of a word; the back-off word | `spinlock_wait`, delay, wake, `SpinLockSuggestedDelayNS` | `call_once` | an indeterminate local, a table length in bytes | what it returns was the value of the word |
| spinlock (`spinlock.h`, `spinlock.c`) | a lock word of four bits; the profiler cell | `try_lock_impl`, `register_spinlock_profiler`, `spin_loop` | the arenas | load, then exchange | one winner, the mode bits kept |
| low level allocator (`low_level_alloc.c`) | arenas: free list (a skip list), counts, random state; block headers with magic words | allocate, free, new and delete arena, coalesce, search, insert, delete | raw checks, the spinlock (commented out), `mmap` | what a search without its loop does to the list, magic words, overflow of sizes, counts | each level of the list agrees with the lowest, a block is on it or with a caller, the count is what is out |
| sysinfo (`sysinfo.c`) | number of CPUs, nominal frequency, thread ids | `NumCPUs`, `NominalCPUFrequency`, `GetTID`, `GetCachedTID`, `FreeTID`, `ReadLongFromFile`, TSC measurement | `call_once`, the spinlock, the file system | ids across threads, EINTR, clocks, an answer that grows between two calls | ids of live threads differ, a measurement comes from the pair of the least latency |
| endian, unaligned access | none | byte swaps, loads and stores of 16, 32, 64 bits | none | widths, byte orders of two machines | what one machine stores another loads |
| strerror, errno saver | a table of pointers | `str_error` | libc | lifetime of the text: 135 pointers into a frame that is gone | the text of the number asked for |
| log severity | none | `log_severity_name`, `log_severities`, `normalize_log_severity` | raw logging | a table against an enumeration | a name for each severity |
| cycle clock, unscaled clock | a time source pointer | now, frequency, register source | sysinfo | a counter read in halves, shifts of negative counts | a time never torn, differences right to one tick |
| mmap wrapper, `hide_ptr` | none | `direct_mmap`, `hide_ptr`, `unhide_ptr` | the allocator | bytes and pages | the offset asked for or a refusal |
| thread identity, prefetch, annotations, configuration macros, build files | none that changes | - | - | - | - |

`PROJECT.json` lists under `hazards` where this code is hard to test, line by line.

## Plan

In this order. What is done stands first.

1. `HookCells` (abstract) and `AtomicHook`, its implementation. Run: two setters. Theorem:
   the code implements the abstraction.
2. `RawLog`, composed with `AtomicHook`. Runs: one logger and one setter; two
   runs that show a disagreement. Theorems: type correctness, the safety properties, and
   that the composition still implements `HookCells`.
3. `CallOnce`, with the wait loop and the futex. Theorems: one claim, no early return.
4. `SpinLock`, the try-lock. Theorems: one winner, the mode kept.
5. `AllocMath`: `checked_add`, `round_up`, `int_log2`, levels, modulo the word.
   Theorems: a checked sum, the least multiple, the levels.
6. `BlockPool` (abstract) and `LowLevelAlloc`, its implementation: search, insert, delete,
   coalesce, allocate, free, new and delete arena. Theorems: all its safety properties, and
   that it implements the abstraction.
7. `ThreadIds`: the fallback `GetTID`, `GetCachedTID`, threads that end. Theorems: all its
   safety properties.
8. `Bytes`, `SysInfo`, `Clocks`, `Helpers`: the functions without state, run by `PureCalls`.
   Theorems: what each of them is for, for any inputs that the code can be given.

Left: what the section on what the models leave out names, as far as the code gets a body
for it. Each safety property of each run that passes is a theorem; the liveness property is
not (see below).

## What is modelled

**`HookCells`** says what the cells promise: a registration takes effect at
once; a store that has been asked for ends in one step, with its function in
the cell, or refused, and refused only if the cell changed meanwhile.

**`AtomicHook`** is the code. `cell` is the three globals, `op` is where each
setter is in a multi-access operation, with the locals `expected` and `fn`;
`StoreLoad`/`StoreCas` are the two accesses of `_store_atomic_hook_*`,
`Register` is the plain store, `InitFilter`/`InitAbort`/`InitInternal` the three
writes of `atomic_hook_init`. A registration stores whatever pointer the caller passes, null included
(`raw_logging.c:237-243` check nothing); a store does not, because of its `assert(fn)`. `raced` is a history variable: did the cell
change since this store's load. The refinement keeps `cell`, `ret` and `raced`
and maps `op` to the store that is wanted.

**`RawLog`** extends it with loggers. `pc` is the place in `raw_log_va`;
`cur` is the buffer as a cursor: `off` for `buf`, `size` for the count, `len` for
the C string in the buffer (`LOG_BUF_SIZE` if there is no NUL), `tail` for what that
string ends with. `vsnprintf` is external: it stores at most `size - 1` characters
and a NUL, and returns the full length, or fails after any part of the text.
`status` is the process: running, aborted, dead of a call through an empty
cell, or past `CIC_UNREACHABLE`. The cells are read again at each call through
them. `INFO` stands for all severities but `EMERGENCY` and `FATAL`; the
macro exists only for the severities that `raw_logging.h:15-18` names. A filter hook writes to
the buffer by `do_raw_log`, as the default one does, and `vsnprintf` may fail there and at the end
of the line too. The guards for a negative size (lines 54 and 75) leave everything alone and the
size is never negative, so they are a comment in the model. The application's
own internal log function has no effect on the model's state.

**`CallOnce`** has the control word, the callers' places and the futex queue
(`pc = "asleep"`). The local `v` of `spinlock_wait` is never assigned
(`spinlock_wait.c:17`): each iteration takes any word. The table's length is passed in
bytes, so a word that matches no entry may match one of `Stray`, entries of the
memory behind the table. Those may start from any word and lead to any word: also from
`ONCE_WAITER`, which the table does not list, and back to `ONCE_INIT`. The exchange after the claim works on the
local `old_control` (`call_once.h:48`) and leaves the flag alone, so in this code the
word never becomes `ONCE_DONE` but by an entry of the table, and the function
to call is never called. `claims` counts how often the word was taken since it last became
`ONCE_INIT`, `claimed` says that it ever was, `overrun` that an entry from behind the table has
written it, and `held` which words it has had; all four are history variables.

**`SpinLock`** has the lock word as a set of bits. There is no unlock in the code.

**`LowLevelAlloc`** is one arena and the thread that calls it. A block is named by the
address of its header, `mem` holds the list heads (`next`, `levels`), the headers (`size`,
`magic`), `allocation_count`, and `asked`, a history of what the caller of a block asked for.
Each operation is an operator that gives the set of its outcomes, and `Then` goes on from those that
are still running: a failed `CIC_RAW_CHECK` is `"check"`, a search that never ends
is `"hung"`, a wild access is `"fault"`. This is what the code does, not what Abseil's
allocator does:

- `lla_skip_list_search` looks at `prev[0]` again and again and never moves along the list, so it
  ends only if the first block of each level is not below the address. Before the first search
  in a call `prev` holds anything, so that one may end whatever there is. A block goes in front of all others: the list is in
  the order of insertion, where `low_level_alloc.c:238-239` assert the order of addresses. An
  allocation that comes across the disorder fails its check.
- `coalesce` on a block with a neighbour deletes the neighbour, which is never the
  first of the list, so the check of `lla_skip_list_delete` stops the process. `coalesce(prev[0])`
  is `coalesce(head)` and merges nothing. So two free neighbours in memory are either two
  blocks for good or the end of the process.
- What is left of a split block is handed to `add_to_free_list` at its start, where that
  function looks for a header below; so is each new mapping (`low_level_alloc.c:330`). Both die.
- The three global arenas are zeroed storage, as nothing calls `create_global_arenas`; any request
  fails in `round_up` there, so `new_arena` never comes back.
- The address that the allocator returns is not one it accepts back (`FreeReturned`).

No public path ever fills a list. `Seed` therefore hands a region to `add_to_free_list` with the header that
`low_level_alloc.c:327-329` writes and at the address it takes: it is the state in which
the rest of the code can be looked at. `Free` likewise gives back the address that `low_level_alloc_free`
takes, though no call returns it. Both are callers of the model (external, not code), and callers do not write into
their blocks: `low_level_alloc.c:348` returns the start of the block, so a caller that did would write over the header. `init_arena` leaves `min_size` as it was: `MinSizes` are the
values it may have. The random generator gives any number from one up. A block may be smaller than
the links of the list element: its `max_fit` wraps and it gets as many levels as any other. `AllocAssumption` then
keeps the next block away from where its links run; what a link that runs into another header would do is
left out.

**`BlockPool`** is what an arena promises its callers: a set of free blocks, and the blocks that
callers hold with what they asked for. Which free block a `Take` gets is left open. A split or a
merge would not be a step of it; the refinement `Pool` says there is none.

**`AllocMath`** is the arithmetic, modulo `WordSize`; `Failed` is a failed check. A mask with
`~(align - 1)` is written as the remainder it clears.

**`ThreadIds`** follows a thread through `call_once`, `pthread_getspecific`, the search in
`tid_array` and `pthread_setspecific`. The declarations of `tid_array` and of `tid_lock` are inside a
comment, so they are external. The lock makes the search one step. `tid_array` starts in
either of the two ways the comments give: null (line 341), or one word with bit 0 taken
(lines 363-364), which `words` and `marks` tell apart. A search on null is a `"fault"`. `call_once` does what module
`CallOnce` found of it and what it is meant to do: it may run `InitGetTID`, come back without having run it, or
not come back. Without the key `pthread_getspecific` gives 0 and `pthread_setspecific` fails. `given` is a history of what the
search gave a thread. `FreeTID` gives nothing back, so ids only grow. A failure of
`pthread_key_create` or `pthread_setspecific` ends the process.

**`PureCalls`** calls each function without state with each of its bounded inputs, and
compares what it returned with what it is for. The functions are in `Bytes`
(`endian.h`, `unaligned_access.h`, `hide_ptr.h`), `SysInfo` (frequency from files, the
registry, sysctl or measurement, the processor count), `Clocks` (the scaled and unscaled
cycle clocks, the delay of the spinlock), `Helpers` (severities, errno texts, `direct_mmap`).
A word is the sequence of its bytes, and where its bits count (`hide_ptr`, a mask of processors) a
byte or a mask is the set of its bits that are one. A file is the sequence of the answers of
`read`, a counter the sequence of its values at the moments it is read. A delay's random part is the remainder
by the delay, a power of two, that its mask leaves. The loops are functions of the number of
rounds made. `PureCalls` also states, as named assumptions, what inputs the code can be given:
`TimeBaseAssumption` a counter that does not go back, `File` a file of `/sys` that shows a number, is
blank (a new line first, which line 169 takes for a 0), or has something else where a digit should be, and so
on. `str_error` gives two outcomes: its pointer leads into a frame that is gone, so a caller finds what the
last call formatted there, or anything that has been put on the stack since.

## Runs

| Run | Instance | Shows |
|---|---|---|
| `hooks` | 2 setters, 2 functions and null, 130528 states | `ImplementsHookCells` |
| `raw_log` | 1 logger, 1 setter, a buffer of 6 bytes, a notice of 2 characters and its NUL, prefixes of 1, 3, 5, 6, 7, messages of 0 to 7, 327909 states | `TypeOK`, `BufferInBounds`, `PrefixKept`, `OverflowAnnounced`, `OnlyAFullBufferLosesTheEnd`, `EmergencyNeverReturns`, `OnlyARegistrationEmpties`, `EmergencyStops` |
| `call_once` | 3 callers (interchangeable), one unnamed word, six stray entries from it and from `ONCE_WAITER` to every word but `ONCE_RUNNING`, 8002 states | `TypeOK`, `AtMostOneClaim`, `AnnouncedSleep`, `ReturnOnlyAfterClaim` |
| `spinlock` | 4 threads, both modes, 126 states | `AtMostOneWinner`, `ModeKept` |
| `alloc` | blocks of 64 and 96 bytes, adjacent, and of 36, less than its own links; requests of 0, 1, 33 and 4095 bytes in a word of 12 bits; 4 levels; least sizes of 0 and 96; each kind of arena; 17919 states | `TypeOK`, `LevelsAgree`, `MagicTellsOwner`, `CountIsBlocksOut`, `BlockHoldsRequest`, `ImplementsPool` |
| `thread_ids` | 3 threads, words of 2 bits, at most 6 ids, both starts of `tid_array`, 62127 states | `TypeOK`, `LiveIdsDiffer`, `OneIdPerThread`, `CacheAgrees` |
| `pure_calls` | the inputs in `MCPureCalls`, 31521 states | `WireOrder`, `HiddenAndBack`, `RoundUpLeast`, `FrequencyFromFiles`, `LeastLatency`, `StableOrLast`, `CpuCount`, `DelayGrows`, `ClockScale`, `TimeBaseNotTorn`, `MmapOffset`, `NamesTellApart` |
| `raw_log_fatal` | 2 loggers | a violation of `FatalNeverReturns` |
| `raw_log_cut` | 1 logger | a violation of `CutMessageIsMarked` |
| `call_once_wait` | 2 callers | a violation of `WaitReturnsAWordHeld` |
| `alloc_pages` | as `alloc` | a violation of `NewPagesReachTheList` |
| `alloc_order` | as `alloc` | a violation of `FreeListOrdered` |

Why the bounds are enough. Two functions let a cell change and change back
between the accesses of a store, and two setters are all that a race needs. The
formatting looks at nothing but how a length compares with the room left and with the
notice; six bytes, a notice of three with its NUL and these lengths give each outcome of each
comparison, on an empty buffer, with one byte left, and with none. Loggers share
nothing but the cells, so one is enough; the proofs are for any number. Three callers give
a claimer, one that waits and one that wakes up or comes late. The properties themselves say that
`claims` and `winners` stop at one.
Three blocks make a list with a first, a middle and a last one, in any order and with
different heights, one pair that could be merged, and one block whose room for links wraps; a request fits two blocks or
one of them or none, and 4095 overflows the word. Words of two bits and six ids fill two words and
start a third, while a third thread comes late; one of the ids is the 0 where it is reserved. `MaxIds` (in `Room`, part of the guard of `Call`)
is the only bound on a counter. The pure functions are compared on
both sides of each boundary in them: the end of a word, an alignment of 0, a second, a page, the last page an
unsigned long can name, a sign, the sign of half a time base, a table. Constants that stand for large numbers are small there and named in
the `.cfg` (`INT_MAX`, `Half`, `Ulong`); a frequency file shows at most `TopKHz`, a number of three digits; 4 rounds are measured, not 8.

`raw_log`, `alloc`, `thread_ids` and the violation runs of their modules do not check for
deadlock: the process stops there, after an `abort`, a failed check or a fault, and
`thread_ids` at its bound.

### What the violations show

- **FATAL returns.** `raw_log_va` stops the process for `CIC_LOG_EMERGENCY`; the
  macros put `CIC_UNREACHABLE()` behind `CIC_LOG_FATAL`. So each failed
  `CIC_RAW_CHECK` reaches it.
- **A message that is one character too long is cut in silence.** At
  `n = *size` the comparison `n > *size` does not see the cut.
- **The wait loop returns a word nobody wrote.** With `v` unassigned,
  `call_once` can come back with `ONCE_DONE` while the word is `ONCE_RUNNING`.
- **New pages do not reach the free list.** The comment at `low_level_alloc.c:331` expects
  `add_to_free_list` to put them there, but the call hands over `&s->levels`, the start of the block, and the header
  is looked for below it.
- **The free list is not in order.** `low_level_alloc.c:238-239` assert that each block lies
  behind the one before it; the search never leaves the head, so each insertion goes in front. This run, like `alloc`, starts from regions that the caller
  of the model hands over.

Four more disagreements are in the models and have no run of their own:

- `low_level_alloc.c:268-269` mean to merge a new free block with its successor and its
  predecessor. The first is found only where it is next on the list (and then the process ends), the
  second is always the head, so two free neighbours stay two. No property of `alloc` says otherwise:
  `BlockPool` counts blocks and does not say how they lie.
- `sysinfo.c:361` says that `tid_array` is initialised; the line that did it is a comment, so it
  stays the null pointer of its declaration, and the first search is a `"fault"` (`SearchNull`).
- `sysinfo.c:344` says that `FreeTID` returns the id to `tid_array`; it computes a word and stores
  nothing, so the bits of threads that have ended stay set (`Exit`). The properties of `thread_ids` hold whether
  ids are given back or not.
- `str_error` has a table that points 135 times to the local of a function that has returned, so
  its caller reads the text of another number or anything else (`Helpers.str_error`).
  `strerror_test.c:16` has the expectation, in a comment, that the text is `strerror`'s. No property speaks of the text.

## Fairness

One property needs fairness, `EmergencyStops`. `RawLog.FairSpec` assumes weak fairness for each logger's steps
within a call: a thread in the middle of `raw_log_va` is never blocked, the code has no
lock or wait there, so the scheduler runs it on. Nothing makes a thread start a call, and
nothing is assumed of the setters. `ThreadIds` and `CallOnce` have no fairness, for their callers may
wait for ever: the loop of `spinlock_wait` never reads the word it waits for.

## What is proved

All proofs are for any number of threads, any lengths, any words.

- `AtomicHook_proofs`: `Implements`. Each access is mapped to a step of `HookCells`: the load to
  `Ask`, the exchange to `Install` or `Refuse`, each plain store to `Set`. The invariant
  it needs is that a store which has not been raced finds what it expects (`Unraced`), so
  that an exchange that fails may be refused. `NullAssumption`: the null pointer is not a
  store.

- `RawLog_proofs`: `TypeCorrect`, `Bounds`, `Prefix`, `Announced`, `EndLost`, `NoReturn`, `OnlyRegistered`, and
  `LoggersOnlyRead`: the composition with any number of loggers implements `HookCells` too.
  The assumptions are those of the modules: a buffer and a notice of at least one byte,
  lengths are natural numbers, the functions and the null pointer differ.
  The bounds alone are not inductive: the invariant `IInv` also says, for each place in
  `raw_log_va`, that the string ends where the cursor is or before it, and at `"write"`
  within the buffer, and how the message's length and the room it had
  bear on the cursor. Lemmas about the formatting operators carry it
  (`StoredOK`, `PrintedOK`, `DoRawLogOK`, `VaDoRawLogOK`, ...).
- `CallOnce_proofs`: `TypeCorrect`, `OneClaim`, `ClaimFirst`, `SleepIsAnnounced`. `WordAssumption` says that the four
  words differ and that the stray entries are entries; what those hold is arbitrary. So the flag
  can be made free again by what happens to lie on the stack, and `AtMostOneClaim` and `AnnouncedSleep` say
  that this is the only way it can. The invariant ties a claim to `claimed`, and each caller beyond the first exchange
  too.
- `SpinLock_proofs`: `OneWinner`, `ModeSurvives`. The invariant says that a thread goes for the
  exchange only with the value of the free lock, so an exchange that fails has found it held.

- `ThreadIds_proofs`: `TypeCorrect`, `LiveIds`, `OneId`, `Cache`, for any width of a
  word. That ids differ is not inductive: `IInv` adds that every id given is marked, that
  0 is marked wherever there is an array and is given to nobody,
  that a thread searches only while its key holds nothing, and that the id it has is
  under its key or on the way there. `FreeIdOK` says that the id found is free and within
  the grown vector.
- `AllocMath_proofs`: `CheckedAdd`, `RoundUp`, `LevelsOK`, for any width of a word, any
  alignment that divides it and any random number. `LevelsOK` bounds the levels on both sides: by the links that
  the block has room for, and by none only where there is no room for one. `MathAssumption` says that two headers and the least size of an
  alignment fit in a word. `Descent` (a set of numbers that has a smaller one for each is
  empty) stands in for induction here and below: a function by recursion has a value at all
  only because there is no least number without one (`LogOK`, `RoundedOK`).
- `LowLevelAlloc_proofs`: `TypeCorrect`, `LevelsCorrect`, `MagicCorrect`, `CountCorrect`, `RoomCorrect`,
  and `PoolImplemented`, for any number of blocks, any sizes, heights and
  requests and any width of a word. `AllocAssumption` says that blocks lie apart in memory and in a
  word, have room for more than a header, that the links of a block too small for them run into no other, and that
  a fresh mapping is none of them. `Inductive` is the
  invariant the others follow from. None of them is inductive alone: a push
  that keeps the levels in agreement has to know that the block is on no list, which is what
  magic words and the callers' blocks say. So `IInv` has these parts:
  - `SizesInv`: the head has size 0 and no header has lost its size, as nothing is ever split or merged;
  - `ListInv`: the links of every level are those of one sequence of blocks without repetition
    (`Listed`), in any order; the blocks in it are those that are marked free, and the head is as high as the highest;
  - `OwnerInv`: a block that a caller holds is marked allocated and has room for the request;
  - `CountInv`: the count is the number of blocks that callers hold;
  - `ArenaInv`: the alignment of an arena is at most the word.

  The argument has three stages. The outcomes of each operator (`SearchOutcome`,
  `InsertOutcome`, `CoalesceOutcome`, `AddOutcome`, `AllocOutcome`, ...) come down to a few: the process
  ends, a block goes on the front of the list, the first block that is large enough
  comes off, the arena is deleted. `PushListed` and `PopListed` say that the
  list stays a list on each level. `StepOutcome` then sorts the actions by these outcomes, and each of
  them (`EndingStep`, `SeedingStep`, `FreeingStep`, `TakingStep`, `ClosingStep`) keeps the
  invariant and is a step of `BlockPool` or none.
- `PureCalls_proofs`: a theorem for each property of `pure_calls`. Each call sets out from nothing,
  so no invariant is needed: what has to be shown is that a function returns what it is
  for. The loops need one each: `Loop` says that a loop has a state after each round, `Upto` that what
  a round keeps holds after all (`LeastOK`, `ProcessorsOK`, `SleptOK`, `SleepOK`, `DecimalReads`,
  `StrtolOK`). Widths, numbers of readings, entries, digits and attempts are arbitrary; the assumptions
  are those of `PureCalls`, which TLC evaluates for the inputs of the run. `Remainder` and `PagesKept` carry the offset that `mmap2` loses
  its upper part of, `RoundUpZero` the alignment of 0, `BlankOK` the blank file. `Rounds` is at most the 8
  of the code, as an eleventh would sleep for the second that `nanosleep` refuses; `kMinDelay` is a power of two,
  of which 32 are less than a second.

Only model-checked: `EmergencyStops`, which is liveness under fairness. The five
properties that a run shows violated have no theorem.

## What the models leave out

- Memory orders weaker than sequential consistency. The properties of the cells, of the
  flag and of the lock are each about one word.
- The text itself, and whether the write succeeds: the code ignores its result.
- `CIC_MIN_LOG_LEVEL` (`raw_logging.c:107-113` has unbalanced parentheses, and line 116
  overwrites `enabled`), the emscripten branch (misspelt names) and the build without
  low level writes.
- That a waiter of `call_once` comes back. It does not: the word
  never becomes `ONCE_DONE`, and the loop may go round for ever.
- `vsnprintf` failing without closing the string, and a filter hook that writes to the buffer
  by other means than `do_raw_log`.
- A null pointer passed to a store in a build without assertions.
- Callers that write into their blocks (see `LowLevelAlloc`).
- A second thread in an arena. The lock of `low_level_alloc.c` is commented out, so two
  threads in one arena race on each field and nothing can be promised.
- `NumCPUs`, which never assigns its variable, and `NominalCPUFrequency`, which calls a C++ name the tree
  does not have; the one-line `GetTID` of the systems with a call for it.
- A read that comes back short, and a file whose number stands behind a new line.
- A registered time source: `Register` has no body. Models take a source as given.
  The misspelt `CYCLE_CLOC_KSHIFT` is read as the right name. FreeBSD's time base frequency stays 0, for the
  call that would set it is a comment.
- What is in the frame that `str_error` points into: one value stands for anything put there since.
- The unit of `mmap2` is taken to be the page.
- Numbers in a file that a `long` cannot hold.
- A loop in `do_alloc_with_arena` after new pages: it never comes to a second round.

### Not modelled

- Thread identity and `low_level_scheduling.h`: declarations, no function that changes state.
- Prefetch, sanitizer and thread annotations, attributes and configuration macros: preprocessor text,
  with no state of the program. About a third of the lines of the tree are of this kind.
- `synchronization/`: every file is empty.
- Build files.
