# A verification of leak_detector

TLA+ specifications of the leak detector in `src/`, the TLC configurations that
check them, and TLAPS proofs of the properties that hold for every value of the
constants. References such as `leak_analyzer.cc:141` are to files under `src/`.

    tlc -config MCLeakDetectorImpl.cfg MCLeakDetectorImpl.tla     # a run
    tlapm LeakDetectorImplProofs.tla                              # a proof

## The system

The program replays a recording of allocations and frees (`main.cc`) and looks
for leaks in it, in two tiers. Tier 1 watches the net number of allocations of
every size class; a class that keeps growing faster than the others gets a
table, and tier 2 watches, in the same way, the call stacks that allocate from
that class.

| component | state | operations |
|---|---|---|
| `RankedList` | entries in descending order of count, a maximum size | `Add`, move assignment |
| `LeakAnalyzer` | the last ranked lists, a score per suspected value, the reported values | `AddSample` (with `AnalyzeDeltas`), `Dump` |
| `CallStackManager` | a hash set of pointers to call stack objects | `GetCallStack`, destructor |
| `CallStackTable` | net allocations per call stack, an analyzer | `Add`, `Remove`, `TestForLeaks`, `Dump` |
| `LeakDetectorImpl` | the address map, counters and a table per size class, an analyzer of sizes, statistics | `RecordAlloc`, `RecordFree`, `TestForLeaks`, destructor |
| hooks and lifecycle (`leak_detector.cc`, `hooks.cc`) | the detector, its lock, the bytes allocated so far and at the last test | `Initialize`, `Shutdown`, `NewHook`, `DeleteHook` |
| replay (`main.cc`) | the position in the input | one record per turn |
| `CompactAddressMap` | clustered map from addresses (no longer used by the detector) | `Insert`, `FindAndRemove`, destructor |
| `LowLevelAlloc` | arenas, each with a skip list of free blocks and a count, and kept in a block of another | `AllocWithArena`, `Free`, `NewArena`, `DeleteArena` |
| `CustomAllocator` | the arena in use, or that unit tests do without | `Initialize`, `InitializeForUnitTest`, `Shutdown`, `Allocate`, `Free` |
| hash functions (`base/hash.cc`) | none | `Hash`; `HashStep`, `HashFinish` |
| value type, lock wrapper, logging | none, or a flag | pure functions and output |
| leaky program (`leak_detector_impl_unittest.cc`) | two grids of points, its allocations, the bytes at which the next analysis is due, the reports so far | fill, place roots, clear; `Alloc`, `Free`, analysis |

How they interact: the replay calls the hooks; a hook samples addresses, takes
the lock and calls `RecordAlloc` or `RecordFree`; after an allocation it calls
`TestForLeaks` once enough bytes were allocated. `TestForLeaks` passes a ranked
list to the size analyzer, creates tables for the sizes it suspects, and lets
each table rank its call stacks for an analyzer of its own. The tables and the
address map hold pointers to objects that `CallStackManager` owns, which it
tells apart by their hashes first. All of them live in one arena of the custom
allocator, which `Shutdown` deletes after the detector. A verbose test for leaks
dumps the analyzer of sizes and every table into a buffer of fixed size. The leaky
program is the unit test that exercises both tiers at full size: it calls
`RecordAlloc` and `RecordFree` itself, in place of the hooks.

What is hard in this code: long sequences of calls that must keep three views
of the heap (address map, counters, tables) in agreement, with tables coming
into being in between; scores that depend on several samples in a row and on
exact boundaries (first sample, steep drop, ties, list at capacity); state that
goes stale while a table is empty; an order of iteration nobody fixed; memory
the caller reuses; hashes that collide, with null code addresses in particular;
lengths returned by `snprintf` that are subtracted from an unsigned rest; a
loop that only learns of the end of its input from a read that failed; a depth
that nobody compares with the array it is copied to; an arena
that can only be deleted when everything in it was given back; entries, pages
and blocks that are recycled. There is little
concurrency: the program has one thread, and the lock in the hooks is an empty
class in this build (`spin_lock_wrapper.cc`), so the hard orders are those of
calls, not of threads. `PROJECT.json` lists every such hazard at its line, with
the property that would catch it going wrong.

What makes the components correct:

- `RankedList`: it holds the top entries of what was added, however it was cut.
- `LeakAnalyzer`: it suspects what leads the others, and reports what was
  suspected often enough in a row.
- `CallStackManager`: one pointer, one call stack; memory is given back.
- `CallStackTable`: counts add up, the iteration order does not decide.
- `LeakDetectorImpl`: the views of the heap agree; reports are of live memory;
  a program that leaks is found out, and one that does not is left in peace.
- dumps and reports: their texts stay in their buffer.
- hash functions: hashing in stages is hashing at once.
- hooks and lifecycle: an address is sampled alike when allocated and freed;
  the detector is not used after `Shutdown`, which leaves nothing behind in the
  arena; tests come at their interval, and at the first recorded allocation
  after it.
- replay: the loop ends and the detector is shut down, whatever the file holds,
  as long as the depths in it fit the array of the hooks; counts exceed what is
  live only by addresses that came again.
- `CompactAddressMap`: it behaves as a map; entries are in one place; its size
  is never less than its number of entries; its destructor finds what it made.
- `LowLevelAlloc` and `CustomAllocator`: the blocks of all arenas tile the mapped
  memory, neighbours are merged, an arena without allocations can be deleted and
  leaves nothing mapped; every arena is a first-fit allocator.

## The modules

**RankedList** has the operations of the list as operators: `UpperBound` and
`Add` follow the code, `Ranking` is the reference, a definition by ranks
(`RankOf`: how many entries have a larger count, or an equal one and came
first). `HoldsTheTop` in **CallStackTableSpec**, checked there and proved, says
that the two agree for every order in which a table may offer its entries, so
that modules which only need the outcome of a loop of `Add` calls use `Ranking`. (The move assignment occurs
only in `AddSample`, as part of which it is modelled.)

**LeakAnalyzer** has the analyzer as a record of its members and `AddSample` as
an operator on it. `AddSample` is built from one operator per paragraph of the
code: `Deltas`, `CurrentSuspects`, `UpdatedHistogram`, `SuspectedLeaks`. Values
are naturals, whose order is the one the code's ordered containers use.
**LeakAnalyzerSpec** feeds one analyzer arbitrary samples.
**SuspicionRuns** is the abstract specification: every sample suspects fewer
values than it can rank, and a value is reported while it has been suspected in
the threshold number of samples in a row.

**CallStackManager** models memory: the arrays of code addresses, the objects,
and the caller's array that every call overwrites. `GetCallStack` looks up a
temporary object that points into the caller's array by stored hash and
contents, and copies the stack only when nothing is found. Blocks come from an
allocator modelled after `CustomAllocator::Allocate`. The hash is a parameter,
`StackHash`, so that the proofs are about any hash function.
**CallStackHashing** gives it the hash of the frames' bytes, by **Hashing**,
which has the functions of `base/hash.cc` on 32-bit words, kept as pairs of
16-bit halves; all frames that are null hash to 0 whatever their number, so
that collisions need no invention in the run. Exclusive or of two halves is a
parameter, `Xor16`, of which the proofs use no more than that 0 and 0 give 0
(the prover has no bitwise operators); **MCCallStackManager** gives it the real
one. The main loop of `Hash` is a recursive function, by the number of words, and
so is that of `HashStep`, which has a copy of its own as in the code
(`StepWord`, `StepRest`), so that the two could differ.

**CallStackTable** has the table as a record; `RankedLists` is the set of lists
that `TestForLeaks` may build, one per iteration order of the hash map.
**Dumps** has the lengths that `CallStackTable::Dump`, `LeakAnalyzer::Dump` and
the report of a suspected call stack of a given depth print, the rest of the buffer as the
program reckons it (unsigned, so that it wraps), and how far the buffer was
really written. **CallStackTableSpec** runs one table, builds its ranked lists
by calls of `Add` as the code does, and dumps it in every state. (Two things a
reader of the source may trip over: the header comments of `Dump` promise the
number of bytes remaining, and the code returns what it wrote; and the dump of
an empty table returns the size of the buffer, which does no harm as
`TestForLeaks` skips empty tables.)

**LeakDetectorImpl** composes the table and the analyzer into the detector:
`RecordAlloc`, `RecordFree` and `TestForLeaks` are one action each, for the
calls happen one at a time under the lock. The counters the constructor
leaves uninitialized start from any value in `Uninitialized`. A call stack is a
number that stands for its pointer, as `CallStackManager` is checked to allow.
**LeakDetectorImplProperties** states its properties.

**LeakDetector** composes the detector with its environment: `Initialize` and
`Shutdown` (the destructor included), the registry of hooks (`InvokeNewHook`,
`InvokeDeleteHook`), and the hooks themselves with the sampling of addresses
and the interval between tests. `NewHook` ends with a test for leaks, which is
a step of its own, `MaybeDumpStatsAndCheckForLeaks`; `in_new_hook` makes it the
only possible one, as the caller is still in the hook. The variable `blocks`
has what the detector holds in its arena, block by block: the lock, the
detector, tables, nodes of the hash tables, call stacks and their frames; the
destructor gives back what it finds through the members. The variable `heap` is
a history: the addresses in use, and whether a hook was registered when they
were allocated; `last_record_size` is another, of the bytes counted when the
latest allocation was recorded. `FitsStackTrace` says which depths the array
of `SetCallerStackTrace` has room for (`TraceRoom`, 32 in the code, which never
asks); `GetCallerStackTrace` returns of such a stack as many frames as it is
asked for. **LeakDetectorSpec** is a client that starts and stops the
detector and allocates and frees as it likes, also before and after, with
stacks that fit. Which
addresses are sampled is a parameter, to which the runs give what
**PointerHash** computes for three concrete addresses: `PointerToHash`, a
product modulo 2^64 of which the upper byte counts.

**LeakyProgram** composes `LeakDetectorImpl` with the program of test
`JuliaSet`: points on a grid, whose fifth roots become the points of the next
grid; with a leak, two of the five roots replace points that nothing else
refers to. Where the roots fall is the only thing taken from the arithmetic on
complex numbers, and it is a parameter: five sectors, and any place in them.
`Alloc` may make an analysis due, which is a step of its own; every other action
waits for it. The program allocates while there is an address left. **MCLeakyProgram** has the sizes and call stacks of the test.

**Replay** composes `LeakDetector` with the loop of `main.cc`. The file is
chosen while it is read: every turn takes a complete record, a truncated one or
the end of the file, into the same union as the turn before. `eof` becomes true
with the read that failed, and the turn it happens in still delivers the union.
The depth of a record is any of `Depth`, and so is the one memory holds at first,
which is used when the file ends within the first allocation. A depth beyond
`TraceRoom` may do no harm, or leave the program `"lost"` (`DeliverTooDeep`): an
array of that size may not exist (a negative depth is converted to a huge one),
and the copy goes beyond its target. Nothing is said of a lost program.
`alloc_read` and `deep_read` are histories, for the property to say which files
may end that way.

**CompactAddressMap** keeps the four levels of the structure (the hash table of
clusters, subclusters, pages, blocks) with the index arithmetic of the code; an
entry is a number, and a block is the sequence of the entries in its chain.
`Insert`, `FindAndRemove` and the destructor are one action each; `New` counts
what the first two create on their way. `Entry::Store` cuts the size to its
width. **AddressMap** is the abstract specification, a plain map that keeps
sizes modulo that width; the arguments of the latest call are a history
variable of both, so that a step has to be the same call there;
**CompactAddressMapProperties** has the refinement mapping and the invariants.

**LowLevelAlloc** has the arenas, each with the headers of all its blocks, and
the pointers of the free ones as the skip list has them, level by level.
`SkiplistSearch`, `SkiplistInsert`, `SkiplistDelete`, `Coalesce` and
`AddToFreelist` are operators on such a heap; `Alloc`, `Free`, `NewArena` and
`DeleteArena` are what the code offers. `NewArena` takes a block for the Arena
object from the static unhooked arena, by whose address the new arena is known,
and `DeleteArena` gives it back. The regions that `DeleteArena` unmaps are those it
comes to on the lowest level of the list (`BlocksAfter`), so that one the list
had lost would stay. A request is never 0, for which `DoAllocWithArena` returns
null and changes nothing. Levels are drawn from `Random`, and a region
may be mapped anywhere. **CustomAllocator** is their client: one arena, from
`Initialize` to a successful `Shutdown`, again and again, with spells of the
unit tests' mode in between, in which blocks come from `new`. **FirstFit** is
the abstract specification of an arena, which knows neither blocks nor lists,
only which memory is mapped and allocated; **LowLevelAllocProperties** has the
mappings to it, of the allocator's arena and of the one that holds its Arena
object, and the conditions the code checks at run time (`RAW_CHECK`) as
invariants.

Some definitions are preceded by a *faulty variant* of themselves, with a
plausible bug such as a dropped condition. No specification uses them; they are
there to see that each property fails once the variant takes the place of the
definition. `PROJECT.json` pairs each property with one, under `mutants`.

## What the runs show

| run | instance | shows |
|---|---|---|
| `leak_analyzer` | 4 values competing for 3 places, counts 0, 1, 3, 4 samples, threshold 2 | `SuspectsLead`: a sample raises the scores of the smallest group of values that each grew more than twice as much as all others, and nothing else; `HistogramHasRoom`, `ScoresTakeTime`; `ImplementsSuspicionRuns` |
| `call_stack_manager` | 5 stacks over two code addresses and null, prefixes and permutations of each other, two pairs of which have the same hash, 10 blocks | `PointersIdentifyStacks`, `DestructorFreesWhatItOwns`; `HashesInStages`: `HashStep` and `HashFinish` come to what `Hash` gives |
| `call_stack_table` | 4 call stacks for 3 places, 5 adds, 1 effective removal (and any of unknown stacks), 3 tests; a buffer of 316 bytes, call stacks of up to 14 frames | `HoldsTheTop`: the list a test builds equals the reference ranking, through refusals, ties and cuts; `EntriesAddUp`, `OrderDoesNotDecide`, `SuspectsHoldMemory`; `DumpFits`: no dump and no report of a call stack of any depth is cut or written past the buffer's end |
| `leak_detector` | 4 addresses, 2 sizes, one of them beyond the size classes, 2 call stacks, 5 allocations, 4 tests, both thresholds 1 | the three views of the heap agree (`NetAllocsAreLive`, `TablesCountLive`), call stacks are owned, reports take their time and are of live memory, the printed net size follows the live bytes, tier 1 implements `SuspicionRuns` |
| `lifecycle` | two sampled addresses, one that is not, and null; 2 sizes, 32 bytes allocated, a test every 8 bytes | `MapIsSampledHeap`: the detector knows the sampled part of the heap since it was started; `NothingIsLeftBehind`: the arena is empty when `Shutdown` deletes it; `TestsKeepTheirInterval`: tests are more than an interval apart, and none is put off beyond the first recorded allocation it is due at; `ShutdownIsFinal` |
| `replay` | the same addresses, files of up to 5 records, truncated anywhere, addresses come again while in use; depths of 0 to 3, of which 0 and 1 fit, and for 3 there is no array | `ReplayEnds`, with the arena empty, for all files but those with a depth that does not fit or whose first allocation is cut off; `RepeatsCountOnce` and `CountsCoverLive`: counts are too high by what was repeated, never too low |
| `address_map` | 4 addresses that share a block, the indices of page and block, or a chain of clusters; entries made in batches of 2; a size beyond its width | `ImplementsAddressMap`, `EntriesHaveOnePlace`, `SizeCoversMap`; `StatsTellStructure`: the counters and the list of objects agree with what there is, and walks are short |
| `low_level_alloc` | 64 words, pages of 8, regions of 16, three request sizes and that of an Arena object, four levels | over both arenas: `BlocksTileMemory`, `FreelistWellFormed`, `EmptyArenaIsAllPages`; `ImplementsFirstFit` |
| `leaky_program` | test `JuliaSet` with its sizes, call stacks, thresholds (4 and 4), 18 size classes and rankings of 16, with and without a leak; 25 cells, four ways the roots may fall, 6 iterations, an analysis every 600 bytes | `OnlyLeaksReported`, though every grid makes the program grow; `LeaksAreReported`: both leaking call sites are reported by the time it ends |

Three runs end in a counterexample, each a place where a comment says something
else than the code does:

- `drop_by_half`: "by 50% or more" (`leak_analyzer.cc:140`), but a delta of
  exactly half is not taken for a drop (line 141).
- `larger_sizes`: "Any larger sizes are ignored" (`leak_detector_impl.cc:31`),
  but `SizeToIndex` sends them to class 0, where they are counted and ranked.
- `empty_table`: "Number of consecutive times a call stack must trigger
  suspicion" (`leak_detector_impl.h:138`), but a test skips an empty table
  (`leak_detector_impl.cc:218`), whose scores stand still and go on later.

### Bounds

Bounds are constants that stand in the guards of actions: `MaxAdds`,
`MaxSamples`, `MaxAllocs`, `MaxFrees`, `MaxTests`, and the number of addresses.
They stand for an input of finite length: once it is used up the specification
stops, so these runs do not treat that as a deadlock; the leaky program really
ends. Where a step is always possible, or the bound is on what is in use at a
time (`lifecycle`, `address_map`, `low_level_alloc`), deadlock is checked. The
runs `leak_detector` and `lifecycle` split what they ask: the first lets any
calls reach the detector, the second only those the hooks make. The bounds are
large enough for the interesting cases: lists overflow and tie at the cut; a
value is suspected, loses its score and is suspected again; in `leak_detector`
a class is profiled from the second test on, allocations made before and after
that are freed in either order, a report needs four tests and happens, and both
classes get tables. Addresses are interchangeable (symmetry), as no property
names one.

`call_stack_table` has a buffer of exactly the bytes that the longest dump of
three ranked entries and a suspect takes, as there is no list to limit in
`DumpFits` but the ranking; 14 frames are the most of which it holds a report. The buffer of the code (16 KB, for rankings of 16)
has room for some hundreds of entries and frames more, so that the run is the
tightest case of the same arithmetic, in which one entry too many shows.

`replay` has an array of one frame (`TraceRoom`) where the code has 32: stacks of
no frame and of one fit, and two and three do not. The hooks ask for one frame
at most (`StackDepth`). Every combination of a record that fits and one that does
not, in either order and at the end of the file, is within five records.

`leaky_program` takes everything from the test but the size of the grid, the
number of iterations and the interval, which belong together: an interval has
to see several grids come and go. With 25 cells, six iterations give enough
tests for both tiers at the thresholds of the test, and tests that fall into
every phase of the program. The address of an allocation is immaterial there,
as no property names one, so it is the least that is free; `MaxAllocs`,
`MaxTests` and the 500 addresses are never reached.

`address_map` explores states that only differ in the latest call once (`VIEW
structure`): no step depends on it, and every step is still compared with the
abstract one, call and result included.

`low_level_alloc` counts in words of 8 bytes, in which the header, the offset
of the pointers and the smallest block have the sizes of the code on a 64-bit
machine (4, 5 and 8), so that a smallest block has room for three levels and
drawing four has to be clipped. Only the Arena object is small for the code's
(4 words instead of 39), so that its block leaves half of a region of the run
free. There is room for four regions, one of them for the Arena object; two may
be adjacent, and merge, or leave a gap, and what one arena unmapped can be
mapped for the other.

The model's 32-bit event counters are naturals: they only ever count up by one
and their difference is what is used. The statistics are taken modulo `Word`,
and start close enough to it to wrap.

### Fairness

Only `Replay` and `LeakyProgram` have a liveness property, and only there the
code obliges anyone to act: the other components do something when they are
called. Both programs have one thread, and their specifications assume that it
keeps running. `ReplaySpec` has weak fairness of the turns of the loop (`Main`),
and of leaving a hook that was entered; `ProgramSpec` of the next action of the
program, and of an analysis that is due (stated for `next_analysis`, which
nothing else changes). Each of these is one thread going on to its next
statement, not a choice made in anyone's favour. No
fairness is put on the content of the file: that it ends is its finite length,
`MaxRecords`, and that the loop then stops is what `ReplayEnds` shows. Wherever a depth does not
fit, going on and being lost are both possible, and neither is assumed: the end
in `Shutdown` is claimed of the files in which no such depth can occur.

## What is proved

For every value of the constants that meets the named assumptions: the size of
a ranking is positive (`RankingAssumption`); an analyzer is given lists no
longer than the ranking, without repeated values (`SamplesAssumption`); call
stacks are finitely many numbers (`TableAssumption`, `DetectorAssumption`), and
so are addresses, and sizes are positive (`DetectorAssumption`); the stacks given
to the manager are not empty, and its memory has finitely many addresses, the
caller's array not among them (`ManagerAssumption`), a code address is eight
bytes (`FrameAssumption`), and 0 and 0 have no bit of which only one is set
(`XorAssumption`); the leaky program has an iteration and a place at least, its
sizes and six call stacks are among those of the detector, and no address is 0
(`ProgramAssumption`); the call stack of any trace
is one of `Stack`, hashes are bytes (`LifecycleAssumption`); bounds are numbers
(`ClientAssumption`, `ReplayAssumption`), and there is a stack of every depth that
fits (`ReplayAssumption`); the dimensions of the address map are
positive, and addresses fit its identifiers (`AddressMapAssumption`); in the
arenas a header fits the unit that sizes are rounded to, a request with its
header exceeds one such unit (on all machines the code is built for, the header
has exactly that size, by `low_level_alloc.cc:224`), a smallest block has room
for one pointer, and memory and regions are whole pages (`ArenaAssumption`).

| theorem | module | states |
|---|---|---|
| `RankingShape` | AnalysisLemmas | a ranking has the right length, and every position an offered entry of that rank |
| `TypeCorrect`, `HistogramAlwaysHasRoom`, `ScoresAlwaysTakeTime` | LeakAnalyzerProofs | the three invariants of the analyzer |
| `Refinement` | LeakAnalyzerProofs | the analyzer implements `SuspicionRuns` |
| `SuspectsAlwaysLead` | LeakAnalyzerProofs | a sample raises the scores of the smallest leading group, whatever the ranking's size |
| `PointersAlwaysIdentifyStacks`, `DestructorAlwaysFreesWhatItOwns` | CallStackManagerProofs | pointers stand for call stacks, for any hash function, and memory is given back |
| `HashesAlwaysInStages` | CallStackManagerProofs | hashing in stages is hashing at once, for inputs of any length |
| `ListsAlwaysHoldTheTop` | CallStackTableProofs | a loop of `Add` calls leaves the reference ranking |
| `EntriesAlwaysAddUp`, `SuspectsAlwaysHoldMemory`, `OrderNeverDecides` | CallStackTableProofs | the other properties of a table |
| `DumpsAlwaysFit` | CallStackTableProofs | no dump and no report, whatever the depth of its call stack, is cut or written past its end, in a buffer with room for the longest |
| `TypeCorrect` | LeakDetectorImplProofs | the type invariant of the detector |
| `CountsAlwaysCoverLive` | LeakDetectorImplProofs | no class and no table counts less than what is live |
| `NetAllocsAreAlwaysLive`, `TablesAlwaysCountLive` | LeakDetectorImplProofs | they count exactly what is live, provided addresses do not repeat while in use |
| `SizesRefine` | LeakDetectorImplProofs | tier 1 of the detector implements `SuspicionRuns` |
| `ReferencesAreAlwaysOwned`, `ReportsAlwaysTakeTime` | LeakDetectorImplProofs | call stacks in use are owned; reports take their tests |
| `ReportedStacksAlwaysHoldMemory`, `ReportedStacksAlwaysHaveCompany` | LeakDetectorImplProofs | what is reported is of live memory, and not alone, provided addresses do not repeat while in use |
| `NetSizeAlwaysFollowsLiveBytes` | LeakDetectorImplProofs | the printed net size follows the live bytes, through counters that wrap, under the same condition |
| `MapIsAlwaysSampledHeap` | LifecycleProofs | the detector's map is the sampled part of the hooked heap |
| `TestsAlwaysKeepTheirInterval` | LifecycleProofs | tests are more than an interval of bytes apart, and the first recorded allocation that one is due at makes it; between two tests there may be any number of bytes, as unsampled allocations count and make none |
| `NothingIsEverLeftBehind`, `ShutdownStaysFinal` | LifecycleProofs | Shutdown gives every block back, and is final |
| `RepeatsAlwaysCountOnce`, `ReplayCountsCoverLive` | LifecycleProofs | in the replay, counts exceed what is live by what was repeated, and are never below it |
| `ReplayLeavesNothing` | LifecycleProofs | a replay that is done left nothing running and nothing in the arena |
| `OnlyDeepFilesAreLost` | LifecycleProofs | a replay is lost only if it read a depth that does not fit, or no allocation to its end |
| `ProgramUsesDetector` | LifecycleProofs | the test program takes only steps of the detector, whose theorems therefore hold in it |
| `FreesAreAlwaysOfLive`, `OnlyLeaksAlwaysRemain` | LifecycleProofs | the test program frees only what is allocated, and in the end only leaks are left |
| `ReportedStacksAlwaysLeakOrAreHeld` | LifecycleProofs | what is reported of the test program leaks, or its grids hold more objects of that call site than the threshold, provided addresses do not repeat while in use (theirs never do) |
| `EntriesAlwaysHaveOnePlace`, `StatsAlwaysTellStructure`, `SizeAlwaysCoversMap` | AddressMapProofs | the invariants of the address map |
| `AddressMapImplementsMap` | AddressMapProofs | the address map implements `AddressMap` |
| `TypeAlwaysOK` | LowLevelAllocProofs | the type invariant of the arenas: the pointers of a free block have room in it |
| `BlocksAlwaysTileMemory` | LowLevelAllocProofs | every mapped byte is in exactly one block of one arena |
| `FreelistAlwaysWellFormed` | LowLevelAllocProofs | the skip list is in order, complete at every level, and without neighbours |
| `EmptyArenaAlwaysAllPages` | LowLevelAllocProofs | an arena without allocations is free blocks of whole pages |
| `ArenasImplementFirstFit` | LowLevelAllocProofs | both arenas implement `FirstFit` |

**AnalysisLemmas** has what the operators return, for the four modules above it.
Ranks are a bijection between the offered entries and 1 to their number
(`RankIsBijective`), so a ranking is a sequence of offered entries, one of each
rank. The loop of `Add` calls is followed entry by entry: adding an entry to a
ranking shifts the ranks below it by one and cuts what comes to lie beyond the
size (`AddRanks`), so the rankings of the first entries are what `FoldLeft`
goes through (`AddAllRanks`). Sums over the entries of a table change with the
one entry that changes (`SumWithOneChanged`).

The analyzer: a drop leaves at least one ranked value unsuspected, so there are
fewer suspects than places (`SuspectsShape`); hence all of them fit into the
histogram (`HistogramUpdate`), and neither of the loops that could stop early
does (`FirstOfAll`). `AddSampleStep` sums this up, and `IsAnalyzerOver` is the
inductive invariant: the histogram has room, its scores are positive, and the
reported values are exactly those over the threshold. The score bound
additionally relates the scores to the number of samples, which needs that the
first sample, finding no previous list, suspects nothing. For `SuspectsLead`,
what stands before the first drop in the ranking of the changes is a leading
group, and any smaller leading group would end at an earlier drop. The same
description of the suspects, which mentions no order, gives
`OrderDoesNotDecide`: as long as nothing is cut, two lists of the same entries
have the same changes.

The dumps: `DumpsAlwaysFit` assumes a buffer with room for the longest texts
(`BufferIsLarge`: ten digits to a number, one line for every place of the
ranking, a suspect less than that, a line for every frame), which the 16 KB of
the code have for rankings of 16 and call stacks of some hundred frames. As long
as the lengths of what was printed come to less than the buffer, no text is cut
and nothing wraps (`TextFits`); the loops of `FoldLeft` are followed text by text
(`LoopFits`), and there are never more suspects than `HistogramHasRoom` allows.

The manager (`IInv`): every object points to an array that is its own and no
other object's or the caller's, whose length and hash it stores
(`ObjectIsSound`), no two objects read as the same stack, and the objects in
the set are all there are (`MemoryIsSound`); so filling the caller's array again
changes none. `GetCallStack` then finds a stack exactly if it has an object, whether or
not hashes collide.

The hashes: the stages have a loop over words of their own, which does what that
of `Hash` does, word by word (`CopiesAgree`). Two runs that
start with the same hash over the same bytes stay equal (`MixingsAgree`), by the
least number of words after which they would differ; so the second stage goes on
where the first stopped, the rest of at most three bytes is the same
(`StagesAddUp`), and what `HashFinish` adds is what `Hash` adds. Only of no
bytes does `Hash` return without it, where the stages mix zeros, of which
nothing but zero comes (`AvalancheOfZero`): the one fact about exclusive or.

The detector: the type invariant is not inductive by itself, as a table's index
comes from a value the analyzer reports; `AnalyzerInv` adds that the analyzer
only holds sizes it was given. For the counts, `LiveInv` adds that tables hold
no entry at zero, so that `Remove` finds what it is given, and that an address
with a call stack belongs to a class with a table, so that a table created by a
test starts out right though allocations of its class are live already: none of
them has a call stack. Counts are at least the number of live allocations, and
equal to it unless addresses repeat; both halves are carried through the same
induction (`Counts`). For the reports, `ReportInv` adds what a score is worth:
a call stack with a score was ranked with a count larger than that score, by
the list the analyzer keeps, and the scores of an analyzer are bounded by the
tests since its table was created. A test that raises a score finds a larger
count than the list it is compared with, so a table that was emptied and filled
again is no exception. The net size is arithmetic modulo the word: the
remainders of the two counters, which start anywhere and wrap apart from each
other, change by what the live bytes change.

The lifecycle (`ClientInv`): `LiveInv`, whose steps are those of the detector
the hooks call, and three parts of its own. The flags: hooks are registered
exactly while there is a detector, which implies an allocator, and nothing is
counted before the allocator was initialized, which it can be once; from these
`ShutdownIsFinal` follows. The heap: nothing was hooked before the first
registration, so the empty map a detector starts with agrees with it. The
arena: the blocks in use are those the destructor finds through the members,
besides the lock and the detector. That last part needs `LiveInv`'s tables
without entries at zero: a free erases an entry of a table, with its block,
exactly when its count is 1, and finds it at all only if it was counted. For
the interval between tests, what was recorded when no hook runs is at most an
interval more than what the last test saw. The
replay (`ReplayInv`) adds that hooks do not change while there are allocations, so that
all of them were seen, and the sum over all classes of what is counted beyond
what is live: an allocation raises it by one if its address is in the map, a
free never does. A depth in the union that does not fit has a source
(`DepthHasSource`): it was read, or no allocation has been read to its end.

The test program (`ProgramInv`): the two grids point to allocated blocks, no two
cells to one block; each point of the second grid lies in the sector of the root
it was allocated for, so that what the third root replaces is an object of the
third root; a block that no cell points to has been lost at a root that leaks;
and the loops have come to where a point is. Each action keeps this, whatever
the paths of the points (`PlacePoint`, `TakeBlock`), and swapping the grids
does. A report then counts more live blocks than the threshold, by the theorem
about the detector, and if one of them is not held it was lost, at the root
that has the reported call stack.

The address map (`MapInv`): clusters have different numbers, each in the chain
of the hash table that its number belongs to (`ClustersAreFound`); no chain of a
block holds an offset twice (`OffsetsOccurOnce`); every entry is free or in one
chain; and what `stats()` counts is what there is. The indices of an address
are the quotients and remainders of repeated division, which determine it for
any dimensions, so a step that changes one chain changes the map at one
address, which is the step of the abstract map.

The arenas (`ArenaInvariant`), from the skip list up. In a skip list
(`IsSkipList`) every pointer leads to the first block behind that has its level
(`IsFirstAfter`). On such a list the search finds, at each level, the last block
before an address (`SearchFinds`: the highest block before it for which a level
would fail is the least counterexample), so that insertion and deletion, done
level by level, come to a list with one block more or less
(`InsertKeepsSkipList`, `DeleteKeepsSkipList`), and the search for a free block
at the level of a size is the lowest that is large enough (`FirstFittingIs`): a
block of a size draws no fewer levels than the search for it follows, as
`IntLog2` and the room for pointers grow with the size (`SkiplistLevelsIs`). A
heap (`IsHeap`) adds the headers: blocks do not overlap, the free ones are those
in the list, and each has room for its pointers. `AddToFreelist` and
`TakeBlock` lead from one heap without neighbours to another that covers the
same addresses and has one allocation less (`IsFreed`) or more (`IsTaken`); what
was freed lies in one free block, for two that meet within it would be
neighbours (`FreedIsInFreeBlock`), which is why the second search of
`DoAllocWithArena` never fails. For the state, `MemoryOK` says that arenas share
no address and that each mapped page belongs to one arena as a whole. This is
what `EmptyArenaIsAllPages` needs: a free block that began inside a page would
have another block of the same arena before it, free as all are, and the two
would be neighbours. That the walk of `DeleteArena` over the lowest level comes to all of
them is by the last free block it would miss (`BlocksAfterAreFree`). Counts are
cardinalities of the allocated blocks.

The refinement of `FirstFit` adds that all blocks begin and end at units of
`Roundup` bytes (`AlignedInvariant`). Merging and splitting cannot break this:
an end of a free block that is new is either an end of an allocated block or of
the mapped memory (`AlignmentFollowsMemory`). The free memory of `FirstFit` is
then what lies in free blocks (`FreeMemoryIs`), the places where a size fits
are the free blocks that are large enough (`FitsAreBlocks`), of which the
search returns the lowest (`WhereItFits`), and what is left of an extent is what
`CanBeBlock` is asked about (`SizeTakenIs`). A new region is free memory like
any other, whether or not it merges with the block before it (`GrownUnits`).
`ArenaStep` maps the steps: what allocates or frees in one arena leaves the
other as it is, which needs that an address is allocated in one arena only, as
the sizes requested are kept in one function for both.

Statements about loops and sums would be inductions over data. The library's
theorems for these take an operator as a parameter, which the provers in use
cannot instantiate; the few loops above are done with the least number for
which a statement fails (`LeastNat`).

Only model-checked: `OnlyLeaksReported` of the leaky program. It holds of the
program's sizes, not of all: `ReportedStacksAlwaysLeakOrAreHeld` says how a
false report could come about, and that points of a sector outnumber the
threshold is what the test really does. Liveness stays with the checker:
`ReplayEnds`, of which `ReplayLeavesNothing` and `OnlyDeepFilesAreLost` are the
safety part, and
`LeaksAreReported`.

## The plan

Done, in this order: the ranked list, the analyzer with the abstract
specification `SuspicionRuns`, the call stack manager and table, the detector,
its lifecycle and hooks, the replay, the address map as a refinement of a map,
an arena as a refinement of first fit; then the dumps, the hash functions, what
the detector holds in its arena and gives back, and the leaky program with both
tiers at full size; then the proofs, component by component, up to the address
map and the arenas with their refinements, the hash functions and the leaky
program.

Next:

1. The blocks of reports and analyzers in `LeakDetector`; the text of
   `DumpStats`.

## Not modelled

Besides the parts the plan has ahead: the text of logs, dumps and reports (only
the lengths of two dumps and of a report are), the conversion of the interval
from kilobytes (`leak_detector.cc:69`, an overflow from 2 GB on) and the
environment variables it comes from, the buckets of the standard containers
(only their unspecified order of iteration matters), what becomes of a replay
that copied beyond the array of the hooks (it is `"lost"`), the sizes that
`CompactAddressMap` cuts to its width (`AddressMap` cuts them too, so that the loss
is part of what is specified), the lock, which is an
empty class, `leak_analyzer_old.cc`, which is not built, and the unit tests
other than `JuliaSet`: they are fixed sequences of calls, read as
documentation, and the machines make such calls in any order.
