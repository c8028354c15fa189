---------------------------- MODULE LeakyProgram ----------------------------
(***************************************************************************)
(* The program that the detector is tried out on, with the detector: test  *)
(* JuliaSet of leak_detector_impl_unittest.cc, in its fixture, which tells *)
(* the detector of every allocation and free and asks it for leaks at an   *)
(* interval of bytes allocated.                                            *)
(*                                                                         *)
(* The program holds points on a grid.  Every iteration takes the fifth    *)
(* roots of each point, puts a point at each root on a second grid unless  *)
(* there is one already, frees the points of the first grid, and swaps the *)
(* grids.  With has_leak, the third and fourth roots replace the points    *)
(* that they find, which nothing points to from then on.                   *)
(*                                                                         *)
(* The five roots of a point lie in five sectors, at the same place of     *)
(* each; `place' says at which one, for every cell of the grid.  A point   *)
(* is the address of its object, and a cell without a point is 0.  (The    *)
(* test skips roots farther than kRadius from the center; points that are  *)
(* no farther than kRadius have none, so the grid is the circle.)          *)
(***************************************************************************)
EXTENDS LeakDetectorImpl

CONSTANTS
    NumPlaces,          \* the places of a sector
    PlaceMaps,          \* the functions that `place' may be
    NumIterations,      \* kNumIterations
    AnalysisInterval,   \* kAllocedSizeAnalysisInterval
    RootSize,           \* sizes of the objects at the five roots
    PointSize,          \* size of the objects on the first grid
    RawStack,           \* Stack -> kRawStack0 to kRawStack5
    MappingAddr,        \* mapping_addr_
    MappingSize         \* mapping_size_

Root == 1..5

Cell == 1..(5 * NumPlaces)

ASSUME ProgramAssumption ==
    /\ NumPlaces \in Nat \ {0} /\ NumIterations \in Nat \ {0} /\ AnalysisInterval \in Nat \ {0}
    /\ PlaceMaps \subseteq [Cell -> 1..NumPlaces]
    /\ RootSize \in [Root -> Size] /\ PointSize \in Size
    /\ Addr \subseteq Nat \ {0}
    /\ Stack = 1..6 /\ RawStack \in [Stack -> Seq(Nat)]

VARIABLES
    has_leak,           \* the argument of JuliaSet
    place,              \* where the roots of a point fall, cell by cell
    phase,              \* "fill", "roots", "clear" or "done"
    cell, root,         \* where the loops are
    iteration,          \* n
    grid, next_grid,    \* Cell -> address, or 0
    alloced_ptrs,       \* alloced_ptrs_
    total_alloced_size, \* total_alloced_size_
    next_analysis,      \* next_analysis_total_alloced_size_
    stored_reports      \* stored_reports_

detectorVars == vars

programVars == <<phase, cell, root, iteration, grid, next_grid>>

choices == <<has_leak, place>>

testVars == <<detectorVars, programVars, choices, alloced_ptrs, total_alloced_size,
              next_analysis, stored_reports>>

EmptyGrid == [c \in Cell |-> 0]

Points(g) == {c \in Cell : g[c] # 0}

ProgramInit ==
    /\ Init
    /\ has_leak \in BOOLEAN /\ place \in PlaceMaps
    /\ phase = "fill" /\ cell = 1 /\ root = 1 /\ iteration = 0
    /\ grid = EmptyGrid /\ next_grid = EmptyGrid
    /\ alloced_ptrs = {}
    /\ total_alloced_size = 0 /\ next_analysis = AnalysisInterval
    /\ stored_reports = {}

-----------------------------------------------------------------------------
(* operator new: an address not in use, while there is one; which is immaterial. *)
FreshAddress == CHOOSE a \in Addr \ alloced_ptrs : \A b \in Addr \ alloced_ptrs : a <= b

AnalysisIsDue == total_alloced_size >= next_analysis

(***************************************************************************)
(* LeakDetectorImplTest::Alloc, up to the analysis it may end in; and Free.*)
(***************************************************************************)
Alloc(size, stack) ==
    /\ ~AnalysisIsDue
    /\ Addr \ alloced_ptrs # {}
    /\ RecordAlloc(FreshAddress, size, stack)
    /\ alloced_ptrs' = alloced_ptrs \union {FreshAddress}
    /\ total_alloced_size' = total_alloced_size + size
    /\ UNCHANGED <<next_analysis, stored_reports, choices>>

DoNothing ==
    /\ ~AnalysisIsDue
    /\ UNCHANGED <<detectorVars, alloced_ptrs, total_alloced_size, next_analysis,
                   stored_reports, choices>>

Free(ptr) ==
    /\ ~AnalysisIsDue
    /\ RecordFree(ptr)
    /\ alloced_ptrs' = alloced_ptrs \ {ptr}
    /\ UNCHANGED <<total_alloced_size, next_analysis, stored_reports, choices>>

(* GetOffset: addresses in the mapping become offsets. *)
GetOffset(ptr) ==
    IF MappingAddr <= ptr /\ ptr < MappingAddr + MappingSize THEN ptr - MappingAddr ELSE ptr

(* The InternalLeakReport for a size class and a call stack. *)
Report(size, stack) ==
    [alloc_size_bytes |-> size,
     call_stack |-> [j \in DOMAIN RawStack[stack] |-> GetOffset(RawStack[stack][j])]]

(* The first analysis point that was not reached yet. *)
NextAnalysis ==
    next_analysis
        + ((total_alloced_size - next_analysis) \div AnalysisInterval + 1) * AnalysisInterval

Analyze ==
    /\ AnalysisIsDue
    /\ TestForLeaks
    /\ stored_reports' = stored_reports \union {Report(IndexToSize(r[1]), r[2]) : r \in reports'}
    /\ next_analysis' = NextAnalysis
    /\ UNCHANGED <<programVars, choices, alloced_ptrs, total_alloced_size>>

-----------------------------------------------------------------------------
(* The call stack that an object of the first grid, or at a root, comes from. *)
kStack(n) == n + 1

(* A loop over the points of a grid that is done with those up to cell c. *)
PointsAfter(g, c) == {d \in Points(g) : d > c}

FirstPoint(g, c) == CHOOSE d \in PointsAfter(g, c) : \A e \in PointsAfter(g, c) : d <= e

FillCell ==
    /\ phase = "fill"
    /\ Alloc(PointSize, kStack(0))
    /\ grid' = [grid EXCEPT ![cell] = FreshAddress]
    /\ IF cell + 1 \in Cell
       THEN cell' = cell + 1 /\ phase' = phase
       ELSE cell' = 1 /\ phase' = "roots"
    /\ UNCHANGED <<root, iteration, next_grid>>

(* The cell of a root of the point at the cell c. *)
RootCell(c, r) == (r - 1) * NumPlaces + place[c]

Overwrites(r) == has_leak /\ r \in {3, 4}

(* One root of a point; after the fifth, the loop goes on to the next point. *)
PlaceRoot ==
    /\ phase = "roots"
    /\ IF Overwrites(root) \/ next_grid[RootCell(cell, root)] = 0
       THEN /\ Alloc(RootSize[root], kStack(root))
            /\ next_grid' = [next_grid EXCEPT ![RootCell(cell, root)] = FreshAddress]
       ELSE DoNothing /\ UNCHANGED next_grid
    /\ IF root < 5
       THEN root' = root + 1 /\ UNCHANGED <<phase, cell>>
       ELSE /\ root' = 1
            /\ IF PointsAfter(grid, cell) # {}
               THEN cell' = FirstPoint(grid, cell) /\ phase' = phase
               ELSE cell' = FirstPoint(grid, 0) /\ phase' = "clear"
    /\ UNCHANGED <<grid, iteration>>

(***************************************************************************)
(* Free the points of the grid.  After the last one the grids are swapped, *)
(* or, when the points of the last iteration were freed, the test is over. *)
(***************************************************************************)
ClearPoint ==
    /\ phase = "clear"
    /\ Free(grid[cell])
    /\ IF PointsAfter(grid, cell) # {}
       THEN /\ grid' = [grid EXCEPT ![cell] = 0]
            /\ cell' = FirstPoint(grid, cell)
            /\ UNCHANGED <<phase, iteration, next_grid>>
       ELSE IF iteration < NumIterations
       THEN /\ grid' = next_grid
            /\ next_grid' = [grid EXCEPT ![cell] = 0]
            /\ cell' = FirstPoint(next_grid, 0)
            /\ iteration' = iteration + 1
            /\ phase' = IF iteration' < NumIterations THEN "roots" ELSE "clear"
       ELSE /\ grid' = [grid EXCEPT ![cell] = 0]
            /\ phase' = "done"
            /\ UNCHANGED <<cell, iteration, next_grid>>
    /\ UNCHANGED root

ProgramNext == FillCell \/ PlaceRoot \/ ClearPoint \/ Analyze

(***************************************************************************)
(* The program is a single thread, which runs on, and carries out the      *)
(* analyses that are due.  (Only Analyze changes next_analysis.)           *)
(***************************************************************************)
Fairness ==
    /\ WF_testVars(FillCell \/ PlaceRoot \/ ClearPoint)
    /\ WF_next_analysis(AnalysisIsDue /\ next_analysis' = NextAnalysis)

ProgramSpec == ProgramInit /\ [][ProgramNext]_testVars /\ Fairness

-----------------------------------------------------------------------------
(***************************************************************************)
(* The call sites that leak, as reports.                                   *)
(***************************************************************************)
Leaks == IF has_leak THEN {Report(RootSize[r], kStack(r)) : r \in {3, 4}} ELSE {}

(***************************************************************************)
(* What the detector reports are leaks: no call stack that frees in due    *)
(* course is reported, though the program holds more and more memory while *)
(* it fills a grid, and tests come in the middle of that (tests            *)
(* JuliaSetNoLeak and JuliaSetWithLeak).                                   *)
(***************************************************************************)
OnlyLeaksReported == stored_reports \subseteq Leaks

(***************************************************************************)
(* The test ends, and every call site that leaked was reported by then.    *)
(***************************************************************************)
LeaksAreReported == <>(phase = "done" /\ Leaks \subseteq stored_reports)
=============================================================================
