# A TLA+ model of aprof

aprof is a Valgrind tool that relates the cost of every call of a routine to the size of
the input the call has read. It measures that input without being told what it is: the
*read memory size* (RMS) of an activation counts the memory cells whose first access
since the activation began is a read; the *dynamic read memory size* (DRMS) also counts
the cells that another thread or the kernel has written since they were last accessed.
The tool lives in `src/valgrind/aprof`. Its plug-ins, viewers, benchmarks and the vendored
Valgrind around it are listed in `PROJECT.json` and not modelled.

The modules here state what the two metrics promise, model what the code does with
timestamps, shadow memories and partial counters, and show, by model checking and by proof,
that the second implements the first. Below them lie the queue through which a basic block
reports its memory accesses, and the tracker that finds the calls and returns of an
uninstrumented program. Above them lie the costs of routines, the reports they end up in,
and the merging of reports, at the end of a run and by the stand-alone `aprof-helper`. Each
part is model-checked, and most of what is checked is proved, too.

## 1. The system

| Component | Source | State | Operations |
|---|---|---|---|
| RMS accounting | `memory.c`, `function.c`, `overflow.c`, `lookup_table.c` | per thread: activation stack, shadow memory, `next_activation_id`, `skip` | `trace_access_rms`, `function_enter`, `function_exit`, `overflow_handler_rms`, `LK_compress_rms` |
| DRMS accounting | the same, `thread.c`, `syscall.c` | the above per thread; global: `global_counter`, `global_shadow_memory`, `current_TID` | `trace_access_drms`, `thread_*`, `post_syscall`, `overflow_handler_drms`, `LK_compress_drms` |
| Call-stack tracker | `callstack.c` | `last_bb`, `last_exit`, the stack pointer of each activation | `BB_start`, `push_stack`, `pop_stack`, `unwind_stack` |
| Function costs and input tuples | `function.c`, `cost.c`, `util.c`, `report.c` | `cost`, `skip_cost`, `sum_children_cost`, `recursion_pending`, the input tuples of each routine, `extra_cost` | `function_enter`, `function_exit`, `thread_exit`, `generate_report` |
| Calling context tree | `cct.c`, `function.c` | tree of `CCTNode`, `act->node`, `next_context_id` | `parent_CCT`, `function_enter`, `free_CCT` |
| Event queue | `events.c`, `main.c` | up to four events of a basic block | `addEvent_*`, `flush_events_*`, the statements of `instrument` |
| Reports and their merge | `report.c`, `merge.c`, `fwrite.c` | files in the log directory, `extra_cost`, the merged tables | `generate_report`, `create_report`, `load_reports`, `merge_report` |
| File writer | `fwrite.c` | a buffer of 32000 bytes and its fill | `fopen`, `fwrite`, `fflush`, `fclose` |
| Hash table | `hashtable/hashtable.c` | chains, iterator | `HT_*` |
| Report merging tool | `extra/aprof-helper.c` | the list of reports with its holes, `curr`, `merged`, the runtime | `merge_by_thread`, `merge_by_run`, `reset_data` |

How they interact. Valgrind translates one basic block at a time; the instrumentation pass
(`main.c`) puts a call of `BB_start` at its head and, through the event queue, a call of
`trace_access_*` for each memory access. `BB_start` looks at the stack pointer and at how
the last block ended and pushes or pops activations, which calls `function_enter` or
`function_exit`. Valgrind runs one thread at a time and tells the tool by `thread_switch`;
after a system call it calls `post_syscall`. So every helper runs to its end before another
begins, and threads interleave between helpers: each helper is one action. When a thread
exits, its stack is unwound and its report is written through the file writer. Processes do
not know of each other: several may report to one directory, and with `--incremental-log`
each one merges the reports it finds there and unlinks them before it writes the sum.

What is hard:

* *Timestamps instead of sets.* The code has one timestamp per cell and one partial counter
  per activation where the definition has a set per activation. A read takes one away from
  an ancestor, whose counter may be negative for a while, and an exit adds the callee's
  counter to the caller's.
* *Counters that overflow* in the middle of an enter, a switch or a system call. All ids and
  timestamps are then renumbered, of all threads.
* *Ties and order between threads and the kernel*: which of two events at the same count is
  older.
* *Skipped routines* (`_dl_runtime_resolve`), whose slots are never given an id.
* *Costs as differences* of two readings of a clock that is set back under skipped routines,
  carried from child to parent, with recursion, doping and tuples shared between threads.
* *Queued events*, which must be out before any exit of the block, with a load and a store of
  one instruction merged across a full queue.
* *Failure*: partial and failed writes; reports unlinked before their replacement exists;
  reports rejected when part of them has been merged; processes that overlap or crash.
* *Loops over a list with holes* in `aprof-helper`, which start again after each group.

What makes each component right: accounting, that each exit files the activation under its
true size; call-stack tracker, that stack pointers do not grow towards the top and that
activations are popped with their frames; costs, that each unit of cost is the self cost of
one activation; contexts, that an activation's node names its pending callers; event queue,
that the accesses reported are those of the block in order; reports, that a crash loses no
history and no merge mixes programs; file writer, that a file holds what was printed; merging
tool, that each report ends in exactly one new one and that its loops end.

## 2. The modules

### RMS

`ReadMemorySize` is the definition: every pending activation carries the set of cells
accessed since it began and its size so far.

`RmsProfiler` is the code, for one thread: in this metric threads share nothing that the
sizes depend on.

| Model | Code |
|---|---|
| `stack`, `depth`, `skip`, `nextId` | `tdata->stack`, `stack_depth`, `skip`, `next_activation_id` |
| `shadow` | `tdata->shadow_memory`; a cell never accessed is 0, as in a fresh chunk |
| `exited` | `act->input_size` as `function_exit` files it |
| `Access` | `trace_access_rms` |
| `Enter`, `EnterAtWrap`, `EnterSkipped` | `push_stack` and `function_enter`, by its early returns; the second includes `overflow_handler_rms` and `LK_compress_rms` |
| `Exit`, `ExitSkipped` | `function_exit` and the pop of its caller |

Slots above the stack keep what they held: a skipped routine that takes one shows the id and
the input of an activation that is gone, as it does in the code. `input_size` is a UInt in
the code and an integer here: partial values below 0 wrap around there, and the sums come
out the same modulo 2^32. An access of several cells is one action. Modulo 2^32 is modulo
`IdSpan`, and the stack fits (`MaxDepth + 1 < IdSpan`; in the code 15000 against 2^32).

`RmsRefinement` puts the two together: a history variable `frames` holds the abstract
activations, every action updates it by the abstract operator of the same name, and it
constrains nothing. The abstract `exited` *is* the profiler's, so the refinement says that
what is filed is right.

### DRMS

`DynamicReadMemorySize` is the definition: a pending activation carries the cells whose
current value it *knows*. It pays for reading a cell it does not know. A write by another
thread, or by the kernel, makes the cell unknown to all others.

`DrmsProfiler` is the code, for all threads.

| Model | Code |
|---|---|
| `counter` | `runtime.global_counter`, up to `MaxCount` = `MAX_COUNT_VAL` |
| `global`, `gchunks` | `runtime.global_shadow_memory` and which of its chunks exist (`Segments` are the cells of one chunk) |
| `local`, `chunks`, `stack`, `depth`, `skip` | the `ThreadData` of each thread |
| `current`, `alive` | `current_TID`, `threads[]` |
| `filed` | the sizes filed by the last `function_exit`, or by all those of `unwind_stack` |
| `Access` | `trace_access_drms` called by the instrumentation |
| `SyscallStore`, `SyscallLoad` | `post_syscall` of a call that fills, or reads, memory, with its forced switch or tick |
| `Switch`, `Create`, `ThreadExit` | `thread_switch`, `thread_create`, `thread_exit` with `unwind_stack` |
| `Enter`, `EnterSkipped`, `Exit`, `ExitSkipped` | as above |
| `Ticked...`, `Renumbered...`, `Compressed...`, `Index` | the increment of the counter, `overflow_handler_drms`, `LK_compress_drms`, `binary_search` |

Every action that ticks the counter contains the whole renumbering. The merge of the stacks
is described by its result, which is defined when the ids are in order (`InOrder`). When
they are not, the code fails an assertion, misplaces timestamps or dereferences NULL;
`RenumberOutOfOrder` records that (`corrupt`) and the behaviour stops there. Bit 31 of a
timestamp, which tells the kernel's writes from the threads', is left out: `dynamic` is the
sum of the two counters of dynamic reads. `self_syscall` and `self_thread` are left out.

`DrmsRefinement` adds the history and states the properties.

### Call-stack tracker

`CallStack` is `BB_start` under a program that may do anything: the next block, the stack
pointer and the way the last block was left are arbitrary.

| Model | Code |
|---|---|
| `Code` | what `BB_start` and the instrumentation record in `BB`: function, object and section (`home`), `is_entry`, `is_dl_runtime_resolve`, the final jump, the address after the block |
| `stack`, `capacity`, `lastBB`, `saved` | `tdata->stack` up to `stack_depth`, `max_stack_size`, `last_bb`, `last_exit` |
| `current`, `lastExit` | `current_TID`, `runtime.last_exit` |
| `Return`, `ReturnToNobody`, `Call`, `CallTooDeep`, `Continue` | the outcomes of `BB_start`: pops of a return, the NULL dereference at `callstack.c:554`, a call or a jump taken for one, the depth assertion, anything else |
| `Emulated`, `LeavesResolver`, `ReturnPops`, `Popped`, `Pushed`, `Grown` | its conditions, `pop_stack`, `push_stack`, `resize_stack` |
| `Create`, `Switch`, `ThreadExit`, `CloneFails` | `thread_create`, `thread_switch`, `thread_exit`, and both calls for a clone that fails |

The block also runs in the same action: it leaves through its final jump or a side exit,
which is what `last_exit` will say. The search for a return address reads the memory before
the array (`callstack.c:574`); whether that looks like a match is nondeterministic (`stray`).

`TrackedProgram` adds the program: `frames` are its activations, known to nobody but the
program, and each of its moves (call, return, jump, tail call, the resolver, RET used as a
jump, longjmp) says which block comes next, with which stack pointer, and what becomes of
`frames`. These moves stand for the machine and not for code of aprof. Their guards say what
the tracker relies on: a jump inside a function stays in its section, a RET that serves as a
jump goes to a block that no call is followed by (`Unexpected`, since `BB_start` takes it for
a return otherwise, `callstack.c:571`), and dl_runtime_resolve goes on from an activation of
its own. `Stray` is any other move, after which the thread counts as `lost`.

### File writer

`AppendOnlyFile` is what the report writer relies on. `BufferedFile` is `fwrite.c`, one
action for each turn of a loop and for each `VG_(write)`, which may accept any part of what
it is given or return `-errno`. Bytes are numbered in the order they are printed.

### Event queue

`EventQueue` is `events.c` and the loop of `APROF_(instrument)` over a block.

| Model | Code |
|---|---|
| `sbIn` | what the statements seen so far do: loads, stores, IMarks, exits, in order |
| `events` | `runtime.events[0..events_used - 1]` |
| `sbOut` | the helper calls and exits added to the output block |
| `IMark`, `WrTmpLoad`, `Store`, `Dirty`, `CAS`, `LoadLinked`, `StoreConditional`, `Exit` | the cases of the `switch` in `instrument` |
| `End`, `NextBlock` | the flush after the loop, and the next call of `instrument` |
| `addEvent_Ir`, `addEvent_Dr`, `addEvent_Dw`, `Flush` | the functions of `events.c` |

A statement may queue two events, so the queue is described by operators on a record of its
two halves. Addresses and sizes are compared and never computed; a location is a pair.
`HelperCalls` is what one queued event becomes in the block: nothing if it is an instruction.

### Costs, tuples and contexts

`RoutineTimes` is what the costs of a report mean: every unit of time is spent at once, as
self cost of the routine on top and as real cost of each routine on the stack, and nobody
looks at a clock. `RoutineCosts` is the code.

| Model | Code |
|---|---|
| `threads[t].cost`, `skip`, `skipCost`, `pending` | `tdata->cost`, `skip`, `skip_cost`, `recursion_pending` of each function |
| `threads[t].stack` | `act->fn` (`routine_info`), `act->start`, `sum_children_cost` |
| `threads[t].node`, `tree` | `act->node` of each *slot*, and the nodes of the tree in the order of their ids |
| `tuples` | the input maps of the routines, by owner (a thread, or all with `--single-log`) |
| `extra`, `printed` | `runtime.extra_cost`, the reports |
| `Call`, `CallResolved`, `Continue` | a basic block that enters a routine, from the resolver or not, or leaves some |
| `function_enter`, `function_exit`, `parent_CCT`, `EnterContext`, `File`, `Added` | the functions, and their parts on contexts and tuples |
| `Start`, `ThreadExit` | `thread_start`, `thread_exit` with `unwind_stack` and `generate_report` |

What a block does to the stack and the input size of an activation are free here: they are
the questions of `CallStack` and of the profilers. The refinement mapping reads the self and
real cost of a routine off the tuples, printed or not, and the pending activations.

### Reports

`ReportMerge` is one call of `merge_report` as an operator: a report is known by how often it
counts each run, since tuples are added up. `IncrementalReports` is the end of several runs
over one directory, one action for each file operation, and a crash between any two.

| Model | Code |
|---|---|
| `dir` | the files of the directory: writer, `empty`, `torn` or `complete`, the header lines and what they count |
| `memory`, `left`, `at`, `name` | the runtime of a run, the list of `search_reports`, the report to unlink, its own report |
| `Finish`, `Look`, `Skip`, `ReadFails`, `Unlink` | `generate_report` and the loop of `load_reports` |
| `Create`, `Flush`, `Close` | `create_report` with `O_EXCL`, a full buffer, `fclose` |
| `Crash` | a signal or a failed assertion, anywhere between `Finish` and `Close` |

`disturbed` records that runs have overlapped while one of them reads reports, or that a read
has failed; only `RunsReportedOnce` refers to it. `MergingTool` adds `aprof-helper`, started
over whatever directory the runs have left.

| Model | Code |
|---|---|
| `tool.list`, `struck`, `out` | `list`, the indices with `list[i] = NULL`, `list_post` |
| `tool.i`, `curr`, `merged`, `rt` | the locals of the loop (`curr` is 0 for -1) and the runtime |
| `StartTool` | `main`, up to the first loop, over the list in any order |
| `ToolStep` with `LookByThread`, `LookByRun`, `Finished`, `Advance` | one turn of `merge_by_thread` or `merge_by_run` |
| `ToolFails`, `ToolSkips` | a torn line or a failed `open`: the assertion, or on to the next report |

## 3. What is checked

| Run | Instance | Shows |
|---|---|---|
| `rms` | 2 cells, 1 counting and 1 skipped routine, 3 slots, ids modulo 6 | all RMS properties, the refinement |
| `drms` | 2 threads, 1 cell, 2 slots, overflow at 19 | all DRMS properties, the refinement |
| `drms_skip` | 1 thread, 1 cell, a skipped routine, 3 slots, overflow at 17 | skipping and unwinding; stops at an overflow out of order |
| `drms_chunks` | 2 threads, 2 cells in one chunk | a finding: compression invents a write |
| `drms_out_of_order` | 2 threads, one cell, a skipped routine | a finding: ids out of order |
| `call_stack` | 2 threads, 4 blocks (a function of two, a linkage stub, the resolver), 3 stack pointers, depth up to 3, arrays that start at 2 | the tracker follows the program |
| `call_stack_clone` | the same | a finding: `last_exit` after a failed clone |
| `buffered_file` | buffer of 4, files of up to 10, 2 error codes | nothing is lost unless a write fails; calls return |
| `buffered_file_errors` | the same | a finding: an error passes the assertion |
| `events` | 3 locations, two of them at one address, a queue of 3, blocks of up to 6 statements' effects | accesses leave the block in time, in order and once |
| `costs` | 4 routines (measured, doped, skipped, discarded), 2 sizes, depth 3 with arrays that start at 1, 4 blocks (5 with contexts), 2 threads in a single report | costs refine the account, contexts are the callers |
| `reports` | 3 runs in 6 constellations, 2 names to try, then any option of `aprof-helper` | nothing mixed, overwritten or lost by a merge; loops end |

The properties, in the order in which a reader should meet them:

* `InputIsTelescoped`: a partial `input_size` is the activation's size less that of the
  activation it called. This is what makes the decrement of an ancestor right.
* `ShadowMatchesHistory` / `ShadowsMatchHistory`: comparing timestamps with an activation's
  id answers exactly whether it has accessed a cell, or knows its value.
* `IdsOrdered` / `TimesOrdered`: the order on which those comparisons and the search for an
  ancestor rely, including that another thread's accesses lie strictly in the past.
* `RenumberingKeepsKnown`: a renumbering changes no answer. It is evaluated in *every*
  reachable state, as if the counter overflowed there.
* `SkipCountsSkippedRoutines`: skipping ends when the outermost skipped routine exits.
* `DynamicWithinInput`: the assertions on the dynamic counters.
* `RefinesReadMemorySize`, `RefinesDynamicReadMemorySize`: every exit, and every unwinding,
  files the true sizes.
* `ShadowFollowsProgram`: the activation stack names the activations of the program, in
  order and with their stack pointers. `StackPointersOrdered` is what `pop_stack` relies on,
  whatever the program does; `StackFits`: the stack is inside its array when it grows.
* `LastExitFollowed`: a thread resumes with the exit of its own last block.
* `NothingLostUnlessFailed`, `CallsReturn`, `RefinesAppendOnlyFile`.
* `ExitsFindEverythingReported`: at every exit of a block, what has been emitted is exactly
  the promise, stated over the whole block at once; `AFaultLosesTheTailOnly`: an exception
  inside a block loses at most the last events of it.
* `RefinesRoutineTimes`, and what it rests on: `CountersMatchStack` (`skip` and
  `recursion_pending`). `TuplesPassMerge`: a report passes the assertions of `merge_tuple`.
* `ContextsAreCallers`: the node of an activation is the chain of its callers, as long as
  none is discarded; `ReportsDefineTheirContexts`: `x` lines define the contexts that `q` lines
  name and their parents, unless one hangs from a pointer that was found uninitialised in a
  slot of a discarded routine: that one no line defines.
* `RunsReportedOnce`: however runs crash, a run is counted at most once on disk, and lost
  only with a run that had merged it and crashed before it wrote the sum. It is stated of
  directories that are not `disturbed`: two runs that merge at the same time do count twice.
* `NothingMixed`, `NeverOverwritten`: these hold when runs overlap and reads fail, too.
* `ToolKeepsEverything`: each report ends in exactly one new one, with `-t` one that has all
  threads of a process, with `-r` one that has one thread, and no pid twice among the reports
  with anything in them. Of an empty report, which a crash has left behind, `merge.c` compares
  nothing but the resolution in its name (`merge.c:748`), before it opens it. So with `-r` two
  reports of a pid may meet in one new report if one of them is empty. `LoopsEnd`: a turn strikes off a report, or comes nearer to the
  end of the list, or is the last.

Bounds, and why they are enough.

* `rms` has no bound but its constants: ids wrap after five calls, so a behaviour passes
  through arbitrarily many renumberings at every depth.
* `drms` starts when switches between two idle threads have moved the counter to
  `FirstCount`, near its overflow (`MCInit`: a state the program reaches by switches alone).
  `Window` stops at states with an activation of size above `MaxSize`, with activations of
  two threads whose sizes reach `MaxSize` together, or with more than `MaxPending` activations: those states are checked but not explored further. The
  restart value after a renumbering is 3 * (pending + 2), so only with enough pending
  activations is the next overflow near; states that fall behind `FirstCount` are also
  checked and not explored. Behaviours with two or more overflows remain.
* The code compares timestamps and never computes with them, apart from the counter. The
  view `TimesByRank` identifies states whose times are in the same order and whose counter
  is the same; it also hides slots above the stack except for the ids a skipped routine may
  pick up. Threads are symmetric.
* One cell suffices for `drms`: cells interact only in the sums, which `rms` checks with two,
  and through chunks, which `drms_chunks` checks with two.
* In `call_stack` the four blocks give every kind of final jump, a function with an inner
  block, jumps seen by `is_entry`, jumps seen only by a change of section, and the resolver.
  Depth 3 is a caller, a stub and the resolver; three stack pointers are two nested calls
  and a bottom. `Bounded` lets two threads that exist together have `MaxShared` activations,
  since they meet only in `last_exit`, and explores a lost thread alone and up to `MaxLost`
  activations; states beyond are checked and not explored.
* In `buffered_file` a print may be longer than two buffers, and meets the end of the buffer
  at every offset. After a failed write a file is followed up to one buffer's length, since
  nothing is promised of it.
* In `events` a queue of 3 fills up and wraps around within a block of 6, with a merge before,
  at and after the full queue; two accesses differ in size alone, in address alone, or in
  nothing. The capacity is 4 in the code; no step depends on it but `MakeRoom`.
* In `costs` depth 3 nests each kind of routine in each other one and in itself. Contexts need
  five blocks to reuse a slot under another caller. With arrays of one activation (`StackSize`)
  every slot but the first is one that `resize_stack` has added, and holds NULL or `Garbage`. A
  block that ends several activations may file each under an input size of its own. Only the threads of a single report have
  anything in common, so the other modes have one. `ULongSpan` is above every sum, as
  `ClockAssumption` says; the subtractions of `report.c:260` are taken modulo it.
* In `reports` the constellations are those in which the code takes different branches: two
  runs that merge at once and a third with a pid that comes again, two threads of a process
  with a merging run or with another process, runs that must not be merged (compiled
  again, with contexts, another resolution, another program), and a pid that comes again
  with another resolution. Two names to try are one that
  is taken and one that is not, or none.

Fairness is assumed in `BufferedFile` only: the running call takes its next step
(`WF` of copying and of a write that accepts something). The tool runs with the program
stopped, so nothing competes with it; a kernel that never answers a write is outside.

That the loops of `aprof-helper` end needs none: `LoopsEnd` is a variant.

Deadlock is checked in `rms`, `drms`, `buffered_file` and `events`. `drms_skip` and
`call_stack` really stop: after an overflow out of order, and after the crash or the assertion
of `BB_start`. So do `costs`, when the last thread has ended and with it the process, and
`reports`, when the tool is done or there is no report to start it on.

## 4. What is proved

`RmsProofs` proves, for every finite set of cells, every set of routines, every stack bound
and every id span above it, that

* `HSpec => []IInv`, where `IInv` is the conjunction of `HTypeOK`, `IdsOrdered`,
  `SkipCountsSkippedRoutines`, `ShadowMatchesHistory` and `InputIsTelescoped`;
* each conjunct is invariant;
* `HSpec => RefinesReadMemorySize`: the profiler computes the read memory size.

The conjuncts are inductive only together. A read charges the right ancestor because ids are
ordered and the shadow memory matches the history (`FreshAndTaken`: the cells fresh to the
top are those it has not accessed, those taken from an ancestor are those it has accessed
and its callee has not). Then sizes telescope: the top pays what it had not seen, and an
ancestor that had seen less pays the difference. `SkipCountsSkippedRoutines` says that all
activations are live when `skip` is 0, which `Access` and `Exit` need. A wrap is right
because compression keeps the order against the pending ids (`CompressionKeepsOrder`, which
rests on `SearchStops`, a least-element argument). Every step has a lemma of its own,
`Invariance` puts them together, and `Implements` maps each step to one of the
definition's or to a stutter.

`BufferedFileProofs` proves, for every buffer size, length of the input, set of errors and way
the kernel splits a write, that no byte is lost or moved unless a write fails
(`NothingIsLost`), that indices stay inside the buffer even then (`TypeCorrect`), and that
`fwrite.c` implements an append-only file (`Implements`). The invariant adds `PlacesOK`: what
the buffer and the pending input are at each place of the writer; `flush` is entered with
something to write and `fclose` with nothing pending. So a write is never of nothing, and what
is pending, then what is unwritten, gets less with every turn (`CallsEnd`), a turn whose write
fails excepted: `bw` then goes back by the errno.

`CallStackProofs` proves of `CallStack`, so of a program that may do anything, that the stack
pointers of a stack are ordered (`SpOrdered`) and that it fits its array (`StackAlwaysFits`).
`PopStops` is the argument: when `pop_stack` would pop nothing, the top lies at or above the
stack pointer, so a push keeps the order. Every move of `TrackedProgram` is one of these.

`ReportProofs` proves, for any number of runs, programs and options, that `NothingMixed` and
`NeverOverwritten` hold. What a run holds in memory must be as unmixed as what is on disk,
since each becomes the other: `MemoryOK` and `DirOK` are inductive only together. A rejected
report may still have changed the header of the runtime, which is why `MergeKeepsApart` holds
of every call and not of the successful ones.

Its second part proves `LoopsEnd` of `aprof-helper` for any list of reports. The invariant
`LoopOK` says that what has been passed over before `curr` is set is struck off, so that a
round that ends with no `curr` has nothing left; and that a first phase whose list is used up
has written something, so that the second one does not start on an empty list. Its third part proves the type
invariant of the whole (`TypeCorrect`). What it takes is `RuntimeBefore`: a runtime at place
`i` of the list has merged at most the reports before `i`, so the counts that a file or a group
can hold are bounded by the length of the list.

Its fourth part proves `RunsReportedOnce`. The invariant `Once` holds as long as runs do not
overlap with one that merges and reads do not fail. A run is in one report at most
(`FilesApart`); what a run has merged is in no report but the one it is about to unlink
(`MemoryApart`), so that `merge_report` never adds a run to itself and a report that is
closed does not repeat another; what is unlinked has been merged (`MergedBeforeUnlinked`); and
nobody has unlinked the file of a run that writes (`WritesItsOwn`), so that `fclose` puts what
it holds into the directory. `OneCopy` turns this into the number of copies, a sum over the
directory: by induction over its size, the sum of values of which one at most is 1 is 1 or 0.

Its last part proves `ToolKeepsEverything` (`KeepsEverything`), for any directory, any order of
the list and whichever reports can be read. The invariant `Keeping` has a witness `w` that says
of every file of the directory where `aprof-helper` has it: at a place of its list, in the
group it merges, or in a new report (`Placed`). A function says at once that a file is in one
place and in no second. `Counts` says of each of those places that it counts what its files
count: a list entry and a new report (`StandsFor`), and the runtime once it has merged
something (`GroupOK`; before that `merge_by_thread` has only set `curr`). Two clauses are there
for the options: with `-t`, no report before `list[i]` that is left has the pid of `curr`
(`ByProcess`), which is why a round leaves none of a process behind; with `-r`, what is in the
group has the thread of `curr`, and fits the runtime if there is anything in it (`ByRun`). Each
step moves one place of `w`: a report into the group (`Moving`), the group into a new report
(`WritesGroup`), and in the second round of `-t -r` all new reports into the list
(`NextRound`). At the end every file is in a new report (`AllNew`), and the sums of the
property are those over the fibres of `w` (`TotalFibres`).

`DrmsProofs` proves, for every number of threads and cells, every partition of the cells into
chunks, every set of skipped routines, every stack bound and every width of the counter that
holds the activations of all threads, that

* `HSpec => []IInv`, and with it every invariant that the `drms` runs check;
* `HSpec => RefinesDynamicReadMemorySize`: every exit, and every unwinding of a thread, files
  the dynamic read memory size.

The argument is that of `RmsProofs` for each thread (`ThreadInv`: ids in order, what the two
shadow memories say an activation knows is what it knows, sizes and dynamic reads telescope;
`SkipInv`: what `skip` counts). `ThreadInv` is stated of a stack, two shadow memories and a
history given as arguments: a handler may renumber first and count afterwards, so that what
it counts with is in no state of a behaviour. Three conjuncts relate the threads:
`IdsDistinct`, without which the merge of the stacks has no result; `TimesBounded`, by which
the accesses of threads that do not run lie strictly in the past, so a tie between a read and
a write is always between accesses of one thread; and `UnallocatedUntouched`, by which the
cells that a compression skips have no time to compress. A renumbering forgets nothing
(`RenumberedThread`) because `Index` keeps the order of a time against every live id and against the
last write, and because no id is above 3 * the number of live activations. The dynamic counter of an activation
is exact only up to a sum over its callees: `DynamicSums` names those sums by a witness, and
`SumsAreUnique`, an induction by least counterexample, shows that the recursive sum which
`unwind_stack` computes is that witness.

The second half of `CallStackProofs` proves of `TrackedProgram` that the tracker follows any
program made of its moves (`FollowsProgram`), and that a thread resumes with the exit of its
own last block (`ExitFollowed`). `ProgramInv` adds to the invariant of `CallStack` that the
stack of a followed thread has the functions and stack pointers of the program's activations
(`Shadows`), that the resolver's activation shares the stack pointer of the one below it
(`FramesOK`; so the pop of a return never stops at one), and that `left`, the program's view
of its last exit, is `last_exit` or its saved copy. `PopsTo` computes what `pop_stack` leaves
from the frames a return ends: as stack pointers are ordered, the activations that share one
are a suffix.

`EventQueueProofs` proves, for any capacity and any locations, that at every exit and at the
end of a block the promise has been emitted (`ExitsComplete`), and that an exception loses at
most the tail (`FaultsLoseTheTail`). The promise and the queue are both flattened sequences;
`FlattenAppend`, by induction on the length, gives what one more element adds to each. The
invariant `Reported` says that what is emitted followed by what is queued is the promise, and
`EndsAgree` that the last slot is a load exactly if the last access of the block is that load.
That is why `addEvent_Dw` may merge before it makes room, whatever a flush has taken out.

`RoutineCostsProofs` proves, for any routines, any input sizes, any width of a ULong and any
interleaving of threads with separate or shared reports, that everything has its type
(`TypeCorrect`: no cost, counter or sum falls below zero, and no context is deeper than its
stack), that the counters of a thread agree with its stack (`CountersAgree`), that activations
are filed under the chain of their callers (`FiledUnderCallers`), that a report defines the
contexts it names but those that hang from an uninitialised pointer (`ReportsComplete`), that no assertion of `merge_tuple` fails on a tuple and
no cost exceeds the maximum printed with it (`TuplesPass`), and that the costs implement
`RoutineTimes` (`CostsImplementTimes`). `ThreadOK` is stated of a `ThreadData` and the routines on its stack, not of
the thread that has it, because the exits of one step pass through states that are in no
behaviour. Its parts need each other:

* `ClockOK`: an activation and its children end before the one above begins, so that
  differences of clock readings are costs, although the exit of a skipped routine sets the
  clock back, to its start and no further;
* `CountsOK`: an activation that is left with `skip` 0 is timed, so its `recursion_pending` is
  positive and its slot has its own node (`TopIsTimed`);
* `ContextsOK`: a slot may have a node that an earlier activation has left, but that one is in
  the tree as well, and no deeper than the slot; or it has garbage. So the node made from what
  `parent_CCT` finds is linked, or is a path from `Garbage`; and with no discarded caller it is
  the caller's own.

The exits of a step, each with a size of its own, are a recursive function, whose existence (`ExitsExist`) and invariant
(`ExitsKeep`) are inductions over the number of exits.

The refinement maps an account to three sums: over the tuples of the running threads, over
those of the reports, and over the activations on the stacks (`AccountsNow`). One thread is set
apart from the others (`OneApart`), which a step leaves alone. A block moves its thread's clock
by one, which is one unit for the routine on top and for the outermost activation of each
routine on the stack (`CostsTick`), and none under a skipped routine. A call adds an activation
that has cost nothing (`CostsPush`). An exit moves what the activation has cost from the stack
into a tuple, or, if the routine is discarded, drops it, since `RoutineTimes` asks for no account
of those (`CostsPopTimed`, `CostsPopStopped`); what is left is a `Leave` (`ExitLeaves`), and the
exits of a step together are `LeaveMany` (`ExitsLeave`). The exit of a thread moves its tuples
into a report; the `k` that it prints, with the skipped cost and modulo `ULongSpan`, is the
clock's reading, since no clock wraps. That needs `Exact`, which adds to `IInv` that there are
finitely many threads, tuples and reports, that only the last thread prints a single report,
and `Budget`: all clocks together, with what their stacks may still add by doping, stay within
what that many blocks can cost. `Maxima`, on top of `Exact`, says that no tuple holds a call
that has cost more than its owner's clock reads; an exit files no more than that, and a clock's
reading never goes back (`Grows`).

`NaturalLemmas` has what the searches and counts rest on: least and greatest elements, the
cardinality of a set split in two, and induction in the form of a set of numbers closed under
successor or of finite sets closed under one more element, which needs no operator as a
parameter. Sums over finite sets (`Total`) are values of a chosen function that satisfies the
recursion; what one more, one changed or one renamed term does to them is proved there, as is
the little of `%` that the printed costs need.

Each inductive invariant was model-checked on the instances of section 3 before it was proved.

Assumptions: the named `ASSUME`s of the modules, that is: cells and threads are finitely many;
chunks partition the cells; the skipped routines are routines; the stack bound plus one is
below the id span, and three times the activations of all threads, with some to spare, below
the last count; a UInt holds twice the buffer, and an errno is small; code is described by
records of the right form, debug information marks only first blocks of functions as entries,
and the resolver is known by its name; the queue has room for one event; the fields of a run
are set, it tries at least one name, and "nothing to unlink" is not the name of a file; skipped
and discarded routines are different routines, input sizes are naturals, of which one is the
largest, and even if every block calls a doped routine that ends with it no clock reaches the
span of a ULong (the code has 64 bits and checks nothing; only `CountsExact`,
`CostsImplementTimes` and `TuplesPass` use this); the owner of the tuples of a single report is
no thread, `Garbage` is no routine, and no node is not a node.

Only model-checked:

* liveness (`CallsReturn`), which the prover does not support. What it rests on besides the
  fairness of `VG_(write)`'s callers is proved: `CallsEnd`.

Every safety property, action property and refinement of a passing run has a theorem.

## 5. Findings

1. `drms_chunks`: after an overflow, never-written cells of an allocated chunk get timestamp
   1 and a thread that has no chunk for them 0: its next read of such a cell is counted as
   input from another thread (`lookup_table.c:450`).
2. `drms_out_of_order`: an overflow while a skipped routine is open meets stale or zero ids,
   and may dereference NULL (`overflow.c:181`).
3. `buffered_file_errors`: the result of `VG_(write)` is unsigned, so its assertion never
   fails and a full disk truncates reports silently (`fwrite.c:58`).

4. `call_stack_clone`: a failed clone ends in `thread_exit` of a child that never ran, which
   clears `current_TID` of the running parent; the next switch gives the parent a stale
   `last_exit`, and its next block is taken for a call or a return (`thread.c:119`).

Divergences without a run of their own. The models have the behaviour of the code:

* The comment before `overflow_handler_drms` says it returns `3 * size(active_ts)`; the code
  returns `3 * (sum + 1)`, and `TimesOrdered` fails with the smaller value.
* `act->node` of a discarded routine is the one an earlier activation has left in its slot, and
  `parent_CCT`, which would skip a NULL (`cct.c:48`), takes it for a caller's (`function.c:99`).
  In a slot that `resize_stack` has added it is whatever `VG_(realloc)` returned
  (`callstack.c:57`): the context made next then hangs from a wild pointer, outside the tree.
* The `k` of a report lacks `skip_cost` twice (`report.c:255`, `report.c:260`), and with
  `--incremental-log` lacks the merged runs (`report.c:267` reads `extra_cost` first).
* In `aprof-helper`, `extra_cost` goes from one group to the next (`aprof-helper.c:60`), so each
  new report has the costs of those before it in its `k`; `-r -t` never merges across threads,
  as `reset_data` clears `merge_threads` (`aprof-helper.c:60-80`); `binary_mtime` is not reset,
  so a second group of another binary, and `-i` with one, fail an assertion
  (`aprof-helper.c:200`, `aprof-helper.c:346`), as reports with calling contexts do.
* `merge_report` leaves the file of every report it merges open (`merge.c:817`).

And outside the models: the names of `u` lines are lost by a merge; `main.c:485-490` rejects
incremental reports with contexts while its message speaks of a single log; `-k` prints
"Passed" whatever `merge_report` returns; a report of cost 0, as that of a failed clone, fails
the assertion `sum > 0` at `merge.c:611`.

## 6. Not modelled

* What a wild pointer in a slot of a discarded routine destroys when a child is linked to it.
  A context made there is a path from `Garbage`; the tool may as well crash.
* In `DrmsProfiler`, ids that are garbage in slots beyond the first 64: skipped routines have
  them stale or 0. Only an overflow out of order reads them, and `drms_out_of_order` shows
  that one.
* With `-t -r`, the name of a report that the first round wrote may give another resolution than
  its `t` line (a pid that came again, its first report empty): that the second round rejects
  it for its name is only contained in `ToolSkips` and `ToolFails`, which need no reason.
* Guarded loads and stores (`StoreG`, `LoadG`): the `switch` of `instrument` has no case for
  them and ends the tool.
* A `VG_(write)` of 0 bytes without an error: the loop of `fflush` goes round and nothing has
  changed, a stuttering step. `CallsReturn` assumes that this does not go on for ever.
* The hash table: sequential code behind the maps the modules use (tuples by key, functions,
  reports by name). Its growth during an iteration is local to it.
* `fix_access_size` and the split of buffers and iovecs in `syscall.c`; the address arithmetic
  of `lookup_table.c`: arithmetic without state.
* `--single-log` with `--collect-cct`: the first thread to exit frees the tree the others use
  (`thread.c:109`), after which nothing has a defined meaning.
* How a line of a report is cut into tokens. A line that is cut off (`torn`) fails an
  assertion; the numbers of a tuple are sums, checked by `TuplesPassMerge`.
* `aprof-helper -k`, `-a` and `-d`, and failures of `mkdir`, `cp` and `fopen` in it.
* Registration with Valgrind, option parsing and the search for names of blocks in `main.c`
  and `callstack.c`: calls of the core's API without state of their own.
* The viewers and experiments (presentation and numerics), the debug allocator (compiled out),
  vendored Valgrind, which is nearly all of the repository's lines.

## 7. The plan

Done: RMS, DRMS, the tracker under a program, the event queue, costs with contexts, reports
and both kinds of merge; proofs about RMS, DRMS, the tracker with and without a program, the
event queue, the file writer, costs with contexts and their refinement of `RoutineTimes`,
reports and what aprof-helper makes of them. Every safety property has a theorem. What could
follow, in this order: the two runs that end at the same time (`merge.c:831`) with a bound on
how often a run is then counted; `fix_access_size` and the address arithmetic of the lookup
table as functions checked against their definition.
