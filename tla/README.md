# Lucen, in TLA+

Lucen turns marked `for` loops of a Python file into parallel code: an import
hook scans pragma comments, a rewriter and a selector decide what is safe, a
generator emits a chunk function and a sequential twin, and a runtime
(`lucen.execution.dispatch.execute`) runs the block on threads or processes,
falling back to the twin whenever anything is in doubt. This directory models
both halves, the road from a pragma to a rewritten and cached module and the
runtime that runs it, checks them with TLC and proves parts of them with TLAPS.

## Inventory

| Part | State it keeps | Operations | What is hard | What makes it correct |
|---|---|---|---|---|
| `execution/dispatch.py`, THREAD | module-wide pool, stats, memo, collected errors; per call: plan, probe record, futures, records | `execute`, probe, submit, wait, join, abandon, commit, twin | workers run beside the caller; errors, timeouts, interrupts and refused threads at any point; fallbacks resume elsewhere | the containers end as the loop leaves them; no iteration lost or repeated; nothing committed before the join; every call ends |
| `execution/planning.py` | the materialised domain | bounds, index and element lookups | rounding, short last chunk | the chunks tile the domain |
| `execution/process_backend.py` | one process pool for all blocks | `run_chunks`, recycle | a recycle under another block's futures, pickle failures half-way, a second look at the clock | as THREAD, and one block's timeout does not harm another |
| `execution/wavefront.py` | levels of a recognised DAG | run and commit a level at a time | failure after some levels are committed | a level reads only committed levels; each iteration once |
| `execution/early_exit.py` | low-water mark of the first break | run chunks, commit up to the mark | chunks race to lower the mark; breaks of inner loops are noted too; an error beyond a break | the loop stops where the sequential one does |
| `execution/runtime.py`, `_accel.py`, `lucen_core` | none | slab commit, audit, fold, paths | index and `SKIP` edge cases, two implementations | both agree with the loop |
| calibration (`dispatch.py`, `costmodel.py`) | `_memo` | lookup, record, profit test | concurrent callers, regime boundaries | a stale cost is not used past its limit |
| `execution/preflight.py` | none | `check` | order of refusals | nothing unsafe passes |
| `nested_guard.py`, `affinity.py` | a thread-local flag | enter, leave | worker threads that dispatch again | inner blocks run sequentially |
| `support/errors.py`, `config.py` | fallback records, mode, limits | report, raise, clamp | unlocked lists | hard mode never falls back silently |
| `analysis/` (scanner, rewriter, analyzer, selector, trust, purity) | none across files | pair pragmas, classify writes, choose eligibility | many special cases that must all be conservative | nothing with a cross-iteration dependence is called parallel |
| `codegen/` | none | emit chunk function and twin | error guards differ between the two | both do what the loop body does |
| `import_hook.py`, `support/cache.py` | artifact cache | load, store | concurrent importers, stale entries | what is loaded is what would be generated |
| `clauses/registry.py`, `cli/` | none | parse clauses, print reports | | |

How they interact: the import hook calls scanner, analysis and code generation
once per file and leaves calls to `execute` in the rewritten module. `execute`
asks the nested guard, the recursion headroom and preflight for leave, sizes
the block from configuration, probes chunk 0, and hands the chunks to one of
the back ends. Chunks share nothing but the pool, the budget semaphore and (in
blocks without slabs) the caller's own objects; their records come back through
futures. Everything that goes wrong ends in an exception, or in the twin.

## Modules

| Module | Models | |
|---|---|---|
| `Iterations` | the positions of a loop and the sequence of effects it leaves | shared vocabulary |
| `Chunking` | `planning._bounds`, `dispatch._contiguous_prefix` | pure |
| `ThreadPool` | CPython's `ThreadPoolExecutor` and `Future`, as far as they are used | external |
| `SequentialLoop` | what a block promises: to look like the loop | abstract specification |
| `ThreadDispatch` | one call of `dispatch.execute` on the THREAD backend, with its workers | detailed specification |
| `ProcessPool` | CPython's `ProcessPoolExecutor`, as far as it is used, one generation per pool the program creates | external |
| `ProcessDispatch` | `process_backend.run_chunks` in several threads, on the one process pool | detailed specification |
| `EarlyExit` | `early_exit.execute_early_exit` with the jobs it puts on the pool | detailed specification |
| `Wavefront` | `wavefront.execute_wavefront`, a level at a time, and the twin behind it | detailed specification |
| `LoopBody` | the bodies of marked loops, and what one iteration of them does, as written and as generated | interpreter |
| `Rewriter` | the events and the classes of `analysis/rewriter.py` | pure |
| `Selector` | `analysis/analyzer.py`, `analysis/selector.py`, the plan of `codegen/generator.py` | pure |
| `Selection` | a block from its source to what two interleaved chunks of it leave | composes the four above |
| `Clauses` | the clause parser, the registry of clauses and what reads a value | pure |
| `Pragmas` | scanning, pairing, trust and the splice of the rewritten module, whatever the clauses mean | state machine |
| `PragmaClauses` | the same with the clauses of `Clauses` | composes the two |
| `ImportHook` | `import_hook.py` and `support/cache.py` in several processes on one disk | state machine |
| `MC...` | values of the constants for TLC, one for each module that is run | |
| `ChunkingProofs` | the chunks tile the domain; what extending a prefix of the loop leaves | proofs |
| `ThreadDispatchProofs` | every safety property of `ThreadDispatch` | proofs |
| `ProcessDispatchProofs` | every safety property of `ProcessDispatch` | proofs |
| `WavefrontProofs` | every safety property of `Wavefront`, and that it implements the loop | proofs |
| `PragmaClausesProofs` | every property of `Pragmas` and `PragmaClauses`: no pragma is ignored, only marked loops are replaced, what the clause parser reads and the registry lets through | proofs |
| `SelectionRelations` | how a chunk's frame and containers stand to those of the loop | definitions for the proofs |
| `SelectionProofs` | every safety property of `Selection`: what a block leaves is what the loop leaves, it ends without a new exception, and chunks in place keep to their own elements | proofs |
| `EarlyExitProofs`, `ImportHookProofs` | invariants of those modules | proofs |

`Chunking` is used by `ThreadDispatch`, `ProcessDispatch` and `EarlyExit`;
`SequentialLoop` is the abstract specification that `ThreadDispatch`,
`ProcessDispatch` and `Wavefront` are shown to implement. What `Selection`
decides (the kind of slab, levels, a reduction) is what a block of the three
run-time modules starts from; what `Pragmas` keeps of a file is what
`ImportHook` calls a rewritable text.

### ThreadDispatch

A block is a record of what its clauses and its analysis decided: where its
writes go (`kind`), which gate stops it before the parallel path, and the
clauses that change the control flow. It is picked by `Init` with the
iterations that raise and the key each iteration writes, and never changes.

`pc` follows the calling thread through `_execute`:

    enter -> probe -> profit -> submit -> wait -> cancel -> commit -> end
       \________________\__________________________\_______\-> twin -> end

* `Enter` is `_execute` up to the probe: nested region, recursion headroom,
  preflight, sequential backend, static prediction.
* `ProbeTwin` and `ProbeChunk` are the two probes of chunk 0: on the twin, into
  the caller's containers, when the block has no reduction and no dict slab;
  otherwise on the chunk function, into a record that is committed later.
  Whether the memo answers instead, and whether the block is then profitable,
  is left open (`Enter` may go to `profit`; `Profitable`, `Unprofitable`).
* `Submit`, `SubmitFails`, `InterruptSubmit` are `_submit_all`.
* `WaitReturns` (slabs and in-place blocks) and `DirectReturns` (the buffer
  path) are the two waits; `Interrupt` is a `KeyboardInterrupt` in either.
* `CancelOne` cancels one future; `Quiet` is the return of the wait that
  follows; `SettleRefused`, `SettleInterrupt`, `SettleTimeout`, `SettleDirect`
  do what each caller of it does next.
* `JoinError`, `JoinConflict`, `JoinAll` are `_join`; `CommitOne` commits one
  record, `Committed` goes on from there; `Twin` is an iteration of the twin.
* `Take`, `Start`, `Discard`, `Acquire`, `Iterate`, `Leave` are a pool worker.

`log` is what the caller's containers show: the iterations whose effects are
there, in the order they were applied. A slab's writes enter it when its record
is committed, those of the other kinds when the iteration runs.

What is abstracted: an iteration is atomic (an iteration that raises leaves
nothing); a dict slab is the set of keys its iterations write; an accumulator
is one reached through a path, which a commit assigns as soon as it folds; the
progress, error and timeout callbacks return; a second Ctrl-C does not come
during a tear-down; the pool is used by one call at a time.

### ThreadPool

Three things in the executor matter and are modelled as they are: `submit`
queues the item before it starts a thread, so a submit that fails leaves it
there; a worker takes an item and only later moves its future to RUNNING, so a
cancel can succeed on an item in a worker's hands; threads are started lazily,
and only when no idle one is counted.

### ProcessDispatch

Every caller is a thread of the program in one call of `execute`, past the gates
and the probe that `ThreadDispatch` models; `block[k]` says what the probe did,
which iterations raise and what pickling does to each chunk. Per caller:

    open -> submit -> wait -> woken -> rest -> gather -> commit -> end
      \        |                  \-> killed -/   |       ^  \
       \       \-> drain -------------------------\-------|   \-> twin -> commit
        \---------------------------------------------------/

* `TakePool` is `_ensure_pool` with the checks of the entry script and of the
  first bundle. `Submit`, `SubmitRaises`, `PickleFails` are the loop over the
  chunks, `Drained` the end of the wait after a late pickling failure.
* `WaitReturns` is the wait with a timeout; `TimesOut` and `WaitsForRest` are
  what follows, after a second look at the clock; `RestReturns` is the second
  wait, without a timeout.
* `GatherFails` is a future of `_records_of` that raises, any one of them, since
  it reads an unordered set. `CommitPrefix` is the timeout's commit; `JoinError`,
  `JoinAll`, `CommitOne`, `Committed` and `Twin` are those of `dispatch.py`.
* `HandOver`, `Flush` and `Break` are an executor's manager thread, `RunChunk` a
  worker process. A chunk runs in one step: nothing of it shows before its result.

`pool` is the module's `_pool`, `gen[k]` the one a caller took. `Recycle` acts on
the first, whatever the second is, as the code does.

What is abstracted: cancelling several futures is one step; a worker's death and
the manager thread's notice of it are one step; records are those of list slabs
or reductions (dict conflicts are in `ThreadDispatch`, on the same `_join`);
gathering under `on_error=` likewise.

`ProcessPool` states what a wait sees: a future cancelled by its owner is
notified when its job is dropped, one cancelled by a shutdown never is.

### EarlyExit

`pc` is the calling thread (`submit`, `wait`, `end`), `chunk[c]` a job on the
shared pool:

    none -> queued -> taken -> waiting -> running -> ran -> done
                          \-> skipped        \-> failed

* `Submit`, `SubmitFails`, `Interrupt`, `JoinError` and `Join` are
  `execute_early_exit`; `Committed` is `_commit_prefix`, `StopsAt` is what
  `_rebind_exit` gives back to the loop variable.
* `Take` is a pool thread, `Look` the job's look at the low-water mark, before it
  waits for the budget (`Acquire`); `Iterate` is an iteration of the chunk
  function, `Offer` what the job does with what it noted.
* `Met` and `Noted` are what `visit_Break` puts before every `break` of the body,
  one of an inner loop included: the iteration is noted, over the one noted
  before. A break of the marked loop (`breaks`) stops the chunk; one of an inner
  loop (`inner`) does not, and what is noted last is offered.

The code offers a break as the *value* of the loop variable and compares the mark
with *positions*; both are in the model (`Value`, `Below`, `Reached`), and
`Aligned` says when they are the same. `Misled` says of the data of a block when an
inner loop's break puts the mark before the loop's own stop: a chunk that the loop
runs to its end, with no break of the marked loop, noted one. The properties hold
of the mark always and of the loop unless `Misled`. A dict slab is cut to as many items as
there are positions, in the order of the writes, which `Committed` keeps.
Abstracted: an iteration is atomic; the pool starts a thread for each job until
it has `Threads`, and its queue is in order; ranges that descend or start below
0 are left out.

### Wavefront

`Cuts` is `_level_bounds` (thresholds of the least divisor, by ceiling division
over any start and stride) and `KeyCuts` the levels of `depend=acyclic`, whose
keys must ascend (`Ordered`). `from` is where the next level starts. A level ends
in one of the ways the code has for it: `RunLevel`, `LevelConflicts` (a cell
written by two of its chunks, in a container that is audited), `LevelRaises`
(what is before the error is committed), `LevelAbandoned` (a timeout or an
interrupt commits a completed prefix of chunks), `LevelRefused` (`_run_wide`
returns `None`, and `_execute` runs the twin from the start). A level narrower
than the grain runs on the calling thread, without audit, timeout or refusal.

`shown` and `counted` are what the container and the accumulator hold, and
`stale` is set when an iteration reads an element that is not as the loop would
have it. A level's chunks are one step: how they interleave is
`ThreadDispatch`.

### LoopBody, Rewriter, Selector, Selection

`LoopBody` is a small language of the bodies a marked loop has (assignments,
augmented and accumulating ones, stores at an index, nested and dict stores,
mutations, `if` with two arms, an inner `for`, a walrus, `break`) and one
interpreter, `Iteration`, that runs an iteration of it under a plan (`WellFormed`
says which sequences of statements are bodies: an arm after its `if`, an inner loop
in one piece): for each
container no slab, a list slab or a dict slab, and for each accumulator a site of
contributions. With the empty plan it is the loop as written. A value is the
sequence of what went into it, so that two results are equal only if they were
computed from the same loads in the same order.

`Rewriter` gives each name of a body its events, in the order and under the
branch contexts of `rewriter.py`, and its class (`LOOP_LOCAL`, `SHARED_SCALAR`,
`READ_AFTER_WRITE`, ...). `Selector` gives reads their shapes, a block its
eligibility, and names what `generator.py` can translate (`Supported`) and how
(`Artifact`: slab kinds, reductions, divisor, direct run). `Selection` puts them
in a sequence: `Decide`, then `Leave` or `Start`, `Enter` a level, `Iterate` in
two chunks that take turns, `Join`, `JoinConflict` or `JoinError`, `Twin`.

The question of `Selection` is the one of the whole program: is what is let
through what was written? `Understood` names the bodies for which the answer is
no, each as a predicate of its own with the reason (see below).

Abstracted: comprehensions, `try`, `with`, lambdas, aliasing and calls; two
chunks; containers are indexed by a few integers.

### Clauses, Pragmas

`Clauses` is `_ClauseParser` over tokens, the registry (`Legal`: for each clause of each pragma its form, its parts
and their types) and the readers (`Readable`: what preflight, selector and
dispatcher take out of a value without asking). The parser moves along the text as
it reads; in the model every form is read from every position at once: `Readings(ts)`
is a recursive function on `Places(ts)`, a form and a position, and `Primary`,
`Items`, `Value`, `Args` and `Pairs` say what a form reads there from what is read
at the places it goes on to. `Parse` is the clauses from the first token. A loop of
the code is read from its end: an element and the `Others` after it, so that of a
name used twice the first is the one refused.

`Pragmas` reads a file a line at a time (`ScanLine`, `ScanRefuses`,
`ScanEnds`), pairs the pragmas one at a time (`PairStart`, `PairEnd`,
`PairTrust`, `PairingEnds`) and rewrites: `Rewrite` finds the loop of each
block and drops the blocks whose trusted calls are unsound; `Splice` replaces
the loops that are `left`, one to a step and the last first (the sorted
replacements of `rewrite_module`), until the module is `Rewritten`. A line is one
of some twenty kinds. `SplitLines` is the source as `str.splitlines` has it,
which is what the hook splices.

What `Pragmas` asks of the clauses of a pragma are constants: whether the scanner
takes them (`Allowed`), and for a TRUST pragma whether they name its function
(`Named`) and allow the arguments a loop hands over (`Shares`). The runs give them
the operators of `PragmaClauses`, which parse the text; the proofs hold for any.

### ImportHook

Importers are processes: `Begin`, `Read`, `Load`, then `Rewrite` or `Refuse`,
`Open`, `Write`, `Replace`, and `Exec`. `Edit` changes a file between any two of
their steps, `Crash` ends a process where it is, `PowerLoss` ends them all and may
tear any entry. A full disk and a cache directory that cannot be made fail the
steps that touch them (`OpenFails`, `WriteFails`). `disk` maps the key of the
code (base name, source, versions) to an entry; what an entry holds is what it
was made from. Abstracted: a hash of a source is the source; a text is one of
five kinds, by what the rewriter makes of it.

## Runs

| Run | Question |
|---|---|
| `thread` | Over every kind of block, gate and fault: is any iteration lost, repeated, committed too early or out of order, is the right error raised, are the right errors gathered? |
| `thread_loop` | Is a transactional block the sequential loop, when no lower chunk can be cancelled, and does its call end? |
| `process` | With two blocks on the pool, and any of them recycling it: does each block leave what it should, and are pools never leaked, reused dead or taken shut? |
| `process_loop` | Is each block the sequential loop whatever happens to the pool, and is a cancelled future the only thing that keeps it from ending? |
| `early_exit` | However the chunks race to the break: is what is committed what the loop does up to the mark, is the mark where the loop stops (unless an inner loop's break misled it), is no chunk before it skipped, is no writer left behind, does the call end? |
| `wavefront` | For every start, stride and divisor: does a level depend on committed levels only, does an accumulator hold each iteration once, and is the whole the sequential loop? |
| `selection` | Does what the analysis lets through leave what the loop leaves, or raise what it raises, and do chunks that write in place keep to their own elements? |
| `pragmas` | Is every pragma answered, is nothing but marked loops replaced, does a clause hold what was written and what its readers take? |
| `import` | Does a process only ever run a rewrite of the text it read, by its own version, and does the cache survive races, deaths and a full disk? |
| `v_selection` | Is a value met twice caught whatever is written at it? Not where rows are updated in place. |
| `v_cache` | Is `early_exit` vetoed for a process that does not allow it? It is not. |
| `v_pragmas` | Are only the marked loops replaced, in a file with a form feed? They are not. |

### Bounds

* `thread`: five iterations asked for in three chunks give chunks of 2, 2 and 1:
  a probed chunk, a full one and a short one. After a probe two chunks are left,
  without one three. Two budget slots and three pool threads make a chunk wait
  for the budget while another worker holds an item it has not started; fewer
  threads than chunks (`thread_loop`) makes items wait in the queue. Errors fall
  in the probed chunk, in a later one, in two chunks at once or nowhere. Keys are
  all distinct, or the last iteration writes the key of the first.
  `MCThreadDispatch` lists the blocks: each kind, each gate, with and without
  each clause.
* `process`: two callers are enough for one to recycle the pool under the
  other, and for a pool created after a recycle. Two worker processes let chunks
  end out of order; the call queue of five holds most of the six jobs, and the
  manager thread may be slow to fill it, so jobs are also found pending.
  `process_loop` has one process and a call queue of three, where jobs are always
  left pending. Deadlock is not checked: a caller that waits for a future
  cancelled by a recycle does stop for ever.
* `early_exit`: the same three chunks, fewer budget slots than threads; breaks in
  none, one, two and three of the chunks, before and after the write, beside
  errors in the middle and in the last chunk; breaks of inner loops in none, one
  and two of the chunks, before, beside, after and instead of those breaks, so that
  the mark is overwritten, ignored and misled, and one at the end of the domain,
  which misleads nobody; one domain that does not start at 0
  and one that strides, for the properties that do not ask for an aligned one.
* `wavefront`: seven iterations reach the third power of 2 and the second of 3;
  starts from -3 to 5 put the first threshold before, on and after the first
  element; strides 1 to 3 skip thresholds, -1 is the descending range the code
  gives to the twin. A grain of 2 makes some levels narrow, a width of 3 cuts
  others into chunks with a short last one.
* `selection`: the bodies are all pairs of some twenty statements, the same under
  `if` and in an inner loop, some triples, and loops whose inner loop binds the
  index again; five iterations in two chunks
  give `i // 2` and `i - 1` something to reach across the cut.
* `pragmas`: every file of six lines over the structural kinds and of five over
  the others, and every clause form the registry names with one token removed,
  replaced or inserted, and with its tail cut.
* `import`: two processes are enough for a store to race a load or another store;
  one edit and one power loss at any point; two versions, two modules that share
  a base name, one out of scope.

### Fairness

The caller, the pool and each worker run when they can: they are
operating-system threads and the code holds no lock while it waits. Nothing is
assumed of faults, of the deadline, or of iterations other than that they end.
The same holds of every caller, manager thread and worker process in
`ProcessDispatch`, of the caller and each job in `EarlyExit` and of the calling
thread in `Wavefront`. `Selection`, `Pragmas` and `ImportHook` have safety
properties only.

## Where the code and its documentation disagree

Several properties carry a condition. Each is a case in which the code does
something else; those marked with a run are checked as violations, the others
can be reproduced as said.

**Threads** (`RaisesLowestError`, `AbandonedLeavesPrefix`, `NoneTwice`,
`NoWriterAfterEnd` carry the conditions). `ThreadDispatch` states what the
documentation promises as `ErrorLeavesPrefix`, `AbandonLeavesPrefix`,
`GathersInsteadOfRaising` and `InPlaceOnce`. To see each fail, take `thread.cfg`
with that one invariant and the blocks and values in parentheses.

* A chunk below the one that fails can be cancelled after a worker took it and
  before it started; its iterations are missing from what is committed
  (`ErrorLeavesPrefix`; `UncalibratedLists`, `PoolSize = 2`, no faults).
* The record of a chunk-function probe is not part of what a timeout or an
  interrupt commits, and the prefix rule starts at the first record it is given,
  so chunks 1.. can be committed without chunk 0 (`AbandonLeavesPrefix`;
  `DeadlineDicts`, `Workers = PoolSize = 1`).
* When the probe finds a block unprofitable (`dispatch.py:331`), the
  record of a chunk-function probe is dropped with the errors it gathered under
  `on_error=`; the twin raises a later one (the exemption in the last conjunct of
  `RaisesLowestError`).
* The probe of a block without dict slab and reduction runs the twin, which has
  no handler for `on_error=` (`GathersInsteadOfRaising`; `CollectBlocks`).
* A pool starts threads lazily: when one cannot start, others may already run
  chunks. A block that mutates in place then has effects twice, and the item of
  the failed submit stays queued (`InPlaceOnce`; `InPlaceBlocks`, `Faults =
  {"no_thread"}`).
* An interrupt in `_submit_all` is not handled, so workers outlive the call.

**Processes** (`KilledLeavesPrefix` has the condition of
`AbandonedLeavesPrefix`). `Terminates`, `FailuresFallBack` and `TimeoutKills` of
`ProcessDispatch` are the promises; they fail under `FairSpec` with `N = 4`,
`NChunks = 2`, `Procs = 1`, the blocks `TimedPrograms`, no faults and no
deadlock check (the first and the last as a `PROPERTY`).

* `_recycle` cancels whatever is pending in the module's pool. A block whose jobs
  those are waits for ever (`EndsUnlessOrphaned` is what remains); one that is
  still submitting gets `RuntimeError`, as does one that meets a pool that broke
  while idle (`BrokenProcessPool`), which nothing replaces.
* A shutdown does not kill a process.

**Early exit** (`StopsAtFirstBreak`, `KeepsTarget`, `InPlaceMissesNothing` ask
for an aligned domain, the first for one key an iteration and a slab; these and
`SkipsOnlyBeyondBreak` except `Misled`).

* "An inner-loop `break` is not mistaken for an early exit of the marked loop"
  (`docs/spec/lucen_technical_spec.md:205-206`). The rewriter does not mistake it
  (`rewriter.py:513-515`): such breaks alone make no block an early exit. But in a
  block that also breaks out of the marked loop, `visit_Break`
  (`generator.py:236-239`) notes the iteration before every break, whatever
  `_loop_depth` is, and a chunk that ran on to its end offers what it noted
  (`early_exit.py:41-43`). The mark then falls where the loop does not stop: later
  chunks are skipped, their part is not committed, and the loop variable is rebound
  to the wrong element. `InnerBreakIsNotTheExit` is the promise (TLC violates it,
  and `MatchesFirstBreak`, with the constants of `early_exit.cfg`), and `InnerBreaks`
  proves that it holds exactly when the block is not `Misled`.
* A `break` in the `else` of an inner loop leaves the marked loop, but the rewriter
  takes it for the inner loop's (`rewriter.py:505-507`, `590-592`), so that the block
  is no early exit. The bodies of `LoopBody` have no such `else`.
* A break is offered as the value of the loop variable (`early_exit.py:59-62`)
  and compared with positions: over `range(2, n)` the prefix is two too long
  (`MatchesFirstBreak` with `OffsetBlocks`).
* A dict slab of two keys an iteration is cut to half its items
  (`early_exit.py:94`).
* An error beyond the break is raised, where the loop would have stopped.
* Blocks that write in place have effects beyond the break.
* The call site passes `_plx_exit`, which `dispatch.make_spec` takes for a
  parameter of the chunk function: a rewritten block with a break ends in
  `NameError`, also in a process that never allowed the experiment and found the
  entry in the cache (`v_cache`).

**Wavefront.** A level that cannot be submitted after others were committed is
followed by the twin from the start: an accumulator then holds the committed
iterations twice. `ReadsAsTheLoop` and `CountsOnce` except that path (`rerun`);
`NoneTwice` with `Reductions` and `NoRaises` shows it. A conflict under
`depend=acyclic` is raised instead of rerun.

**Selection.** `Understood` lists the bodies that are let through and not as
written; each is a predicate of `Selection`.

* `RebindsIndex`: the body, or an inner loop, rebinds the loop variable, and its
  index is taken for the header's. A loop variable used after it was rebound is
  classified by the event before.
* `ReadsWhole`: `total(ys)` is not seen to depend on `ys[i] = v`.
* `AccumulatesRight`: `t = x + t` is folded as `t + x`.
* `BindsMaybe`: a local bound by a walrus or an inner loop that may not be
  reached is unbound in a chunk; locals also do not survive the loop.
* `WritesRow`: `rows[i][0] += 1` is given the slab of `rows`, so that a
  row is added to a number and the chunk raises `TypeError` (`generator.py:301`;
  `EveryBodyRuns`, in `v_selection.cfg` with `Bodies <- Rows`); under `depend=none`,
  `rows[k[i]][i] = v` uses the last subscript as the key of the first.
* `SharesRows`: `rows[v][0] = x` at an index by assumption is written in place,
  with neither slab nor audit (`generator.py:52`); where `v` comes twice, two chunks
  write one row and the later of them, not the later iteration, decides (`v_selection`).
* `RereadsRoot`: `dp[i // 2]` at `i = 0` is `dp[i]`, read from the container
  though the slab has it.
* `UndoesNothing`: after a conflict in a dict slab the twin runs over what the
  chunks changed in place.
* `OnTrust`: what `depend=none` asserts is not checked.

`Shadows`, an inner loop that binds the index of the loop again, is no ground
for refusal either: `rewriter.py:588` suppresses the name and emits no write of
it, so a store at that index after the inner loop counts as one at the loop's own.
Where chunks then write in place, they write each other's elements;
`OwnElementsOnly` excepts it (and `RebindsIndex` covers it in `Understood`).

A list slab committed over a range that starts below 0 wraps to the end of the
list. `strict=true` raises where the selector gives up, and does not where the
analysis or the generator does (`pragmas.md:87`).

**Pragmas.** `splitlines` ends a line at a form feed, `tokenize` and `ast` do not
(`v_pragmas`). `on_error=collect()` passes the registry and ends its loop in a
`KeyError` (`preflight.py:70`); `ReadersFindTheirParts` excepts it. The value of
`qualname` is never compared, and of several trusted definitions the `args` of
the first count for all.

**Import.** A cache directory that cannot be made, or has no room for a temporary
file, fails the import (`OpenFails`): `cache.py:60-63` is outside the `try`. Two
files with the same base name and the same source share an entry, whose artifacts
name the other file. `find_spec` takes a directory whose name begins like a
scoped one for it (`import_hook.py:54`).

## Proofs

Every theorem holds for every value of the constants that satisfies the named
assumptions (`IterationsAssumption`, `ChunkingAssumption`, `PoolAssumption`,
`DispatchAssumption`, `ProcessAssumption`, `EarlyExitAssumption`,
`ImportHookAssumption`, `WavefrontAssumption`, `PragmasAssumption`,
`LoopBodyAssumption`, `SelectionAssumption`): TLC evaluates each of them in some
run.

`ChunkingProofs` proves `Tiling` from the assumptions that `N` and `NChunks`
are positive: chunks are nonempty, start at 0, follow one another, end at `N`.
Products of variables are beyond the solver, so the two bounds on a floor
division (`DivBounds`) and the monotony of `c * Step` are lemmas. `OneChunk` and
`SomeChunk` turn the tiling into what the other proofs use: every position is in
one chunk and only one. `Bound(m)` is where chunk `m` starts, and `ExtendIota`
what committing it after the chunks below leaves: the loop up to `Bound(m + 1)`.

`ThreadDispatchProofs`:

* `TypeCorrect`: `Spec => []TypeOK`. `TypeOK` is inductive as it stands.
* `WholeLoop`: `Spec => []ReturnsWholeLoop`. That a block which returns has
  done the whole loop depends on the whole walk, so the invariant `IInv` says
  where the walk can be: what `log` and `cur` are at each `pc` (`LogInv`), which
  futures the caller holds (`SubmitInv`), that a finished future ran to its end
  or has an error (`FuturesInv`), that what the wait saw is still so at the
  join (`WaitInv`), that no worker has the probed chunk (`ProbeInv`), and that
  the outcome is not decided too early (`OutcomeInv`). The heart is `LogInv` in
  the commit phase: the records left are those from some chunk `m` on, and the
  containers show what the chunks before `m` leave.
* `JoinedFirst`: `Spec => []CommitsAfterJoin`, from `JoinInv`.

It goes on from `IInv` to how a call ends.
Each property has a strengthening of its own, inductive relative to those
before it:

* `NoWriter`: `Spec => []NoWriterAfterEnd`. The futures the caller holds are all
  there are, unless a submission was refused (`HeldInv`), so a wait that has
  returned leaves no worker (`QuietInv`).
* `InOrder`: `Spec => []CommitsInOrder`. All that is shown is below every record
  still to commit (`OrderInv`), and `ChunkOrder` makes records of ascending
  chunks ascend.
* `Gathers`, `LowestError`: `CollectsEveryError` and `RaisesLowestError`.
  `CleanInv` says that a chunk passes no iteration that raises unless it gathers,
  and stops with an error at none other; from it the lowest error among the chunks
  that ran is the lowest there is outside cancelled ones (`JoinLowest`).
  `RaiseInv` carries this through the commit of the prefix, and through the twin.
* `Implements`: `LoopConditions => (Spec => Loop!Spec)`, the steps of the refinement
  `thread_loop` checks. The conditions are that run's, for every value: slabs, no
  timeout, no `on_error=`, no key pressed during the wait, and errors only in the
  first chunk, below which no future can be cancelled. `FirstErrorInv` says that the
  error committed is then the first chunk's; `LoopStep` maps each action.
* `AllRun`: `Spec => []NoneMissing`. `ShownInv`: without a slab, whatever the
  twin or a chunk has passed is shown, and a return has the twin at the end or
  every chunk at its end.
* `Once`: `Spec => []NoneTwice`. For slabs this is `InOrder`; for in-place blocks
  `OnceInv` keeps the twin's part and the chunks' apart (`CurInv` says where the
  twin would start).
* `LeavesPrefix`: `Spec => []AbandonedLeavesPrefix`. The records
  `_contiguous_prefix` keeps follow on the containers (`PrefixFollows`), and each
  commit leaves them so (`PrefixInv`).

`ProcessDispatchProofs`, for every number of callers and of pools:

* `NoLeak`: `Spec => []OneOpenPool`. A caller may open a pool only when the
  module has none, so the invariant `PoolInv` says more: every open pool is the
  module's, and the module's is open or broken, never shut down. Without the
  second part, a recycle could forget a pool that was not the open one.
* `TakesLivePool`: `Spec => NeverTakesShutPool`, from `PoolInv` before the step
  and the one action that takes a pool. `PoolSplit` is what makes both short:
  it lists all that a step of the whole system can do to the pools.

It goes on to how a block ends, with an invariant `IInv` of
six parts, each inductive relative to the others:

* `JobInv`: a job is pending or handed over at most once and in one pool, can be
  cancelled only while pending and is running once handed over. That is what makes
  a result final (`FutStep`), through cancellations, shutdowns and broken pools.
* `RecordInv`: a record is written once, by the process that ran its chunk
  (`RecordSplit`), and with no error only when the chunk ran to its end.
* `WaitInv`: what a wait reported has a result, and all of it is there to join.
* `ShowsInv`: what a caller's containers show at each `pc`. While it commits,
  `Follow` says that the records left are those of the chunks from some `m` on,
  and that the containers show the loop up to `Bound(m)`.
* `PoolInv`, above, and `DeadPoolInv`: a caller that fell back on what it gathered
  has a pool that is not the module's, and will not be again, because a new pool is
  of a generation nobody had (`NewPool`).

From it `TypeCorrect`, `WholeLoop`, `ErrorPrefix`, `KilledPrefix` and
`NoDeadPool`: `Spec => []P` for `P` each of `TypeOK`, `ReturnsWholeLoop`,
`ErrorLeavesPrefix`, `KilledLeavesPrefix` and `LeavesNoDeadPool`. `TypeOK` alone
is not inductive: that an erring record ends within the domain is `RecordInv`.

`Implements`: `LoopBlocksOnly => (Spec => ImplementsLoop)`, for blocks that start
with no twin probe and have no timeout. Two more invariants are needed: no chunk
passes an iteration that raises (`CleanInv`), and nothing expires (`UntimedInv`).
`LoopStep` then maps each step: committing a record, or the twin, is `Advance`
(`LoopAdvances`) when it adds anything, the last step is `Return`, `Raise` or
`GiveUp` (`LoopEnds`), and every other step stutters.

`EarlyExitProofs`, for every length, number of chunks, budget, pool, set of
breaks, of inner breaks and of errors:

* `SkipsNothing`: `Spec => []SkipsOnlyBeyondBreak`, on any domain. `OfferInv`
  says that an offer is what a job that is done noted last, and that a skipped job
  saw one at or below its start; it cannot be its own (`OneChunk`), and a value
  is never below its position (`ValueAbove`). `NotedIs` says what was noted last:
  the break of the marked loop the job stopped on, or else the last inner break of a
  chunk without one, which is what `Misled` is about.
* `Stops`, `Keeps`, `MissesNothing`: `StopsAtFirstBreak`, `KeepsTarget` and
  `InPlaceMissesNothing`. `Mark(m)` names the lowest offer as a position. When every
  job is over, the chunks have run whatever is up to `m` (`RanAll`): one skipped
  would start beyond it, one that stopped offered where. So no break of the marked
  loop is below `m`, and `m` is one, or the end, unless `Misled` (`MarkIs`); the
  commit keeps an interval that ends at `m`, counted by its cardinality
  (`KeptCount`, `CommitsTheMark`), and without `Misled` that is what the loop leaves
  (`LeavesTheLoop`).
* `InnerBreaks`: a return is where the documentation says exactly when it is not
  `Misled`, so that exception is no wider than the code makes it (`MisledMark`).
* `NoWriter`: `Spec => []NoWriterAfterEnd`, from `EndInv`.

`ImportHookProofs`, for every number of processes, modules, versions and faults:

* `Sourced`, `Marked`: `RunsItsSource` and `NeverLeftPlain`. An entry sits under
  the key of the text and version it was made from, and what an importer holds at
  each `pc` follows from how it came there.
* `Whole`, `Clean`: `TornByPowerOnly` and `LitterFromCrashesOnly`. `Clean` is
  inductive as it stands; the other needs that an importer about to rename has a
  whole entry.

`WavefrontProofs`, for every length, grain, width, range, set of divisors or
keys, set of errors and faults. The invariant `Inv` has four parts:

* `TypeOK`: the cursor and the cuts are within the domain (`TypeCorrect`).
* `CutInv`: whenever an iteration may read what an earlier one writes, a cut lies
  between the two. For divisors, `_level_bounds` takes the thresholds of the least
  one, and that is enough for all of them; `Floor`, `Ceil` and `TimesOrder` are
  what the prover needs of `//` on either side of 0. That the thresholds reach the
  end of the range is an induction over a recursive function.
* `ShownInv`: the containers show the first iterations up to some `m`, none of which
  raises, and what runs next starts there, but for a twin that reruns.
* `CountInv`: only that twin counts an iteration again.

From it `Counts`: `Spec => []CountsOnce`; `Implements`: `Spec => Loop!Spec`, with no
condition; and `ReadsInOrder`: `UserOrders => (Spec => []ReadsAsTheLoop)`.
`UserOrders` is what `depend=acyclic(order=key)` asks of its user, that an
iteration which reads what another wrote has another key; it says nothing of
blocks cut by divisors.

`PragmaClausesProofs`, first for every file, in both modes, and whatever
`Allowed`, `Named` and `Shares` are:

* `Answered`: `Spec => []EveryPragmaAnswered`. `PairInv` says that the scan has
  every pragma on a line of its own in the order of the file (`ScanInv`), that each
  pragma paired is answered but for the open START (`AnswerInv`), that this is the
  first since the last END (`OpenInv`), and that the blocks are those of `Marked`,
  which is stated over the file without a stack (`BlockInv`).
* `OnlyLoopsGo`: `Spec => [](PageFree => OnlyMarkedLoopsGo)`. Marked blocks lie one
  after the other (`BlocksApart`), and so do their loops (`LoopsApart`). `OutInv`
  says that the loops left begin and end above every one that is done, so that
  their lines are where they were, and that the module is what it should be with
  the others replaced; `SpliceFlat` is the step, a fact about `FlattenSeq` and
  `SubSeq` for any pieces. `PageFree` cannot go: with a form feed it is false
  (`v_pragmas`).
* `TypeCorrect`: every line one pass hands to the next is a line of the file.

and then for every sequence of tokens:

* `ParsesWhatIsWritten`: if the parser takes a text, its clauses written out again
  (`RenderedAll`) are that text. A recursive function may be used only once it is
  known to exist. `ReadingsAre` shows it for the parser: a form needs only what is
  read further on, or at the same position by a lower form, so `Height` falls and
  the readings can be built a level at a time; that a form never turns back
  (`Moves`) is part of that induction. `RenderingIs` does the same for what is
  written for a value: the values in it were found further on, or are its base.
  Then the text is followed from its end to its beginning: what every form reads
  from a position on is the text up to where it stops (`Spells`), if that holds of
  the positions after it.
* `PragmasReadAsWritten`, `ClausesHaveTheirParts`: `Spec => []ReadsWhatIsWritten` and
  `Spec => []ReadersFindTheirParts`. `TextInv` says that every pragma scanned was let
  through; for the second, the registry is taken clause by clause
  (`ValidIsReadable`). Their hypothesis `AllowedIsLegal` says what `pragmas.cfg`
  gives the constant `Allowed`, the operator `Legal`.

`SelectionProofs`, for every number of iterations, every set of keys and every set
of well-formed bodies of any length (`SelectionAssumption`):

* `EndsAsTheLoop`: `Spec => []RaisesNothingNew`. What it takes is that a name local
  to the block has a value whenever it is needed, on every way through the body.
  On the side of the analysis, `BoundBefore`: if a block is not refused, a statement
  that needs such a name comes after one that surely binds it, at the top or on the
  same arm. For a name assigned without an operator is a reduction with no operator,
  which the selector refuses, unless it is `LOOP_LOCAL`; then its first event is that
  write (`FirstIs`), and no later event is on another arm (`UnderArm`). On the side
  of the interpreter, `FlowIs`: in the statements an iteration runs, inner loops laid
  out, each comes after those that come surely before it in the source. `Reaches` is
  the invariant of an iteration that joins the two, and `Going` that of the block: no
  frame misses a name, and the outcome is no error. It uses `BindsMaybe`, `WritesRow`
  and `UndoesNothing` of `Understood`, each for one of the three ways to raise.
* `WritesItsOwn`: `Spec => OwnElementsOnly`. `DirectWrites` follows the classes and
  slab kinds back to the events: where chunks write in place, no statement is opaque
  and every write is at a proven index. `DirectKeepsIndex` adds that no statement
  binds the index, and `KeepsOwn` carries it through an iteration (`IterationOwn`).
  `Inv` says that the code of a block is what was generated for it, and that its
  containers and frames have the fields that are read.

* `ComputesTheLoop`: `Spec => []SameAsTheLoop`, for any body, length and keys and
  however the two chunks take turns. `Steps` are the frames of the loop after each
  of its iterations. `Follows` compares a chunk's frame with the loop's in a world,
  which says what is folded and which elements are `foreign`, written by the other
  chunk: the names the chunk has bound have the loop's values, an accumulator is what
  its site folds to, and every element that is not foreign is the loop's, read from
  the slab or where it is. `IterationFollows` carries this through the statements of
  an iteration, `LoopTwins` through the twin. What it takes of the analysis is read
  off the classes (`Known`): the slab a container has (`WrittenPlan`, `SlabOK`), the
  operator of a fold (`ReductionIs`), and so that every statement fits the world of
  its chunk (`CompiledPlan`, `CompiledDirect`). Levels follow one another
  (`LevelOK`, with `LevelStarts`, `LevelIterates`, `LevelEnds`, `LevelWaits`); an
  element read at a quotient of the index was written in a level before, or is the
  iteration's own (`ThresholdIs`, `DivisorsAre`, `QuotientLevels`, `LevelSettled`).
  `Computes` is the invariant of a block. TLC cannot evaluate it, for `Steps` chooses
  a function; it checks the property itself.

Where these need induction over data (the thresholds of a divisor, the pieces of
a sequence, the positions of a text, the statements of an iteration) they take the least or the greatest of the
counterexamples (`LeastNatural`, from the well-foundedness of `<`), which needs no
operator as a parameter.

Only model-checked: everything about termination, since liveness under fairness is
beyond the prover.

## Plan

1. Done: the THREAD backend, its chunking and its pool.
2. Done: the PROCESS backend and its pool, two blocks at a time.
3. Done: `EarlyExit` and `Wavefront`.
4. Done: selection and code generation against the loop as written.
5. Done: pragmas, clauses, the import hook and its cache.
6. Done: the proofs of `EarlyExit`, of `ImportHook` and of every safety property
   of `ThreadDispatch` and of `ProcessDispatch`.
7. Done: the proofs that `ThreadDispatch` and `ProcessDispatch` implement the
   steps of `SequentialLoop`.
8. Done: the proofs of `Wavefront`, its refinement included, of `Pragmas`, and of
   every safety property of `Selection`.
9. Done: the clause parser as a recursive function, and the proofs about it and
   about the registry.
10. Left: the calibration memo with concurrent callers, and wider bodies in
   `LoopBody` (calls, aliasing, `try`).

## Not modelled

* Calibration, the cost model and statistics: a measured time decides whether a
  block goes parallel. `ThreadDispatch` leaves both answers open, and what it
  shows holds either way. (`get_block_stats` iterates over a dictionary others
  write, without the lock.)
* The nested guard and CPU affinity: a thread-local flag that is a gate of a
  block in the models, and a system call that changes no result.
* Configuration and error reports: lookup of files, clamping, a list of records.
  The constants of the models stand for the values.
* Purity: a table of names and a walk of callables.
* The accelerated twins of the slab functions in Rust, and the data of the
  bundles sent to processes.
* The command line: formatting, without state of its own.
