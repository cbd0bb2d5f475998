# CLua: TLA+ models, model checking and proofs

CLua compiles Lua 5.4 programs ahead of time to Windows x64 executables, DLLs,
objects and libraries. This directory holds TLA+ modules for two kinds of its
code. In one, correctness depends on order: fibers, threads, shared tables, files
that several processes write, the phases of a build, the linker's passes. In the
other, it depends on two pieces of code agreeing: the optimiser's proofs, the
machine code made from them and the interpreter; the call helpers of compiled
code and the Lua core's stack. TLC checks each part on a small instance; for
eleven of them TLAPS proves the main properties for every value of the constants.

Paths below are relative to `src/clua/src/` unless they start with `src/`.
Per-definition source lines are in `PROJECT.json` (`map`); every hazard, at its
line and with the properties aimed at it, is there too (`hazards`).

- [1 The system](#1-the-system)
- [2 Modules and how they correspond to the code](#2-modules-and-how-they-correspond-to-the-code)
- [3 Runs, bounds and results](#3-runs-bounds-and-results)
- [4 Fairness](#4-fairness)
- [5 What is proved](#5-what-is-proved)
- [6 Where code and documentation disagree](#6-where-code-and-documentation-disagree)
- [7 What is not modelled](#7-what-is-not-modelled)
- [8 Plan](#8-plan)
- [9 Running it](#9-running-it)

## 1 The system

Two programs share the repository. The **compiler** (one process per build)
runs a fixed sequence of phases:

```
 driver/main.c
   require walk + Lua parser ─► IR (ir/) ─► optimiser (opt/)
     ─► lc_codegen (codegen/codegen.c)  ── workers ── (codegen/parallel.c)
            └── per function: object cache (codegen/lc_cache.c) ◄─► cache directory
     ─► COFF object ─► PE linker (link/pe_emit.c) ─► staged file ─► output path
```

The **runtime** is linked into the compiled program and runs it: the Lua core, a
fiber-based coroutine library, a dispatch cache from Lua Protos to native code,
native worker threads, and an FFI with callbacks.

```
 compiled code ──► Rt_* helpers (jit/runtime.c) ──► Lua core
      │                    │
      │        dispatch cache (jit/dispatch.c)     one global, one per worker (TLS)
      ├──► coro.c          fibers; current coroutine and recovery frame in TLS
      ├──► aot_entry.c     worker threads, each with a lua_State of its own
      └──► ffi/            C calls, callbacks, exception handler (veh.c)
                all per-thread state through jit/tls_slot.h
```

### Inventory

| Component | State it keeps | Operations | What makes it hard | What makes it correct |
|---|---|---|---|---|
| Thread-local slots (`jit/tls_slot.h`) | a process-global cell per use, initially the sentinel | `CluaTls_Ensure`, then `TlsSetValue`/`TlsGetValue` | any threads race the first use; the OS may run out of indexes | one index wins, no loser's index leaks, no value is stored under another |
| Fiber coroutines (`runtime/coro.c`) | per coroutine: status, fiber, owner thread, caller's fiber, saved recovery frame, registry anchor; per thread: current coroutine, recovery frame | create, resume, yield, wrap, close, status, fiber entry, `__gc` | locals live across a fiber switch; `__close` handlers run inside close; callbacks come in on other threads; `lua_close` from anywhere | resume/yield keep activation stacks; the current coroutine and the recovery frame belong to the fiber that executes; no fiber somebody returns to is deleted |
| Dispatch cache (`jit/dispatch.c`) | entry array, open-addressing table, one-entry memo | register, grow, look up | two reallocs of one growth, each may fail; collisions; memo staleness | behaves as a set of registered Protos; probes end |
| Native worker threads (`runtime/aot_entry.c`) | a context per worker, the bring-up lock, a `lua_State` and cache per worker | spawn, bootstrap, join, alive | every step of the bring-up may fail; the collector runs between building the Proto tree and rooting it; join may time out | lock always released, tree never swept, context outlives its thread, join reports the outcome |
| FFI callbacks (`ffi/ffi_callback.c`) | 256 slots, one executable slab, registry references | cast, free, set, dispatch | slots are reused, stubs are not; callbacks nest and free each other; page protection flips | an address means one function and signature until freed |
| Vectored exception handler (`ffi/veh.c`) | registered code regions | handle a hardware fault | which recovery frame it uses | the frame is on the stack that faulted (a property of the coroutine module) |
| FFI types, data, loading, calls (`ffi/`) | type tables, loaded libraries, call thunks | cdef, new, cast, load, call | conversions at the edges of integer types | values survive the round trip |
| Runtime helpers (`jit/runtime.c`) | none of their own; they move the Lua stack and its CallInfos | `Rt_Call`, `Rt_Return`, `Rt_TailCall`, varargs, generic for, lists, closers, slow paths with metamethods | the stack is reallocated by any call; `top` means different things to native bodies, to C and to the collector; errors leave by longjmp | every function finds its own registers, every open list ends at `top`, a chain of tail calls runs in one loop |
| Proto reconstruction (`runtime/protoinit_rt.c`) | the program's Proto tree | build and register | a failure in the middle | every Proto registered or the start-up refused |
| Embedded runtime, loader, interpreter (`runtime/`) | one universe | start-up in a fixed order | error paths | - |
| Driver pipeline (`driver/`) | options, phase products | one pass over the phases | clean-up on every error path; files change while a build reads them | never reports success for a failed build; what it publishes is closed under require |
| Front end, module resolution (`compiler/`) | worklist, visited table, packages found, diagnostics | require walk, parse, lint | cycles; packages that require modules; `rover` installing while the walk runs | each module once, nothing reachable left out |
| IR and verifier (`ir/`), optimiser (`opt/`) | one function's IR, one module's call graph | lift, verify; type inference within and between functions, branch folding, reachability, scalar replacement | loops in the dataflow; captured variables that anybody may write; closures that escape after they were tracked | a proof holds on every execution; a removed function is never called |
| Machine-code emitter (`codegen/codegen.c`) | one function's code buffer, register residency | emit | values in registers across joins, exits, guards and helpers; tag checks left out on the word of a proof | the frame is what the interpreter's would be wherever somebody can look |
| Parallel code generation (`codegen/parallel.c`) | a pool on the caller's stack: shared counter, fail flag | pick jobs, start, draw, compile, wait 60 s | threads that do not start, fail, or outlive the wait | each function once; success means complete and quiet |
| Incremental object cache (`codegen/lc_cache.c`) | a directory shared by all builds | key, load, store, evict | several processes without a lock, crashes, full disk | a restored function is what a compilation would give |
| PE linker (`link/pe_emit.c`, `ar_read.c`) | symbol table, contributions and their index, imports | load, archive fixpoint, sweep, layout, relocate | passes that depend on each other's indexes; weak/common/COMDAT/imports of one name in any order | exactly the needed members and sections; every relocation bound to what its name means |
| COFF, archive and resource formats (`link/`) | none | read, write | - | formats |
| Publication (`driver/main.c`, `link/pe_link_v2.c`, `import_lib.c`) | temporary object, staged file, output, `.def` | stage, link, flush, move with retries, clean up | another process holds the output; two builds; crashes | the output is old or new, never part; the report is true |
| Dumps and build tools, Lua core, packages, tests | - | - | - | textual tools, third-party code, statements of intent |

Interactions that cross components, and where they are:

- the recovery frame that the trampoline installs (`dispatch.c`) is saved and
  swapped by resume and yield (`coro.c`) and read by the exception handler: in
  `Coro`;
- a worker's registrations must go to its own dispatch cache, which is chosen by
  a TLS slot: in `ThreadWorker` (whose cache) and `DispatchCache` (what is in it);
- native code that a worker runs stores its execution state under TLS slots that
  all threads race for: `Threads`, which composes `ThreadWorker` and `TlsSlot`;
- callbacks bring foreign OS threads into Lua: `Coro` (threads take turns),
  `FfiCallback` (nesting on one state);
- pool workers compile through the object cache: `ParCodegen` (who compiles what)
  and `LcCache` (all functions of a build at once, all builds on one directory);
- the linker's success or failure is a step of the publication: `Linker` and the
  action `Link` of `Publish`;
- the driver runs the require walk, the phases and the publication, several builds
  at once on one output path: `Driver`, which contains `Publish`;
- the optimiser's proofs decide which checks the emitter leaves out, and the
  emitter's registers decide what the helpers and the collector see in the frame:
  `NativeCode`, which runs passes and emitter one after the other and then the
  code they made, next to the interpreter;
- native bodies, C functions and `pcall` call each other through the helpers and
  the Lua core on one stack: `NativeCalls`.

## 2 Modules and how they correspond to the code

| Part | Modules | Abstract specification | Proofs |
|---|---|---|---|
| Coroutines | `Coro`, `MCCoro` | `CoroAbs` | `CoroProofs` |
| TLS slots, worker threads | `TlsSlot`, `ThreadWorker`, `Threads`, `MCThreads` | | `ThreadProofs` |
| Dispatch cache | `DispatchCache`, `MCJit` | `DispatchAbs` | `JitProofs` |
| FFI callbacks | `FfiCallback`, `MCFfiCallback` | `CallbackAbs` | `FfiCallbackProofs` |
| Parallel codegen | `ParCodegen`, `MCParCodegen` | | `CodegenProofs` |
| Object cache | `LcCache`, `MCLcCache` | | `CodegenProofs` |
| Driver, require walk, publication | `Publish`, `Driver`, `MCDriver` | `Publish` is what `Driver` implements | `PublishProofs` |
| Linker | `Linker`, `MCLinker` | | `LinkerProofs` |
| Optimiser and emitter | `Bytecode`, `TypeInfer`, `IpTypes`, `DeadCode`, `Residency`, `NativeCode`, `MCNativeCode` | the interpreter, inside `NativeCode` | |
| Call helpers | `NativeCalls`, `MCJit` | the frames of the language, inside `NativeCalls` | `JitProofs`, `NativeCallsProofs` |

Conventions. An action is a handler or the stretch of code between two points
where another actor can be seen. A definition named in a comment as a *mutant*
is a broken variant of the definition after it; no specification uses it: it
records which plausible bug the corresponding property finds.

### TlsSlot

`cell` is `*PSlot`, `taken` the indexes the OS has given out, `step` where each
thread is, `spare` and `slot` its local variables, `value` what each thread has stored under each
index. `Load` is the unsynchronised first read, `Alloc`/`AllocFails` `TlsAlloc`,
`Exchange` the `InterlockedCompareExchange` and its two outcomes, `FreeSpare`
the loser's `TlsFree`, `Store` the caller's `TlsSetValue`. The setter is taken
from `SetCurrentCoro` in `coro.c`; the others have the same shape.

### Coro and CoroAbs

A fiber is named by its owner (an OS thread or a coroutine). `active[t]` is the
fiber thread `t` executes; `waiting[f]` holds the locals of the `LuaFn_Resume`
that is suspended on fiber `f` (the coroutine it resumed, `Prev`,
`SavedJitFrame`); `closing[f]` the coroutines whose `__close` handlers run on
`f`. Resume is two actions because other code runs between them: `Resume` up to
`SwitchToFiber`, `ResumeReturns` after it. Close is one action when nothing is
pending (`CloseIdle`) and two around the handlers (`CloseBegins`, `CloseEnds`).
`JitEnter`/`JitLeave` are `Jit_TrampolineEntry`'s install and removal of the
recovery frame at the outermost entry of a fiber. `Enter`/`Leave` are an FFI
callback on another OS thread while the first waits (external code, modelled
from what `ffi_callback.c` allows). `StateClose` is `lua_close`; if a coroutine
executes it (`os.exit(code, true)` inside a coroutine) the fiber that executes
is deleted, which ends the OS thread: phase `"killed"`, after which nothing is
promised.

`CoroAbs` is the coroutine machine the documentation of `coro.h` and Lua 5.4
describe: per thread a stack of activations, resume pushes, yield and return
pop, nothing enters a coroutine that is closing. Under the refinement the stack of
a thread is the path of `CallerFiber` links from its active fiber down to its own
(`PathTo`), so it fails as soon as one link is wrong.

`HandlersReenter` says whether a `__close` handler may resume or close the very
coroutine being closed; the code does not prevent it (section 6), so it is a
parameter: FALSE in the run and in the proofs.

### DispatchCache and DispatchAbs

`entries` in order of registration, `cap` the array's capacity, `hash` the table
(slot 0 of the code is slot 0 here; an index is shifted by one so that 0 means
empty), `memo` the last successful lookup. `RegisterGrowing` is `CacheGrow` and
the insertion that follows it; `RegisterFails` either failed growth: at once, or
with the array grown and the table not (the code sets `Cap` before the second
realloc). After a failure the builder of the Protos returns (`MayRegister`, from
`protoinit_rt.c`), so lookups go on but registrations do not. The hash is a
constant function, chosen to collide. `DispatchAbs` is a set that only grows.

### ThreadWorker

One context and one thread per worker; `pc` walks `Clua_ThreadBootstrap` step by
step, with every early return. `lock` is the bring-up critical section, `cache`
whose dispatch cache the thread uses, `shared` whether a Proto went into the
cache of another thread, `gc` whether the collector of that state may run,
`protos` whether the tree is built, rooted, or swept. `Collect` is a collection
of the Lua core: it may happen whenever the collector runs, and sweeps what has
no root. `Join` is a join that succeeded; one that timed out changes nothing.

### Threads

`ThreadWorker` and `TlsSlot` side by side, on their own variables, joined by what a
worker can be doing when it calls a setter of the execution state. `SetsState` is a
step of `CluaTls_Ensure` or of the store after it, by a thread that was there before
or by a worker that runs user code: its function, where the trampoline sets the frame
of the fault handler and a resume the current coroutine, or a finalizer of `lua_close`.
`Proceeds` is a step of the bootstrap, which a worker takes only outside the setter;
`Around` are spawn, join and the collector.

### FfiCallback and CallbackAbs

`slots` is `g_Callbacks` (function, signature, stub address), `stubs` the slab
(which slot number is baked in at which address), `used` its fill, `executable`
the page protection, `refs` the number of registry references per function,
`ptr` the address each callback cdata holds (two cdata can hold one address after a
cast of a pointer), `calls` the stack of running callbacks. `CastRefused` is the
second `VirtualProtect` failing. `CallbackAbs` promises: an address stands for
one function and signature until freed, `cb:set` changes only the function, an
address is never given out again. Callers stop using an address they freed; that
is the caller's contract in the header.

### ParCodegen

`LcCg_RunParallel` with `LcCg_ParWorker`, and the part of `lc_codegen` around it:
choice of the number of jobs, sequential path, the last look at the fail flag.
`nextIdx` is the interlocked counter, `wpc`/`held` each worker's place and index,
`done` the populated slots of `cm->funcs`, `ok` what the caller believes.
`WaitGivesUp` is the 60-second timeout (or a failed wait): the handles are
closed and the workers run on.

### LcCache

Two or more builds, each compiling all its functions concurrently
(`LcCg_CompileFunctionBody`), on one directory without a lock. A file is the
inputs it was compiled from, whether all bytes reached it, and its time. The key
(`KeyOf`) is ordinal, inputs and the `-g` flag. In the code it is a 128-bit FNV-1a
hash of the fields codegen reads (`lc_cache.c:6-13`: "chosen over SHA-256"); the model
takes it to leave none out and to separate different inputs. `Open`/`Load` are `LcCache_TryLoad`; `OpenStage`, `WriteStage`
(with its three outcomes: all written, an `fwrite` failed, only the flush
failed), `Rename` are `LcCache_Store`; `Scan`, `EvictOne`, `EvictEnd` are
`LcCache_Evict`, whose snapshot may be stale. `Crash` ends a build at any point.
A function found dead is compiled to a stub and not stored.

### Publish

The end of a build: temporary COFF object, then for exe and dll the staged
output, link, flush, `MoveFileEx` with its retries on sharing errors, the
`.def` file of a dll, clean-up; for obj and lib a copy in place. A file is who
wrote it and what is in it: all of it (`Whole`), a prefix whose writer has closed it
and believes it whole (`Short`), or something no writer has closed (`Part`). `Link`
has three outcomes, the second of them the `fclose` of the image, whose result nobody
looks at, losing its last bytes (section 6). `Hold`/`Release` are any other process
that has the output open (external). `Sleeps` is the length of `waits_ms`.
`OutAlwaysClosed` says what staging and renaming do give, `OutNeverPartial` what
the comment over `MakeStagedOutput` promises.

### Driver

`lc_drive` from the entry file on; it EXTENDS `Publish`, whose actions are the
back end of a build that got that far. `tree` is what the source files contain:
what each requires, which parse, which exist but do not, which have a require of
a variable, the versions `rover.lock` pins, the names given with `-L`. `store` is
the package store, which `rover` (action `Rove`) changes between any two steps.
`phase` is where the build is. The walk's variables are `queue`, `visited`,
`bundle` (the modules compiled), `packages` (the builtin packages found),
`scanned`, `errors` and `dynamic`.

`CompileEntry`, `ScanPackage`, `TakeModule` are the turns of `Resolve_Walk`'s
loop; `WalkEnds`/`WalkFails` its end and the diagnostics after it.
`AppendPackages`/`AppendFails` bundle the packages, which may fail if one's
source cannot be compiled or its native archive is missing. `Generate`,
`StopEarly` and `GatesFail` stand for the gates between walk and back end: a gate
passes, ends the build with nothing to publish (a dump, a check), or fails.
`Killed` is the end of the process at any point. In the code the queue is a
stack; the model takes any queued name, so the result does not rest on the
order. Left out: an edit of a source between the two times it is read
(`LuaCompile_File`, `RequiresOfSource`), names longer than their buffers, the
output of dumps, the content of the compilation database and of the dependency
file, and memory, which is freed at the end.

### Linker

`LcPe_Link` from its inputs to patched relocations. An object is what its symbol
table says of each name (`undef`, `weak`, `common`, `static`, `def`, `comdat`),
with one section per defined name (that is what `-ffunction-sections` and the
compiler's own objects give) and the names that section relocates against.
`phase` follows the passes: `Load`, `Roots`, the archive fixpoint (`Pull`,
`ResolveImport`, `PullFails`, `ResolveEnd`), `Collect` with COMDAT folding,
`GcStart`/`GcMark`/`GcEnd`, `Layout` (sort, commons, second index), addresses,
`Relocate`. Each pass is deterministic; what varies is the input, chosen in
`Init` from the set `Inputs`. `contribs` and `map` are separate variables
because the code keeps an index of positions over an array it later sorts.
`order` is the array of symbols: an object's new names go to its end in the order of
its symbol table (`Intern`), and the fixpoint asks for the first unresolved one.
Where the code visits things in an order, `Sorted` gives the set as a sequence in
that order; it is what the insertion sort of the layout computes.
Left out: bytes, alignment, section headers, exports, resources, base
relocations, `__ImageBase` and the other names the linker itself defines,
`--strip`, import deduplication by DLL, overflow of a relocation field.

### Bytecode, TypeInfer, IpTypes, DeadCode, Residency

The passes, as operators from modules to modules; none has state of its own.

- `Bytecode`: an instruction as `lift.c` leaves it (opcode, decoded operands, the
  proofs attached to it), the operand model that all passes share: which
  registers an opcode reads and writes (`WriteRange`), which instructions follow
  which (`Successors`).
- `TypeInfer`: `ti_run`, a forward dataflow over the lattice TOP, INT, FLT, UNK,
  one round after the other until nothing changes. A register some closure
  captures is never proven.
- `IpTypes`: `lc_pass_ip_typeprop`: which registers hold one closure for good
  (`home`), which calls therefore have a known callee, which closures escape; the
  parameters of one that does not get the types of its arguments, its callers
  that of its result.
- `DeadCode`: the gates that switch proofs off (`debug`, a reflected `_ENV`),
  `fold_dead_branches`, the call graph and the reachability that turns functions
  into stubs, and scalar replacement of tables.
- `Residency`: the `res_` functions of the emitter: the loops that keep slots in
  machine registers (their *region*), the class each register has, the
  instructions before which they are written back (observers, at most `MaxObs`
  of them).

### NativeCode

Two stages. In the first, four actions compile the module in `lc_optimize`'s
order: `InferTypes`, `PruneModule`, `ReplaceTables`, `GenerateCode`; `src` stays as it
was lifted and `ir` is what the passes leave. In the second, every step runs one
bytecode instruction twice: in the way of `lvm.c` on the frame `ref`, and as the
machine code emitted for it on the frame `mem` and the machine registers `reg`
of the activation on top of `stk`. A value is a type and some bits; a machine
register holds bits alone, so writing one back gives the slot whatever type the
class claims. That is how a wrong proof corrupts a value, and what `ProofsHold`
(every proof is true when its instruction runs), `FrameAgrees` (every live slot,
wherever the code keeps it, has the interpreter's value), `ObserverSees` (whoever
looks at the frame during a helper finds no live slot whose only good copy is in
a machine register), `SamePath` (branches go the same way) and `DeadNeverRuns`
(no stub is entered) would notice. Globals, unknown
functions and metamethods give any value, the same to both sides. All binary
operators compute the same thing modulo `Width`: the passes reason about types
and places. Not executed here: varargs, generic loops, to-be-closed variables,
tail calls, methods, concatenation, several results; the stack effects of all of
these but the last two opcodes are in `NativeCalls`.

### NativeCalls

`stk` is the Lua stack with `top`, `last` and the CallInfos, as offsets, the
way a reallocation leaves them; `nat` the machine stack, one record per C
activation (a native body, a helper waiting for its callee, a C function,
`pcall`); `lua` what the language promises: a frame per call, whose registers
only it can write. Each helper of `jit/runtime.c` that moves `top` or a CallInfo
is an action (`Call`, `OpenCall`, `CallOpen` and `OpenVararg` are `Rt_Call` with fixed and
open lists, `Return`, `TailCall`/`TailOpen` with `DriveReturns`, `VarargPrep`, `Vararg`,
`TForCall`, `SetList`, `Close`, and `Meta` for the shape all helpers with a
metamethod share); what a helper does after its callee is the action of the same
name with `Returns`. They contain the parts of the core they call: `luaD_precall`, `luaD_pretailcall`, the patched `ccall`,
`luaD_poscall`, `luaD_growstack`, `luaT_adjustvarargs`, the unwinding of `pcall`.
Every call may run a collection, which clears the dead part of the stack.
`RegistersPrivate`: the part of the stack a native body takes for its registers
holds what the language says. `ListEndsAtTop`: an open list is as long as `top`
tells its consumer. `RoomWasMade`: a frame fills its registers up to its ceiling without
asking, so whoever entered it must have made the room; every ceiling is on the stack
but for the arguments that `luaT_adjustvarargs` moves (`CeilingsReach`), and a vararg
function which may ask for `...` has its registers below `top` (`KeptBelow`).
`AdjustedOnStack` is the assertion of `ltm.c:254`, which does not hold (section 6).
`OneLoopPerChain`: a chain of tail calls, whatever it goes through, runs under one
drive loop. `StackHolds` is no property of a run but the hypothesis of two theorems
(section 5).

`CallsAssumption` says what forms of functions and programs the module is about: a
frame has room for its parameters, the first stack for the C code that starts the
program, a C function keeps to the headroom it is given. A native function's
instructions stay inside its frame by their guards (`Live + n <= FrameSize`), as the
compiler's register allocation makes them.

## 3 Runs, bounds and results

| Run | Instance | Distinct states | What it shows |
|---|---|---|---|
| `threads` | a main thread and 2 workers, 2 indexes | 200,488 | `NoLeakedSlot`, `OneSlot`, `NothingSwept`, `CtxOutlivesThread`, `OwnCacheWhileOpen`, `JoinTellsOutcome`, `EveryWorkerEnds` |
| `coro` | 2 OS threads, 3 coroutines, 2 nested closes | 308,864 | `CurrentIsRunning`, `CallerWaits`, `FrameOfOwnFiber`, `NoLiveFiberDeleted`, refinement of `CoroAbs` |
| `ffi_callback` | 2 functions, 2 signatures, 2 cdata, 2 slots, slab of 4 units, depth 2 | 103,602 | `TypeOK` (the slab never overflows), `AnchoredExactly`, refinement of `CallbackAbs` |
| `par_codegen` | up to 4 functions, 4 requested jobs, pool of 3 | 23,342 | `ClaimedOnce`, `SuccessMeansFinished`, `CallerReturns` |
| `lc_cache` | 2 builds, 2 functions, 2 versions (one dead), `-g` on or off, room for 1 entry | 2,932,087 | `RestoredIsFresh`, `NoStageLeft` |
| `build` | 2 builds of one of 5 source trees, any of 4 kinds, 1 retry, one package that comes and goes | 598,396 | `OutAlwaysClosed`, `NoStageLeft`, `ReportMatchesOutput`, `SelfContained`, `EveryBuildEnds` |
| `truncated_image` | 1 build of an exe or dll | violation | `OutNeverPartial` fails (section 6) |
| `linker` | 5184 links | 70,384 | `ArchivesExact`, `LiveExact`, `BindsAsWritten`, `LinkEnds` |
| `native_code` | some 6000 modules at `-O1` and `-O3` | 680,902 | `ProofsHold`, `FrameAgrees`, `ObserverSees`, `SamePath`, `DeadNeverRuns` |
| `fold_local` | guards in local variables, `-O2` | violation | `FoldUnseen` fails (section 6) |
| `jit` | 5 Protos, initial capacity 1, growths may fail; 10 sets of functions, programs of 3 and 4 instructions | 1,756,581 | `FindsRegistered`, refinement of `DispatchAbs`; `RegistersPrivate`, `ListEndsAtTop`, `RoomWasMade`, `OneLoopPerChain` |
| `vararg_ceiling` | one function that forwards three values of `...`, 9 sizes of the stack | violation | `AdjustedOnStack` fails (section 6) |

For every property of a passing run `PROJECT.json` records a mutant of the
modelled code that violates it under the same instance. The type invariants of
`Coro`, `ParCodegen`, `DispatchCache`, `ThreadWorker`, `Publish` and `LcCache`
are proved (section 5) and not run.

`threads` runs a composition: its two components share the workers. The two
components of `jit` share no variable, since all a call needs of the dispatch cache is
the answer of a look-up. Interleaving them would show nothing, so a behaviour of
`MCJit` is one of the cache or one of a program.

### Why the bounds are enough

- **threads**: with three threads and two indexes a thread can find the pool
  empty while two others are between `TlsAlloc` and the exchange; a third
  distinct role does not exist. The lock has one holder: two workers give a holder
  and a waiter, or one already past it, next to a thread that never takes it. Each
  fails or succeeds at each step independently.
- **coro**: three coroutines give a chain resumer - normal - running with a
  fourth fiber (the thread's own) below it, and a third coroutine to be closed
  from inside; the second OS thread gives a coroutine that belongs to somebody
  else. `MaxClosing` = 2 allows a handler that closes another coroutine with
  handlers. The coroutines are interchangeable, hence the symmetry set; the
  threads are not (`Main`) and are not permuted. All checked properties are
  safety properties.
- **jit, the cache**: five Protos from capacity 1 pass the capacities 1, 2, 4
  and 8, in tables of 4 to 32 slots, with collisions across the table's end; the
  growth factor and the load factor are the code's.
- **ffi_callback**: stubs of sizes 1 and 2 in a slab of 4 reach an exact fit, a
  refusal with one unit left, and slot reuse with a fresh stub; depth 2 lets a
  callback be freed or replaced by one it calls.
- **par_codegen**: more functions than workers, fewer, equal, none; more
  requested jobs than the pool's array (in the code 64) and fewer.
- **lc_cache**: capacity 1 makes each storing build evict; two functions of one
  version and two versions of one function tell apart ordinal and input in the
  key; a dead version exercises the early return before the store. The two
  builds are interchangeable.
- **build**: two builds on one path. One retry instead of the code's five: an attempt
  that has a sleep left, and the last, which has none, are both there, and
  the safety theorems hold for any number. The trees: one complete with a cycle (main → a → b → json → windows.x → a, that is
  through two packages); one with a pinned module and a forced package of two
  levels; one with a dynamic require and a native package; one with a broken
  entry, a broken package and a missing module; one with a package that has no
  source. `json` may be installed and removed at any point, so that one walk can
  see it as a module and as a package.
- **linker**: `main` calls `f`, `g` and `f` through its import slot. `f` has
  every role in the user object (a weak one also with a default), `g` and the import name vary, an optional runtime object
  defines, folds, weakens or tentatively defines `f`; six pairs of archives
  define `f` and `g` in circles, index a name to a member that does not define
  it, hold import stubs, stubs of unknown DLLs and unreadable members; with and
  without `-u f`, with and without the sweep. Sort keys are such that the
  sections leave the sort in another order than they came in.
- **native_code**: four families of modules. Loops: every pair of 14 loop bodies
  (arithmetic with and without proofs, moves, overwritten locals, calls, guarded
  exits) over every type of initial value, with and without a closure that
  captures a local; calls: a local function called from two sites with arguments
  of every type, escaping or not; tables: one that stays local, is read, written
  and captured; stubs: two
  modules, and branches that never run around the only `require` or closure. A loop takes
  two turns, so that what the first leaves in registers is what the second finds;
  a guard may leave it in either. `-O1` runs the emitter without
  the whole-program passes, `-O3` runs everything.
- **jit, the calls**: six *short* programs of three instructions over every shape of call,
  on stacks whose limit is hit by the first or by a later call, and three *long*
  ones of four instructions for chains of tail calls, closers and `pcall`. Two
  arguments and two results tell "one too few" from "one too many".
  `LUA_MINSTACK` is 4 instead of 20 so that a C function's frame can end inside
  the stack; the headroom (5) and `EXTRA_STACK` (5) are the code's. A
  function that forwards three values of its `...` takes a ceiling beyond what the
  headroom absorbs; with two more, a metamethod would write past the allocation
  (section 6), which the model has no cell for. The iterator of a generic for and the list of a
  constructor are never open through `...`, and no hook is set.

### Deadlock

`threads`, `native_code`, `fold_local`, `jit` and `vararg_ceiling` check for deadlock; where their
programs are over, an action says so. The others set `CHECK_DEADLOCK FALSE`
because the system they model really ends: the program closes its state, all
pool workers have returned, the slab is full and all callbacks freed, the builds and
the link are over. That no actor waits for ever is checked where it is a
question, by the liveness properties.

## 4 Fairness

| Run | Assumption | Why the code justifies it |
|---|---|---|
| `threads` | per worker, weak fairness of the setters it is in (`SetsState`) and strong fairness of its bootstrap (`Proceeds`, the acquisition of the lock included) | the OS schedules every thread; a worker takes the bring-up lock once, so with finitely many workers nobody is overtaken for ever; and its function and finalizers call finitely many setters and return: without the strong form a worker could go from one setter to the next for ever |
| `par_codegen` | weak fairness of the calling thread only | its wait has a deadline. Nothing is assumed of the pool's workers: one may hang for ever, and the caller still returns |
| `build` | weak fairness of each build | a process that is not killed goes on. Nothing is assumed of whoever holds the output, who may never let go, nor of `rover`, which may never stop |
| `linker` | weak fairness of the single next-state relation | one sequential pass |

The other modules check safety only: `Coro`, `DispatchCache` and `FfiCallback`
are libraries whose next call is the user's choice, in `LcCache` any build may
stop at any time, the compiled programs of `NativeCode` and `NativeCalls` may loop
as their source says, and in `TlsSlot` the question is who wins.

## 5 What is proved

The eight proof modules are checked by TLAPS from nothing; no step is taken on
trust. An invariant that a run checks is seldom inductive, so each module has a
stronger one that is, a conjunction of parts named for what they say, and a lemma
or a step per action.

**ThreadProofs, of `TlsSlot`**, from `TlsAssumption` (None is neither an index nor
a thread), for any sets of threads and indexes: `SpecOneSlot`, `SpecNoLeakedSlot`.
`NoLeakedSlot` is not inductive: an exchange that lost says nothing about who
owns the spare. The inductive invariant adds `Ownership` (a thread holds a spare
exactly between its allocation and the exchange or the free; the spare is
allocated, differs from the published index and from every other thread's), and
the two halves of `OneSlot`.

**ThreadProofs, of `ThreadWorker`**, from `Nil \notin Worker`, for any workers:
`SpecTypeOK`, `SpecNothingSwept`, `SpecCtxOutlivesThread`, `SpecOwnCacheWhileOpen`,
`SpecJoinTellsOutcome`. The invariant: a tree is built and has no root only
while the collector is stopped (`RootInTime`); from the birth of its cache to its
end a thread uses its own, and its state lives within that time (`OwnCache`); an
outcome exists from the capture on, the status tells it, and a joined worker has
ended (`OutcomeKnown`).

**ThreadProofs, of `Threads`**: `ThreadsImplementBoth` (`ThreadsSpec => Spec /\ TlsSpec`:
each step of the composition is a step of one component and changes nothing of the
other), and with it `ThreadsOneSlot` and `ThreadsOwnCache`, what the run `threads`
checks, for any workers and threads.

**CoroProofs**, from `CoroAssumption`, for any OS threads and coroutines and any
depth of nested closes: `SpecTypeOK`, `SpecCurrentIsRunning`, `SpecCallerWaits`,
`SpecFrameOfOwnFiber`, `SpecNoLiveFiberDeleted`, each under `~HandlersReenter`,
the assumption that no `__close` handler enters the coroutine it belongs to
(section 6 says what happens without it). The argument is local and never
follows a whole chain of resumes:

- `WaitLinks`: a fiber that waits and the coroutine it resumed name each other;
- `NormalWaits`: a coroutine is "normal" exactly while its fiber waits;
- `CallerLinks`: a coroutine that is running or normal was resumed by a fiber
  that waits for it;
- `Owned`: activations never cross OS threads;
- `Switch`: the current-coroutine pointer is right in user code, and is the
  coroutine just left while a switch back is under way;
- `Frames`: a recovery frame, saved or installed, is of the fiber it is kept for;
- `Alive`: whatever is anchored and can be entered has a live fiber until the
  state is closed;
- `Apart`: a coroutine whose handlers run is in no activation.

There is a lemma per action; `NextInd` combines them, `SpecInd` is the induction.

`SpecImplementsAbs` is the refinement of `CoroAbs`, under the same assumption and
`CoroFinite` (the coroutines that exist are finitely many, which bounds the length of a
path). It is the one theorem that follows a whole chain of resumes, and does it without
induction over the chain: a path of caller links to a fiber is unique (`PathsAgree`,
`OnePath`: of the places where two paths differ, counted from the end, take the
first; the place after it decides it), so it suffices to keep one that exists (`Stacked`: each thread has
a path of distinct coroutines, all entered, all its own). A switch back takes its last
element off (`StackPopped`), a resume appends one (`StackPushed`), every other step
leaves the links of entered coroutines alone (`StacksKept`). Beside the stacks the
mapping needs that handlers of a coroutine run once and while it is suspended
(`ClosedOnce`, `ClosedSuspended`), that a dead one has nothing left to tear down
(`DeadReset`), and that exactly those with a fiber are anchored (`Made`).

**CodegenProofs, of `ParCodegen`**, from `ParAssumption` (the bounds are natural numbers, the
pool has room for a worker), for any number of functions, requested jobs and
pool size: `SpecPoolTypeOK`, `SpecClaimedOnce`, `SpecSuccessMeansFinished` (success
means complete and quiet). That it means complete needs: every index held
or compiled was drawn from the counter (`Drawn`, `DoneDrawn`), every drawn index
is compiled, held, or lost to a failure that raised the flag (`NothingLost`), a
worker ends only past the last index or after a failure (`EndsAtTheEnd`), and
the caller believes in success only if nothing failed to start and every started
worker ended (`Believes`).

**JitProofs, of `DispatchCache`**, from `DispatchAssumption` (the hash of a Proto is a natural
number, the first capacity a positive one), for any set of Protos and any hash:
`SpecTypeOK`, `SpecFindsRegistered`, `SpecImplementsSet`. The invariant: the memo
is an entry or empty; entries are distinct; each entry is in the table, at a
place that probing from its hash reaches over occupied slots, and nothing else is
(`TableHolds`); the table has four slots per entry (`Roomy`), so a probe for a
Proto that is not there meets a free one. The rehash of a growth is a recursive
function, and induction over data is out of the provers' reach; the proof takes
the least counterexample of a finite set of natural numbers instead.

**JitProofs, of `NativeCalls`**, for any functions and programs (`CallsAssumption` is
not used): `SpecOneLoopPerChain`. What it says of the machine stack alone cannot be kept up:
whether `Rt_TailCall` starts a loop depends on a mark in the CallInfo. The inductive
invariant `LoopInv` therefore relates the two stacks (`Tower`): each activation is on
one that may call it (`Ordered`); every CallInfo has a place among the activations,
in their order, that of the function it runs, or the free place on top when that
function has left and whoever entered it is about to pop the CallInfo (`Places`,
`Held`, `Pending`); a CallInfo's mark is up exactly while a drive loop is right below
that place (`Marks`); a `pcall` knows its own CallInfo (`Guards`), so that an error
cuts both stacks at the same function; and the request is up only when a drive loop
is on top. `TowerStays` and `TowerCut` say what a push and a pop have to show;
the lemmas under "What the operators on the Lua stack do" that nothing but a call, a
return and the drive loop touches a CallInfo's mark, wherever the stack is
reallocated or collected; then there is a lemma per helper and one per group of
instructions that use it.

**NativeCallsProofs**, from `CallsAssumption`, for any functions, programs and sizes
of the stack: that the values are where the language says. (What the operators on
the stack do to the values, and the steps that call a function, are the last part of
`JitProofs`; returns, tail calls, C functions, errors and the theorems are here.)
`SpecRegistersPrivate` and `SpecListEndsAtTop` say `CallsSpec /\ []StackHolds =>
[]...`: as long as the code's own two assumptions on the stack are true, no call,
metamethod, closer, tail call, error, reallocation or collection disturbs a waiting
function, and every open list ends at `top`. The assumptions, `StackHolds`, are that what a
metamethod call writes above a ceiling is inside the allocation (`Ceilings`), and
`KeptBelow`. They are not true of every program: three arguments of a vararg function
break `Ceilings` already (section 6). The run checks both properties on such programs
too, without the hypothesis.

Neither property is inductive. `RegistersPrivate` says nothing of the values on
their way: the arguments a helper has copied but whose function has not moved its
frame, results that wait to be moved, the list an instruction left for the next one,
the function a closer must still call. The inductive invariant `DataInv` adds to
`LoopInv`, with a *link* that gives each frame the activation that waits for the
frame above it (`Serving`):

- `Shape`, `Placed`: each frame of the language is where its CallInfo says, its
  registers and varargs in the cells from there, in whichever of its phases it is
  (entered, frame moved, list open, closed, returning);
- `DealOK`, `WaitOK`: what the frame above is to deliver fits what the waiting activation
  will do with it: the register it goes to, how many values are wanted, whether
  `top` or a count tells their number;
- `LowerOK`: frames lie in order, each below the function of the next, so what is
  written above a function's base is above all who wait;
- `TopOK`: where `top` and the result count are, by what the topmost activation is
  about to do.

Each step is then one of a few forms: it hands over to a new frame (`HandsOver`),
puts a new frame in the place of the old (`TakesOver`), gives results back
(`GoesBack`), moves its own frame (`Prepared`), or cuts the stacks at a `pcall`
(`CutBack`); a lemma per action says which, and one per form that the invariant
survives. Everything below the frame on top is covered by `StaysInPlace`: cells
below a bound are equal before and after, for every operator, growth and collection
included.

`PlainStackHolds`, `PlainRegistersPrivate` and `PlainListEndsAtTop` have no
hypothesis on the states. They are about `PlainPrograms`: no vararg function is
called by `Rt_Call` (C code may call one, and the program may start in one), and one
that asks for an open `...` has no generic loop and no table constructor beside it.
There the two assumptions follow from an invariant of their own, `PlainInv`: every
ceiling is within the headroom (`Ceiled`); a vararg function that has not moved its
frame was entered by `luaD_precall`, whose ceiling is exact, so moving it by its
arguments needs no more than `luaT_adjustvarargs` checked (`Unprepped`); and nothing
lowers `top` below the registers of a function that may ask for `...` (`Raisen`).
The forms above carry what this needs: `HandsOver` that the ceiling of a vararg
function it enters is exact, `GoesBack` and `CutBack` that the ceilings below are
the old ones. Five of the ten sets of functions of the run are plain.

**FfiCallbackProofs**, from `CallbackAssumption` (every stub has a positive size),
for any functions, signatures, slots and slab size: `SpecTypeOK` (the slab never
overflows), `SpecAnchoredExactly` (references and used slots balance), and
`SpecImplementsAbs`, the refinement of `CallbackAbs` step by step. The invariant:
the stub of a slot in use has that slot's number baked in, so no two slots share
one (`StubOfItsSlot`), and every stub took room (`Fits`).

**CodegenProofs, of `LcCache`**, from `LcCacheAssumption`, for any builds, functions, versions and
capacity: `SpecTypeOK`, `SpecRestoredIsFresh`, `SpecNoStageLeft`. The invariant:
what a job has compiled, restored or staged is its own, and it has a stage file
exactly while it stores (`JobsOwn`); an entry was compiled from what its name says
(`EntriesOwn`); a build evicts only after its last function (`EvictsLast`); there
are finitely many entries (an eviction counts them).

**PublishProofs**, for any number of builds and retries: `SpecTypeOK`,
`SpecOutAlwaysClosed`, `SpecNoStageLeft`, `SpecReportMatchesOutput`. The invariant
says, by the place a build has reached, what it makes (`KindAtPlace`), whether its
staging file exists and has been closed (`StageAtPlace`), and who wrote the files at the
output's names (`Written`). `OutNeverPartial` is not among the theorems: it does not
hold (section 6).
About `Driver`, from `DriverAssumption`, for any tree of sources and any store:
`DriverImplementsPublish` (`DriverSpec => Spec`: every step of a driver is a step
of `Publish` or changes nothing there, so all of the above hold of whole builds)
and `SpecSelfContained`. The invariant of the walk, per build and phase: whatever
a compiled module or a scanned package requires is provided by the runtime,
queued, visited or a known package (`WalkInv`), and as long as no error is
recorded the visited names are the bundled ones; when the walk ends
(`AppendInv`) nothing is queued and every package is scanned; once the packages
are appended (`ClosedInv`) the bundle is closed.

**LinkerProofs**, from `LinkerAssumption` (the inputs are well-formed; the armap of an
archive names members it has, and an import stub only under a function's name or
its `__imp_` name), for any symbol names, objects, archives, `-u` roots and sort keys:
`SpecTypeOK`, `SpecArchivesExact`, `SpecLiveExact`, `SpecBindsAsWritten`. None of the
three properties is inductive, since each is about what several passes have left
in different tables. `IndInv` follows the tables from pass to pass:

- `Types`, `Counts`: the objects are the explicit ones and then the members pulled;
- `SymOK` says what an entry of the symbol table means in terms of the objects
  loaded so far, name by name: the definition is of the first object that has one,
  unless an import came first (`ObjIsFirst`); the slot is of the last import
  (`ImpIsLast`); the tentative, weak and forced marks are there exactly as far as
  somebody made them and nobody had defined the name (`CommonNoted`, `WeakNoted`,
  `ForcedNoted`); a name is in the array of symbols when somebody mentioned it
  (`Interned`). With these `sym_unresolved` is `Demanded`, which is what
  `PulledOnDemand` and `NothingMissed` talk about;
- `Laid`: from the collection on, `contribs` holds each section that has a
  contribution once, in whatever order, and `map` is its index *as it stands*; this
  is what the second `contrib_map_build` restores after the sort;
- `Marking`: while sections are marked, the live ones that left the worklist are
  closed under references, and every closed set that holds the roots holds the
  live ones, so that at the end the live set is the least (`LiveExact`); after the
  sweep no live section refers to a dropped one;
- `Bound`: each later pass has computed its table from the one before, and no two
  tentative definitions share a slot.

`ArchivesExact` needs only the first two. `LiveExact` needs that where the sweep
looks a name up (`gc_mark_target`, in tables) is where it is defined (`Definition`, in
objects): `MarksDefinition`. `BindsAsWritten` needs the same of the relocation pass
(`BindsOwn`, `BindsByTable`), whose look-up is a different piece of code. That a sort
leaves each section once is `SortedLists`: the elements before an element are
fewer than those before the next, so their numbers are a bijection.

**Only model-checked.** All liveness properties (`EveryWorkerEnds`, `CallerReturns`,
`EveryBuildEnds`, `LinkEnds`: proofs under fairness are out of reach of the
installed provers). All of `NativeCode` (`ProofsHold`, `FrameAgrees`, `ObserverSees`,
`SamePath`, `DeadNeverRuns`): its passes are recursive fixpoints whose result the
provers cannot compute, and what it shows is about the programs of the run. Of
`NativeCalls`, `RoomWasMade`, and `RegistersPrivate` and `ListEndsAtTop` of programs
that are not plain and do not keep to `StackHolds`.

## 6 Where code and documentation disagree

Three disagreements have a run of their own.

- **A false guard is folded although its variable lives on** (`fold_local`,
  `FoldUnseen`). `lc_pass_fold_dead_branches` (`opt/passes.c:963`) makes holes of a
  LOADFALSE, its TEST and JMP and the body they guard, whatever register the
  LOADFALSE fills and whoever else reaches the TEST. After `local DEBUG = false;
  if DEBUG then local function f() ... end end` a later read of `DEBUG` finds a
  register nobody wrote; a body that a later turn of a `goto` loop makes
  reachable is gone. `opt/passes.c:888-889` says "the body is DEAD in the
  pre-existing semantics, and removing dead code cannot change stdout".
- **A truncated image is published** (`truncated_image`, `OutNeverPartial`). `emit_pe`
  checks `fwrite` and ignores what `fclose` returns (`link/pe_emit.c:2909`), so the last
  buffered bytes may be lost without an error. The staged file is then flushed and
  moved over the old program, and the build reports success.
  `link/pe_link_v2.c:83-87` says "replace the destination only after the linker has
  closed a complete PE". What does hold (`OutAlwaysClosed`, in `build` and proved) is
  that nothing shows at the output before its writer has closed it.
- **The ceiling of a vararg function lies beyond the stack** (`vararg_ceiling`,
  `AdjustedOnStack`). `ltm.c:254` asserts
  `L->top.p <= ci->top.p && ci->top.p <= L->stack_last.p`. `Rt_Call` sets `ci->top` to
  `top + maxstacksize + 5` and makes room for that much (`jit/runtime.c:215`); the
  function's `VARARGPREP` moves the ceiling up by the number of arguments and one, and
  makes room for `maxstacksize + 1` only. So the ceiling may lie beyond `stack_last` by
  as many cells as there are arguments. A frame's own registers are still inside
  (`RegistersPrivate` and `RoomWasMade` hold in the run), and `EXTRA_STACK` behind
  `stack_last` absorbs what a metamethod call writes above the ceiling (three cells) for
  up to two arguments; from three on it does not in general (`Ceilings` fails). With
  five values of `...` TLC reaches, under the run's constants, a state where a metamethod
  call writes past the allocation. That is why `SpecRegistersPrivate` has a hypothesis,
  and why `PlainPrograms` keeps `Rt_Call` from vararg functions.

Three more can be seen with the modules as they are, by adding an invariant to a
configuration:

- *A `__close` handler can enter the coroutine being closed* (`Coro.cfg` with
  `HandlersReenter = TRUE` and `INVARIANT TornDownBeforeDelete`). `LuaFn_Close`
  leaves the status at SUSPENDED while `lua_closethread` runs the handlers
  (`runtime/coro.c:324`). A handler that resumes the coroutine puts frames on its
  stack again, and close then deletes the fiber. The comment at 315-317 says the
  Lua side "is already torn down in an ordered way rather than abandoned
  mid-frame".
- *Workers outlive their pool* (`ParCodegen.cfg`, `PoolOutlivesWorkers`). After the
  60-second timeout `LcCg_RunParallel` returns, its pool (a local variable) is
  gone, and `lc_codegen` frees the module, while workers go on reading one and
  writing the other. `codegen/parallel.c:52-53` says that the pool lives across
  the wait, and 142-146 that stray workers run "after the process exits".
- *A cached function has no line rows* (`LcCache.cfg`, `RestoredIsIdentical`). With
  `-g` a warm build's `.clualn` section differs from a cold one's.
  `codegen/lc_cache.h:29` demands byte-identity of the emitted PE.

Others were met on the way; where a model contains the step, its actions do it.

Optimiser and helpers:

- *A debug hook set by a natively running function before its tail call*:
  `Rt_TailCall`'s drive loop then calls `luaV_execute` on a CallInfo that is not
  fresh, and the interpreter would return into a frame that has no caller of its
  kind. Hooks are left out of `NativeCalls`.
- *The result of `lua_checkstack` is ignored* in `Rt_Call`: a stack that cannot grow
  is used as if it had.
- *`top` is left low* after `Rt_TForCall` and after the open-list branch of
  `Rt_SetList`, against `jit/runtime.c:293` ("between-instructions invariant
  L->top.p == ci->top.p"). `Rt_Vararg` (`runtime.c:1194`) does not raise `top` before
  `luaT_getvarargs`, which may collect, and the collector clears what is above `top`.
  For programs that combine an open `...` with a generic loop or a constructor's open
  list in one function, TLC finds `RegistersPrivate` violated: a register at
  `top` is cleared. The run and `PlainPrograms` leave that combination out;
  `KeptBelow` is the hypothesis of the theorems that excludes it.
- *`Rt_VarargPrep`'s comment* "Non-vararg frames already have top == ci->top.p from
  luaD_precall" is not so for a frame entered through `Rt_Call`; it does no harm.

Driver and require walk:

- *`-L` does not make a dynamic require buildable*, though `docs/errors/E010.md`
  (44-51) and the comment at `driver/main.c:397-404` say so: `lc_drive` ends with an
  error whenever the walk has warned.
- *`ForceLinkName` does not mirror `ScanProto`* (`compiler/resolve.c:577-579` says it
  does): it lacks the test whether a package of that name is installed.
- *A module of the project named `main`* is taken for the entry, never looked for
  and never bundled. `SelfContained` holds because the name counts as bundled.
- *`require("a" .. x)`* is taken for a require of `a`, and a require whose name
  reached its register another way is overlooked. `Paths_InstalledInStore` does not
  look into the versioned directories that `rover.lock` pins. These are about the
  recognition of names, which the model takes as given.

Earlier components:

- *Weak externals with a default.* The sweep does not follow the default of a
  weak name (`gc_mark_target`, `pe_emit.c:1227-1266`), so a default reachable
  only through it is dropped and the name is bound to 0; and `reloc_target_rva`
  treats the name as an absolute value even when the default exists.
  `pe_emit.c:1067-1069` says no live relocation can point at a dropped section.
  `LiveExact` and `BindsAsWritten` leave defaults out for that reason.
- *One weak mention weakens all.* If any object mentions an undefined name
  weakly, the strong references of other objects no longer pull a member and are
  bound to null (comment 672-676 says "Mirrors ld").
- *An import overrides a definition.* An unresolved `__imp_foo` makes
  `try_resolve_import` turn a `foo` that an object has defined into an import
  thunk. `Shadowed` in `Linker` names the case.
- *Duplicate strong definitions* are not diagnosed: the first one wins.
- *Coroutines stay anchored.* The registry reference taken by create
  (`coro.c:179`) is dropped only if the fiber cannot be made, so a finished or
  closed coroutine is never collected before `lua_close`; the comment at 15-17
  gives only a live, suspended fiber as the reason to keep it.
- *`os.exit(code, true)` inside a coroutine* deletes the executing fiber
  (`coro.c:387`), which ends the OS thread before exit is called.
- *A failed growth of the dispatch cache* leaves `Cap` at the new size with the
  old table (`dispatch.c:151`), against "usable at its previous size". It does no
  harm because the one caller gives up at the first failure: `FindsRegistered`
  shows that lookups still end and are right.
- *A worker's result may be lost silently*: the status is 1 even if the copy of
  the result could not be allocated (`aot_entry.c:375`). `JoinTellsOutcome` does not
  see it: it speaks of the status.
- *The callback slab only grows*: freeing a callback frees its slot, not its stub
  (`ffi_callback.c:194`), so a program that casts and frees in a loop runs out,
  although `src/tests` describe slots as reusable.
- *Cache bookkeeping.* Only `*.co` files are enumerated for eviction
  (`lc_cache.c:582`), so the stage file of a crashed build stays for ever; two
  evictions at once delete more than needed; a failed flush publishes a truncated
  entry (523), which the next load detects by its lengths and treats as a miss.

## 7 What is not modelled

- *Data*: bytes, encodings, instruction selection, marshalling, parsing. What
  emitted x64 code does would need a model of the processor.
- *Lexing, parsing, lint passes, options, dumps; the IR's verifier and its SSA form*
  (which no pass builds); *object, archive and resource formats; FFI types,
  marshalling and loading; the start-up of the embedded runtime; the rebuilding
  of Protos from the blob*: sequential code over data. The Lua core is third-party
  code and modelled only where compiled code runs through it.
- *Of the optimiser*: the passes that are empty in the source. *Of the emitter*: the
  encoding of instructions, inline table accesses, and the opcodes that section 2
  names under `NativeCode`. *Of the helpers*: what tables, arithmetic and
  comparisons compute, the depth check of the C stack, and the fall-back to the
  interpreter.
- *Of the driver*: what is inside a gate; an edit of a source during a build.
- *Of the other modelled components*: the value serializer, the shippability test
  and `alive` of worker threads; the fault handler's source-line lookup; the
  linker's image writing, exports, resources, base relocations and strip modes.
  Join's timeout in milliseconds and the limits of 512 call thunks and 64 code
  regions are not modelled either.
- *Hazards without a property.* Ten places that order or failure can reach are
  described but no checked property speaks of them: the registry reference that
  keeps every finished coroutine (`coro.c:179`) and the executing fiber deleted by
  `lua_close` (`coro.c:387`), both in section 6; the second `VirtualProtect` of the
  slab failing with live stubs in it (`ffi_callback.c:209`), a callback that outlives
  its state and one on a foreign thread while the main one runs
  (`ffi_callback.c:256`), which the API leaves to its caller; the exception handler
  writing to a frame without a NULL test (`veh.c:305`); the swept default of a weak
  name (`pe_emit.c:2072`, section 6); a worker's payload that could not be copied
  (`aot_entry.c:370`, section 6); an input the cache key leaves out (`lc_cache.c:218`:
  which fields the emitter reads is data, and `KeyOf` takes the key to be complete); pool
  workers that write after a wait that failed (`parallel.c:141`: `SuccessMeansFinished`
  covers success only, and `PoolOutlivesWorkers` of section 6 does not hold).
- *Assumptions on the outside*: `MoveFileEx` with replace is atomic; a file opened by
  `fopen` cannot be replaced or removed while it is open; the cache's 128-bit FNV-1a
  key separates the inputs that occur; `VirtualProtect` and `CreateFiber` either work or report
  failure; Lua's collector sweeps only what has no root.

## 8 Plan

Done, in this order: `TlsSlot` (small, fixes the conventions), `Coro` with
`CoroAbs` and its proofs, `ParCodegen` with its proofs, `DispatchCache`,
`ThreadWorker`, `FfiCallback`, `LcCache`, `Publish`, `Linker`; then the passes
(`Bytecode` to `Residency`) composed in `NativeCode`, `NativeCalls`, the proofs of
`ThreadWorker`, `Publish`, `FfiCallback`, `LcCache` and `DispatchCache`, `Driver`
composed with `Publish`, with its proofs; `Threads`; the step simulation of `CoroAbs`, the proofs
of `Linker` and of the drive loops in `NativeCalls`; the values on the Lua stack
(`NativeCallsProofs`).

Left:

1. compositions: pool workers with the cache (`ParCodegen` with `LcCache`), workers
   with one dispatch cache each (`ThreadWorker` with `DispatchCache`);
2. `NativeCode`: methods, concatenation and the opcodes with several results;
   the inline table accesses and their guards;
3. pure algorithms against reference definitions: the numeric for loop with
   wrap-around, integer division and modulo of `Rt_*`, the serializer's limits;
4. `Linker`: exports, strip modes, the names the linker defines;
5. `TypeInfer`: that one step of the transfer function is sound, as a theorem
   about an instruction rather than a run over programs;
6. `NativeCalls`: a proof of `RoomWasMade`; the values on the stack for vararg functions
   called through `Rt_Call`, under a bound on their arguments.

## 9 Running it

```
tlc -workers 2 -config Coro.cfg MCCoro
tlapm CoroProofs.tla
```

Each `.cfg` belongs to the MC module of the same name; `FoldLocal.cfg` to
`MCNativeCode`, `TruncatedImage.cfg` to `MCDriver`, `VarargCeiling.cfg` to `MCJit`. The
longest runs are `lc_cache`, `build`, `linker` and `jit`, between one and four minutes each; of the proofs, `NativeCallsProofs` takes some
fifteen minutes, `JitProofs` nearly ten, `CoroProofs` and `LinkerProofs` a few.
