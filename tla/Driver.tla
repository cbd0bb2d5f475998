------------------------------- MODULE Driver -------------------------------
(***************************************************************************)
(* A build from its entry file to its output (lc_drive of driver/main.c):  *)
(* the require walk of compiler/resolve.c, the bundling of the builtin     *)
(* packages, the phases up to the code generator, and the back end of      *)
(* Publish.  While builds run, rover may install packages into the store   *)
(* and remove them; the project's sources stay as they are.                *)
(*                                                                         *)
(* A source file is <<origin, name>>.  The walk's queue is a stack in the  *)
(* code; here any of its names may be next.                                *)
(***************************************************************************)
EXTENDS Publish

CONSTANTS Name,      \* module names
          Main,      \* "main", the entry's own name
          Builtin,   \* k_BuiltinPackages
          Provided,  \* ffi, bit and the standard libraries
          Native,    \* the packages that need a native archive
          Parent,    \* [packages with a parent -> the parent]
          Roving,    \* the packages rover installs and removes
          Trees      \* the source trees and options a build may be given

SourceFile == {"project", "pinned", "store", "toolchain"} \X Name

ASSUME DriverAssumption ==
  /\ Main \in Name \ (Builtin \cup Provided)
  /\ Builtin \cap Provided = {} /\ Native \subseteq Builtin
  /\ DOMAIN Parent \subseteq Builtin /\ \A n \in DOMAIN Parent : Parent[n] \in Builtin
  /\ Trees \subseteq [requires : [SourceFile -> SUBSET Name], parses : SUBSET SourceFile,
                      broken : SUBSET SourceFile, dynamic : SUBSET SourceFile,
                      pinned : SUBSET Name, forced : SUBSET Name]
  /\ \A t \in Trees : t.parses \cap t.broken = {}

VARIABLES tree,      \* the sources: what each requires, which exist and parse, which
                     \* exist and do not, which have a require of a variable; the
                     \* versions rover.lock pins; the names of -L
          store,     \* the packages installed in the store
          phase,     \* the phase of lc_drive each build is in
          bundle,    \* Out->Modules: <<name, file>>
          queue,     \* the names still to be resolved
          visited,   \* the names resolved, whatever the outcome
          packages,  \* Out->BuiltinPackages
          scanned,   \* BuiltinDone
          errors,    \* the diagnostic collector has an entry
          dynamic    \* Warned > 0

walkVars == <<bundle, queue, visited, packages, scanned, errors, dynamic>>
driverVars == <<vars, tree, store, phase, walkVars>>

DriverInit ==
  /\ Init
  /\ tree \in Trees
  /\ store = {}
  /\ phase = [b \in Build |-> "entry"]
  /\ bundle = [b \in Build |-> {}] /\ queue = [b \in Build |-> {}]
  /\ visited = [b \in Build |-> {}]
  /\ packages = [b \in Build |-> {}] /\ scanned = [b \in Build |-> {}]
  /\ errors = [b \in Build |-> FALSE] /\ dynamic = [b \in Build |-> FALSE]

-----------------------------------------------------------------------------
(* The classification of a required name, and where its source is.         *)

(* A builtin package, unless a package of that name is installed.          *)
AsPackage(n) == n \in Builtin /\ n \notin store
AsModule(n) == n \notin Provided /\ ~AsPackage(n)
WithParents(ns) == ns \cup {Parent[n] : n \in ns \cap DOMAIN Parent}

(* Paths_ModuleNameToFilePath: the pinned version, the store, and else a   *)
(* file of the project, there or not.                                      *)
Source(n) ==
  IF n \in tree.pinned THEN <<"pinned", n>>
  ELSE IF n \in store THEN <<"store", n>> ELSE <<"project", n>>

Bundled(b) == {m[1] : m \in bundle[b]}

(* The require calls of the files fs found (ScanProto), among the names    *)
(* still queued.                                                           *)
Scans(b, fs, queued, known) ==
  LET ns == UNION {tree.requires[f] : f \in fs} IN
  /\ queue' = [queue EXCEPT ![b] = queued \cup {n \in ns : AsModule(n)}]
  /\ packages' = [packages EXCEPT ![b] = known \cup WithParents({n \in ns : AsPackage(n)})]
  /\ dynamic' = [dynamic EXCEPT ![b] = @ \/ fs \cap tree.dynamic # {}]

(* A file is compiled, and scanned if that succeeded.                      *)
Readable(f) == {f} \cap tree.parses
Compiled(b, n, f) ==
  /\ bundle' = [bundle EXCEPT ![b] = @ \cup ({n} \X Readable(f))]
  /\ errors' = [errors EXCEPT ![b] = @ \/ f \notin tree.parses]

-----------------------------------------------------------------------------
(* Resolve_Walk.                                                           *)

Fronts(b, from, to) ==
  /\ pc[b] = "object" /\ phase[b] = from
  /\ phase' = [phase EXCEPT ![b] = to]

(* The entry, and the names of -L as if it had required them; but one that *)
(* is builtin is so whatever is installed.                                 *)
CompileEntry(b) ==
  /\ Fronts(b, "entry", "walk")
  /\ LET f == <<"project", Main>> IN
       /\ Compiled(b, Main, f)
       /\ Scans(b, Readable(f), tree.forced \ (Provided \cup Builtin),
                WithParents(tree.forced \cap Builtin))
  /\ visited' = [visited EXCEPT ![b] = {Main}]
  /\ UNCHANGED <<vars, tree, store, scanned>>

(* A builtin package's own source is scanned; one without is passed over.  *)
ScanPackage(b) ==
  /\ Fronts(b, "walk", "walk")
  /\ \E n \in packages[b] \ scanned[b] :
       LET f == <<"toolchain", n>> IN
       /\ scanned' = [scanned EXCEPT ![b] = @ \cup {n}]
       /\ Scans(b, Readable(f), queue[b], packages[b])
       /\ errors' = [errors EXCEPT ![b] = @ \/ f \in tree.broken]
  /\ UNCHANGED <<vars, tree, store, bundle, visited>>

(* A queued name, once every package known so far is scanned: dropped if   *)
(* it was visited, otherwise compiled and scanned, or recorded as an error.*)
TakeModule(b) ==
  /\ Fronts(b, "walk", "walk")
  /\ packages[b] \subseteq scanned[b]
  /\ \E n \in queue[b] :
       LET f == Source(n)
           fs == IF n \in visited[b] THEN {} ELSE Readable(f) IN
       /\ IF n \in visited[b] THEN UNCHANGED <<bundle, errors>> ELSE Compiled(b, n, f)
       /\ visited' = [visited EXCEPT ![b] = @ \cup {n}]
       /\ Scans(b, fs, queue[b] \ {n}, packages[b])
  /\ UNCHANGED <<vars, tree, store, scanned>>

-----------------------------------------------------------------------------
(* The rest of the front end.                                              *)

(* The walk's lists are freed with it, its result when the build is over.  *)
FreeLists(b) ==
  /\ queue' = [queue EXCEPT ![b] = {}]
  /\ visited' = [visited EXCEPT ![b] = {}]
  /\ scanned' = [scanned EXCEPT ![b] = {}]
Over(b) ==
  /\ phase' = [phase EXCEPT ![b] = "over"]
  /\ FreeLists(b)
  /\ bundle' = [bundle EXCEPT ![b] = {}]
  /\ packages' = [packages EXCEPT ![b] = {}]
  /\ errors' = [errors EXCEPT ![b] = FALSE] /\ dynamic' = [dynamic EXCEPT ![b] = FALSE]

FrontFails(b, from) ==
  /\ pc[b] = "object" /\ phase[b] = from
  /\ Goes(b, "failed")
  /\ Over(b)
  /\ UNCHANGED <<kind, attempt, object, staged, out, def, heldOpen, tree, store>>

(* Mutant: the packages a module brings in late are not scanned.           *)
WalkedEarly(b) == queue[b] = {}

Walked(b) == packages[b] \subseteq scanned[b] /\ queue[b] = {}
Refused(b) == errors[b] \/ dynamic[b] \/ packages[b] \cap Native # {}

WalkEnds(b) ==
  /\ Fronts(b, "walk", "append")
  /\ Walked(b) /\ ~Refused(b)
  /\ FreeLists(b)
  /\ UNCHANGED <<vars, tree, store, bundle, packages, errors, dynamic>>

WalkFails(b) == Walked(b) /\ Refused(b) /\ FrontFails(b, "walk")

(* Resolve_AppendBuiltinModules: the packages whose name is not bundled    *)
(* yet, from the toolchain.                                                *)
Appended(b) == {<<n, <<"toolchain", n>>>> : n \in packages[b] \ Bundled(b)}

AppendPackages(b) ==
  /\ Fronts(b, "append", "gates")
  /\ \A m \in Appended(b) : m[2] \in tree.parses
  /\ bundle' = [bundle EXCEPT ![b] = @ \cup Appended(b)]
  /\ UNCHANGED <<vars, tree, store, queue, visited, packages, scanned, errors, dynamic>>

AppendFails(b) ==
  /\ \E m \in Appended(b) : m[2] \notin tree.parses
  /\ FrontFails(b, "append")

(* The dependency file, undump, the closed-world and opcode checks, the    *)
(* warnings, lifting, the optimiser, code generation, the blob; --check    *)
(* and the dumps stop on the way.                                          *)
Generate(b) == Fronts(b, "gates", "backend") /\ UNCHANGED <<vars, tree, store, walkVars>>
StopEarly(b) == Fronts(b, "gates", "checked") /\ UNCHANGED <<vars, tree, store, walkVars>>
GatesFail(b) == FrontFails(b, "gates")

BackEnd(b) ==
  /\ phase[b] = "backend"
  /\ Step(b)
  /\ IF pc'[b] \in Ended THEN Over(b) ELSE UNCHANGED <<phase, walkVars>>
  /\ UNCHANGED <<tree, store>>

-----------------------------------------------------------------------------

Killed(b) == phase[b] # "checked" /\ Crash(b) /\ Over(b) /\ UNCHANGED <<tree, store>>

(* Somebody else opens or closes the output.                               *)
Outside == (Hold \/ Release) /\ UNCHANGED <<tree, store, phase, walkVars>>

(* rover installs or removes a package; seen only while somebody walks.    *)
Rove ==
  /\ \E b \in Build : pc[b] = "object" /\ phase[b] \in {"entry", "walk"}
  /\ \E n \in Roving : store' \in {store \cup {n}, store \ {n}}
  /\ UNCHANGED <<vars, tree, phase, walkVars>>

DriverStep(b) ==
  \/ CompileEntry(b) \/ ScanPackage(b) \/ TakeModule(b)
  \/ WalkEnds(b) \/ WalkFails(b) \/ AppendPackages(b) \/ AppendFails(b)
  \/ Generate(b) \/ StopEarly(b) \/ GatesFail(b)
  \/ BackEnd(b)

DriverNext == (\E b \in Build : DriverStep(b) \/ Killed(b)) \/ Outside \/ Rove

DriverSpec == DriverInit /\ [][DriverNext]_driverVars

(* Every build is scheduled.                                               *)
DriverFairSpec == DriverSpec /\ \A b \in Build : WF_driverVars(DriverStep(b))

-----------------------------------------------------------------------------

(* A program that goes to the code generator is closed: it has one copy of *)
(* each module, and whatever a bundled source or -L names is bundled or    *)
(* provided by the runtime; with packages that require modules that        *)
(* require packages, cycles, and a store that changes during the walk.     *)
(* (A module called main is never looked for: the name is the entry's.)    *)
SelfContained ==
  \A b \in Build : phase[b] \in {"gates", "backend", "checked"} =>
    /\ \A m, o \in bundle[b] : m[1] = o[1] => m = o
    /\ \A m \in bundle[b] : tree.requires[m[2]] \ Provided \subseteq Bundled(b)
    /\ tree.forced \ Provided \subseteq Bundled(b)

(* Every build ends: the walk over any graph of modules, and the retries   *)
(* of the output's replacement.                                            *)
EveryBuildEnds == \A b \in Build : <>(phase[b] = "checked" \/ pc[b] \in Ended)
=============================================================================
