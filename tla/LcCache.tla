------------------------------ MODULE LcCache -------------------------------
(***************************************************************************)
(* The per-function compilation cache (codegen/lc_cache.c) as the function *)
(* compiler uses it (LcCg_CompileFunctionBody): look the key up, compile   *)
(* on a miss, stage the entry and rename it into place; after the build,   *)
(* evict the oldest entries.  Any number of builds share the directory and *)
(* the functions of a build are compiled concurrently.  A build may crash  *)
(* at any point.                                                           *)
(*                                                                         *)
(* An entry's bytes are abstracted to the inputs they were compiled from   *)
(* and whether all of them reached the file; every entry weighs the same.  *)
(* A file opened with fopen is not shared for deletion on Windows, so      *)
(* nobody can replace or remove an entry while a reader has it open.       *)
(***************************************************************************)
EXTENDS Naturals, FiniteSets, Sequences, FiniteSetsExt

CONSTANTS Build,       \* compiler processes, each with its own pid
          Func,        \* ordinals of the functions of a module
          Version,     \* what a function's IR, Proto and options can be
          Dead,        \* the versions the optimiser marks dead (subset)
          DebugChoice, \* the values of -g the builds are run with
          Cap          \* LC_CACHE_MAX_BYTES, in entries

ASSUME LcCacheAssumption ==
  /\ Dead \subseteq Version
  /\ DebugChoice \subseteq BOOLEAN
  /\ Cap \in Nat

VARIABLES version,  \* the inputs of each function, per build
          debug,    \* cg->emit_line_info, per build
          pc,       \* where the compilation of each function is
          result,   \* cm->funcs[i], per build and function
          entry,    \* the directory: <key>.co
          stage,    \* the directory: <key>.co.<pid>.tmp
          clock,    \* source of file times
          bpc,      \* where each build is
          victims,  \* the sorted snapshot of LcCache_Evict
          total     \* its running total

vars == <<version, debug, pc, result, entry, stage, clock, bpc, victims, total>>

Job == Build \X Func
Key == Func \X Version \X BOOLEAN
NoFile == [inputs |-> <<>>, whole |-> FALSE, time |-> 0]
File == [inputs : Func \X Version, whole : BOOLEAN, time : Nat]
NotYet == [inputs |-> <<>>, lines |-> FALSE]

(* LcCache_ComputeKey: the ordinal, every input, and -g.                   *)
KeyOf(b, f) == <<f, version[b][f], debug[b]>>

(* What the emitter produces: code, and line rows under -g.                *)
Fresh(b, f) == [inputs |-> <<f, version[b][f]>>, lines |-> debug[b]]

Alive(b) == bpc[b] \notin {"ended", "crashed"}
OpenByReader(k) ==
  \E b \in Build, f \in Func : Alive(b) /\ pc[b][f] = "read" /\ KeyOf(b, f) = k
Present == {k \in Key : entry[k] # NoFile}

TypeOK ==
  /\ version \in [Build -> [Func -> Version]]
  /\ debug \in [Build -> DebugChoice]
  /\ pc \in [Build -> [Func -> {"open", "read", "compile", "store", "write", "rename", "done"}]]
  /\ result \in [Build -> [Func -> [inputs : Func \X Version, lines : BOOLEAN] \cup {NotYet}]]
  /\ entry \in [Key -> File \cup {NoFile}]
  /\ stage \in [Job -> File \cup {NoFile}]
  /\ clock \in Nat
  /\ bpc \in [Build -> {"codegen", "evict", "ended", "crashed"}]
  /\ victims \in [Build -> Seq(Key)]
  /\ total \in [Build -> Nat]

Init ==
  /\ version \in [Build -> [Func -> Version]]
  /\ debug \in [Build -> DebugChoice]
  /\ pc = [b \in Build |-> [f \in Func |-> "open"]]
  /\ result = [b \in Build |-> [f \in Func |-> NotYet]]
  /\ entry = [k \in Key |-> NoFile]
  /\ stage = [j \in Job |-> NoFile]
  /\ clock = 0
  /\ bpc = [b \in Build |-> "codegen"]
  /\ victims = [b \in Build |-> <<>>]
  /\ total = [b \in Build |-> 0]

At(b, f, where) == bpc[b] = "codegen" /\ pc[b][f] = where
Goes(b, f, where) == pc' = [pc EXCEPT ![b][f] = where]

-----------------------------------------------------------------------------
(* LcCache_TryLoad.                                                        *)

Open(b, f) ==
  /\ At(b, f, "open")
  /\ Goes(b, f, IF entry[KeyOf(b, f)] = NoFile THEN "compile" ELSE "read")
  /\ UNCHANGED <<version, debug, result, entry, stage, clock, bpc, victims, total>>

(* Mutant: a short read is not noticed.                                    *)
LoadShort(b, f) ==
  /\ At(b, f, "read")
  /\ LET e == entry[KeyOf(b, f)] IN
       /\ result' = [result EXCEPT ![b][f] =
                       [inputs |-> IF e.whole THEN e.inputs ELSE <<>>, lines |-> FALSE]]
       /\ Goes(b, f, "done")
  /\ UNCHANGED <<version, debug, entry, stage, clock, bpc, victims, total>>

(* Every length field precedes its bytes and the last one ends the file:   *)
(* a truncated entry is a miss.  An entry holds code, relocations and      *)
(* unwind data, never line rows.                                           *)
Load(b, f) ==
  /\ At(b, f, "read")
  /\ LET e == entry[KeyOf(b, f)] IN
       IF e.whole
         THEN /\ result' = [result EXCEPT ![b][f] = [inputs |-> e.inputs, lines |-> FALSE]]
              /\ Goes(b, f, "done")
         ELSE /\ Goes(b, f, "compile")
              /\ UNCHANGED result
  /\ UNCHANGED <<version, debug, entry, stage, clock, bpc, victims, total>>

(* Mutant: the entry is stored before cf owns the code.                    *)
CompileUnrecorded(b, f) ==
  /\ At(b, f, "compile")
  /\ Goes(b, f, IF version[b][f] \in Dead THEN "done" ELSE "store")
  /\ UNCHANGED <<version, debug, result, entry, stage, clock, bpc, victims, total>>

(* The emitter runs; a dead function's stub returns before the store.      *)
Compile(b, f) ==
  /\ At(b, f, "compile")
  /\ result' = [result EXCEPT ![b][f] = Fresh(b, f)]
  /\ Goes(b, f, IF version[b][f] \in Dead THEN "done" ELSE "store")
  /\ UNCHANGED <<version, debug, entry, stage, clock, bpc, victims, total>>

-----------------------------------------------------------------------------
(* LcCache_Store.                                                          *)

Staged(b, f, whole) ==
  [inputs |-> result[b][f].inputs, whole |-> whole, time |-> clock]

(* fopen of the stage file creates it, or fails and the store is given up. *)
OpenStage(b, f) ==
  /\ At(b, f, "store")
  /\ \/ /\ stage' = [stage EXCEPT ![<<b, f>>] = Staged(b, f, FALSE)]
        /\ Goes(b, f, "write")
     \/ /\ Goes(b, f, "done")
        /\ UNCHANGED stage
  /\ UNCHANGED <<version, debug, result, entry, clock, bpc, victims, total>>

(* All the fwrites, fflush and fclose: either everything reaches the file; *)
(* or an fwrite fails, and the stage file is removed; or only the flush    *)
(* fails, which nobody looks at.                                           *)
WriteStage(b, f) ==
  /\ At(b, f, "write")
  /\ clock' = clock + 1
  /\ \/ /\ stage' = [stage EXCEPT ![<<b, f>>] = Staged(b, f, TRUE)]
        /\ Goes(b, f, "rename")
     \/ /\ Goes(b, f, "rename")
        /\ UNCHANGED stage
     \/ /\ stage' = [stage EXCEPT ![<<b, f>>] = NoFile]
        /\ Goes(b, f, "done")
  /\ UNCHANGED <<version, debug, result, entry, bpc, victims, total>>

(* Mutant: a failed rename leaves the stage file behind.                   *)
RenameKeepsStage(b, f) ==
  /\ At(b, f, "rename")
  /\ \/ /\ ~OpenByReader(KeyOf(b, f))
        /\ entry' = [entry EXCEPT ![KeyOf(b, f)] = stage[<<b, f>>]]
        /\ stage' = [stage EXCEPT ![<<b, f>>] = NoFile]
     \/ UNCHANGED <<entry, stage>>
  /\ Goes(b, f, "done")
  /\ UNCHANGED <<version, debug, result, clock, bpc, victims, total>>

(* MoveFileEx replaces the entry at once; it fails while a reader has the  *)
(* entry open (or for any other reason) and the stage file is removed.     *)
Rename(b, f) ==
  /\ At(b, f, "rename")
  /\ \/ /\ ~OpenByReader(KeyOf(b, f))
        /\ entry' = [entry EXCEPT ![KeyOf(b, f)] = stage[<<b, f>>]]
     \/ UNCHANGED entry
  /\ stage' = [stage EXCEPT ![<<b, f>>] = NoFile]
  /\ Goes(b, f, "done")
  /\ UNCHANGED <<version, debug, result, clock, bpc, victims, total>>

-----------------------------------------------------------------------------
(* LcCache_Evict, at the end of lc_codegen.                                *)

OldestFirst(ks) ==
  {s \in [1..Cardinality(ks) -> ks] :
     \A i, j \in DOMAIN s : i < j => s[i] # s[j] /\ entry[s[i]].time <= entry[s[j]].time}

(* The directory is enumerated ("*.co" only) and sorted by file time.      *)
Scan(b) ==
  /\ bpc[b] = "codegen"
  /\ \A f \in Func : pc[b][f] = "done"
  /\ total' = [total EXCEPT ![b] = Cardinality(Present)]
  /\ IF Cardinality(Present) <= Cap
       THEN /\ bpc' = [bpc EXCEPT ![b] = "ended"]
            /\ UNCHANGED victims
       ELSE /\ bpc' = [bpc EXCEPT ![b] = "evict"]
            /\ \E s \in OldestFirst(Present) : victims' = [victims EXCEPT ![b] = s]
  /\ UNCHANGED <<version, debug, pc, result, entry, stage, clock>>

(* remove() of the oldest left in the snapshot, by name; the total only    *)
(* goes down if the file was still there and nobody had it open.           *)
EvictOne(b) ==
  /\ bpc[b] = "evict"
  /\ total[b] > Cap /\ victims[b] # <<>>
  /\ LET k == Head(victims[b]) IN
       IF entry[k] # NoFile /\ ~OpenByReader(k)
         THEN /\ entry' = [entry EXCEPT ![k] = NoFile]
              /\ total' = [total EXCEPT ![b] = @ - 1]
         ELSE UNCHANGED <<entry, total>>
  /\ victims' = [victims EXCEPT ![b] = Tail(@)]
  /\ UNCHANGED <<version, debug, pc, result, stage, clock, bpc>>

EvictEnd(b) ==
  /\ bpc[b] = "evict"
  /\ total[b] <= Cap \/ victims[b] = <<>>
  /\ bpc' = [bpc EXCEPT ![b] = "ended"]
  /\ UNCHANGED <<version, debug, pc, result, entry, stage, clock, victims, total>>

(* The process dies: its handles are closed, its stage files stay.         *)
Crash(b) ==
  /\ Alive(b)
  /\ bpc' = [bpc EXCEPT ![b] = "crashed"]
  /\ UNCHANGED <<version, debug, pc, result, entry, stage, clock, victims, total>>

Next ==
  \E b \in Build :
    \/ \E f \in Func :
         Open(b, f) \/ Load(b, f) \/ Compile(b, f)
         \/ OpenStage(b, f) \/ WriteStage(b, f) \/ Rename(b, f)
    \/ Scan(b) \/ EvictOne(b) \/ EvictEnd(b) \/ Crash(b)

Spec == Init /\ [][Next]_vars

-----------------------------------------------------------------------------

(* A function restored from the cache has the code a fresh compilation of  *)
(* the same inputs would have, whatever other builds store, evict or leave *)
(* half done ("correctness never depends on the cache"); and a published   *)
(* entry was compiled from the very inputs its name was computed from.     *)
RestoredIsFresh ==
  /\ \A b \in Build, f \in Func :
       pc[b][f] = "done" => result[b][f].inputs = Fresh(b, f).inputs
  /\ \A k \in Present : entry[k].inputs = <<k[1], k[2]>>

(* A build that was not interrupted leaves no stage file, whichever of its *)
(* opens, writes or renames failed.                                        *)
NoStageLeft == \A j \in Job : bpc[j[1]] = "ended" => stage[j] = NoFile

(* "byte-identity of the emitted PE MUST hold whether a function was       *)
(* compiled fresh or restored from cache": line rows included.             *)
RestoredIsIdentical ==
  \A b \in Build, f \in Func : pc[b][f] = "done" => result[b][f] = Fresh(b, f)
=============================================================================
