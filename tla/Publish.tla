------------------------------ MODULE Publish -------------------------------
(***************************************************************************)
(* The back end of a build, from the temporary object to the output file   *)
(* (driver/main.c, link/pe_link_v2.c, link/import_lib.c).  An EXE or DLL   *)
(* is linked into a unique file beside the output and renamed over it;     *)
(* a DLL's .def file follows; an object or a library is written in place.  *)
(* Several builds may have the same output; anything else on the machine   *)
(* (a scanner, the program itself running) may hold it open for a while.   *)
(*                                                                         *)
(* A file is abstracted to the build that wrote it and what is in it:      *)
(* "part" is a file its writer has not closed, or was stopped in, or one   *)
(* that two builds wrote at once; "short" is one that was closed with the  *)
(* last bytes lost; "old" wrote the one that was there before.             *)
(***************************************************************************)
EXTENDS Naturals

CONSTANTS Build,      \* compiler processes with one output path
          Kind,       \* the --output kinds the builds choose from
          Sleeps      \* the entries of waits_ms: retries of the rename

ASSUME PublishAssumption ==
  /\ "old" \notin Build /\ "none" \notin Build
  /\ Kind \subseteq {"exe", "dll", "obj", "lib"}
  /\ Sleeps \in Nat

VARIABLES kind,     \* output_kind of each build
          pc,       \* where each build is
          attempt,  \* the retry counter of PublishStagedOutput
          object,   \* the COFF object in %TEMP%, named by pid
          staged,   \* the staging file of each build
          out,      \* the output path
          def,      \* the .def path
          heldOpen  \* somebody has the output open

vars == <<kind, pc, attempt, object, staged, out, def, heldOpen>>

Missing == [by |-> "none", is |-> "missing"]
Whole(b) == [by |-> b, is |-> "whole"]
Short(b) == [by |-> b, is |-> "short"]
Part(b) == [by |-> b, is |-> "part"]
File == [by : Build \cup {"old"}, is : {"part", "short", "whole"}]

Ended == {"succeeded", "failed", "crashed"}

TypeOK ==
  /\ kind \in [Build -> Kind]
  /\ pc \in [Build -> {"object", "open", "copy", "stage", "link", "flush", "move", "sleep",
                       "def", "defmove", "tidy", "fail"} \cup Ended]
  /\ attempt \in [Build -> 0..Sleeps]
  /\ object \in [Build -> File \cup {Missing}]
  /\ staged \in [Build -> File \cup {Missing}]
  /\ out \in File \cup {Missing}
  /\ def \in File \cup {Missing}
  /\ heldOpen \in BOOLEAN

Init ==
  /\ kind \in [Build -> Kind]
  /\ pc = [b \in Build |-> "object"]
  /\ attempt = [b \in Build |-> 0]
  /\ object = [b \in Build |-> Missing]
  /\ staged = [b \in Build |-> Missing]
  /\ out = Whole("old")
  /\ def = Whole("old")
  /\ heldOpen = FALSE

Goes(b, where) == pc' = [pc EXCEPT ![b] = where]
Stages(b, file) == staged' = [staged EXCEPT ![b] = file]
InPlace(b) == kind[b] \in {"obj", "lib"}

(* Somebody other than b has the output open: it cannot be replaced.       *)
OutputOpen(b) == heldOpen \/ \E c \in Build \ {b} : pc[c] = "copy"

-----------------------------------------------------------------------------

(* LcCoff_Write: a failure ends the build, the object stays as it is.      *)
WriteObject(b) ==
  /\ pc[b] = "object"
  /\ \/ /\ object' = [object EXCEPT ![b] = Whole(b)]
        /\ Goes(b, IF InPlace(b) THEN "open" ELSE "stage")
     \/ /\ object' = [object EXCEPT ![b] = Part(b)]
        /\ Goes(b, "failed")
     \/ /\ Goes(b, "failed")
        /\ UNCHANGED object
  /\ UNCHANGED <<kind, attempt, staged, out, def, heldOpen>>

(* fopen(output, "wb") for an object or a library truncates the output,    *)
(* even under another build that is writing it; or it fails.               *)
OpenOutput(b) ==
  /\ pc[b] = "open"
  /\ \/ /\ ~heldOpen
        /\ out' = Part(b)
        /\ Goes(b, "copy")
     \/ /\ Goes(b, "fail")
        /\ UNCHANGED out
  /\ UNCHANGED <<kind, attempt, object, staged, def, heldOpen>>

(* The copy, through a handle of its own: two builds that write the output *)
(* at once leave a mixture.  A failed copy removes an object (if nobody    *)
(* else has it open), not a library.                                       *)
CopyOutput(b) ==
  /\ pc[b] = "copy"
  /\ \/ /\ out' = IF out = Part(b) THEN Whole(b) ELSE Part(out.by)
        /\ Goes(b, "tidy")
     \/ /\ out' = IF kind[b] = "obj" /\ ~OutputOpen(b) THEN Missing
                  ELSE Part(out.by)
        /\ Goes(b, "fail")
  /\ UNCHANGED <<kind, attempt, object, staged, def, heldOpen>>

(* MakeStagedOutput: GetTempFileName creates the unique staging file.      *)
MakeStagedOutput(b) ==
  /\ pc[b] = "stage"
  /\ \/ /\ Stages(b, Part(b))
        /\ Goes(b, "link")
     \/ /\ Goes(b, "fail")
        /\ UNCHANGED staged
  /\ UNCHANGED <<kind, attempt, object, out, def, heldOpen>>

(* Mutant: a failed link goes on to the rename.                            *)
LinkUnchecked(b) ==
  /\ pc[b] = "link"
  /\ \/ Stages(b, Whole(b))
     \/ Stages(b, Short(b))
     \/ UNCHANGED staged
  /\ Goes(b, "flush")
  /\ UNCHANGED <<kind, attempt, object, out, def, heldOpen>>

(* The linker: it closes a complete image; or the fclose, whose result     *)
(* nobody looks at, fails to write the last bytes; or an earlier step      *)
(* fails and the staging file is deleted.                                  *)
Link(b) ==
  /\ pc[b] = "link"
  /\ \/ /\ Stages(b, Whole(b))
        /\ Goes(b, "flush")
     \/ /\ Stages(b, Short(b))
        /\ Goes(b, "flush")
     \/ /\ Stages(b, Missing)
        /\ Goes(b, "fail")
  /\ UNCHANGED <<kind, attempt, object, out, def, heldOpen>>

(* PublishStagedOutput: CreateFile and FlushFileBuffers.                   *)
Flush(b) ==
  /\ pc[b] = "flush"
  /\ \/ /\ Goes(b, "move")
        /\ UNCHANGED staged
     \/ /\ Stages(b, Missing)
        /\ Goes(b, "fail")
  /\ UNCHANGED <<kind, attempt, object, out, def, heldOpen>>

AfterPublish(b) == IF kind[b] = "dll" THEN "def" ELSE "tidy"

(* MoveFileEx replaces the output in one step.                             *)
Move(b) ==
  /\ pc[b] = "move"
  /\ ~OutputOpen(b)
  /\ out' = staged[b]
  /\ Stages(b, Missing)
  /\ Goes(b, AfterPublish(b))
  /\ UNCHANGED <<kind, attempt, object, def, heldOpen>>

(* Mutant: one sleep too many, past the end of waits_ms.                   *)
MoveRefusedOneMore(b) ==
  /\ pc[b] = "move"
  /\ OutputOpen(b)
  /\ IF attempt[b] <= Sleeps
       THEN /\ Goes(b, "sleep")
            /\ UNCHANGED staged
       ELSE /\ Stages(b, Missing)
            /\ Goes(b, "fail")
  /\ UNCHANGED <<kind, attempt, object, out, def, heldOpen>>

(* A sharing violation: retried while there is a sleep left, and then the  *)
(* staging file is deleted and the build fails.                            *)
MoveRefused(b) ==
  /\ pc[b] = "move"
  /\ OutputOpen(b)
  /\ IF attempt[b] < Sleeps
       THEN /\ Goes(b, "sleep")
            /\ UNCHANGED staged
       ELSE /\ Stages(b, Missing)
            /\ Goes(b, "fail")
  /\ UNCHANGED <<kind, attempt, object, out, def, heldOpen>>

(* Mutant: an error that is not transient leaves the staging file.         *)
MoveErrorKeepsStage(b) ==
  /\ pc[b] = "move"
  /\ Goes(b, "fail")
  /\ UNCHANGED <<kind, attempt, object, staged, out, def, heldOpen>>

(* Any other error is not retried.                                         *)
MoveError(b) ==
  /\ pc[b] = "move"
  /\ Stages(b, Missing)
  /\ Goes(b, "fail")
  /\ UNCHANGED <<kind, attempt, object, out, def, heldOpen>>

(* Mutant: the attempts are not counted.                                   *)
SleepUncounted(b) ==
  /\ pc[b] = "sleep"
  /\ Goes(b, "move")
  /\ UNCHANGED <<kind, attempt, object, staged, out, def, heldOpen>>

Sleep(b) ==
  /\ pc[b] = "sleep"
  /\ attempt' = [attempt EXCEPT ![b] = @ + 1]
  /\ Goes(b, "move")
  /\ UNCHANGED <<kind, object, staged, out, def, heldOpen>>

(* Mutant: a .def that cannot be written does not fail the build.          *)
StageDefLenient(b) ==
  /\ pc[b] = "def"
  /\ \/ /\ Stages(b, Whole(b))
        /\ Goes(b, "defmove")
     \/ /\ Goes(b, "succeeded")
        /\ UNCHANGED staged
  /\ object' = [object EXCEPT ![b] = Missing]
  /\ UNCHANGED <<kind, attempt, out, def, heldOpen>>

(* LcEmit_DefFile: the .def is staged, flushed and renamed once, after the *)
(* object was removed; its failure fails a build whose DLL is in place.    *)
StageDef(b) ==
  /\ pc[b] = "def"
  /\ \/ /\ Stages(b, Whole(b))
        /\ Goes(b, "defmove")
     \/ /\ Goes(b, "failed")
        /\ UNCHANGED staged
  /\ object' = [object EXCEPT ![b] = Missing]
  /\ UNCHANGED <<kind, attempt, out, def, heldOpen>>

MoveDef(b) ==
  /\ pc[b] = "defmove"
  /\ \/ /\ def' = staged[b]
        /\ Goes(b, "succeeded")
     \/ /\ Goes(b, "failed")
        /\ UNCHANGED def
  /\ Stages(b, Missing)
  /\ UNCHANGED <<kind, attempt, object, out, heldOpen>>

(* The object is removed, on success and on failure.                       *)
Tidy(b) ==
  /\ pc[b] \in {"tidy", "fail"}
  /\ object' = [object EXCEPT ![b] = Missing]
  /\ Goes(b, IF pc[b] = "tidy" THEN "succeeded" ELSE "failed")
  /\ UNCHANGED <<kind, attempt, staged, out, def, heldOpen>>

Crash(b) ==
  /\ pc[b] \notin Ended
  /\ Goes(b, "crashed")
  /\ UNCHANGED <<kind, attempt, object, staged, out, def, heldOpen>>

Hold ==
  /\ ~heldOpen
  /\ heldOpen' = TRUE
  /\ UNCHANGED <<kind, pc, attempt, object, staged, out, def>>

Release ==
  /\ heldOpen
  /\ heldOpen' = FALSE
  /\ UNCHANGED <<kind, pc, attempt, object, staged, out, def>>

Step(b) ==
  \/ WriteObject(b) \/ OpenOutput(b) \/ CopyOutput(b)
  \/ MakeStagedOutput(b) \/ Link(b) \/ Flush(b)
  \/ Move(b) \/ MoveRefused(b) \/ MoveError(b) \/ Sleep(b)
  \/ StageDef(b) \/ MoveDef(b) \/ Tidy(b)

Next == (\E b \in Build : Step(b) \/ Crash(b)) \/ Hold \/ Release

Spec == Init /\ [][Next]_vars

(* Every build is scheduled; whoever holds the output need never let go.   *)
FairSpec == Spec /\ \A b \in Build : WF_vars(Step(b))

-----------------------------------------------------------------------------

(* What is at the output's name was closed by its writer, or a build       *)
(* writes it in place: no link under way, none that failed and no crash    *)
(* between the staging and the rename shows there, and nothing but a       *)
(* failed copy of an object removes it.  The .def is always complete.      *)
OutAlwaysClosed ==
  /\ out.is = "part" => \E b \in Build : InPlace(b) /\ out.by = b
  /\ out = Missing => \E b \in Build : kind[b] = "obj"
  /\ def.is = "whole"

(* MakeStagedOutput: "replace the destination only after the linker has    *)
(* closed a complete PE".  As long as nobody writes it in place the output *)
(* is a whole file.                                                        *)
OutNeverPartial ==
  (\A b \in Build : ~InPlace(b)) => out.is = "whole" /\ def.is = "whole"

FailurePreserves(b) ==
  kind[b] = "exe" /\ pc[b] \in {"fail", "failed"} => out.by # b
SuccessReplaces(b) ==
  pc[b] = "succeeded" =>
    out.by # "old" /\ (kind[b] = "dll" => def.by # "old")

(* What a build reports is what happened: an executable's build that fails *)
(* has not touched the output ("the previous output was preserved"), and   *)
(* one that succeeds replaced it, for a DLL the previous .def too.         *)
ReportMatchesOutput ==
  \A b \in Build : FailurePreserves(b) /\ SuccessReplaces(b)

(* A build that ended leaves no staging file, whichever step failed.       *)
NoStageLeft == \A b \in Build : pc[b] \in {"succeeded", "failed"} => staged[b] = Missing

=============================================================================
