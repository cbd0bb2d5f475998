--------------------------- MODULE PublishProofs ----------------------------
(* Proofs about Publish, for any builds, kinds and number of retries, and  *)
(* about Driver, for any source trees and packages that come and go.       *)
EXTENDS Driver, TLAPS

(* Which kind of output a build at each place makes.                       *)
KindAtPlace ==
  \A b \in Build :
    /\ pc[b] \in {"open", "copy"} => InPlace(b)
    /\ pc[b] \in {"stage", "link", "flush", "move", "sleep"} => ~InPlace(b)
    /\ pc[b] \in {"def", "defmove"} => kind[b] = "dll"
    /\ pc[b] = "tidy" => kind[b] # "dll"

(* A staging file exists only between its creation and its rename, is the  *)
(* build's own, and no longer written once the linker has closed it.       *)
StageAt(b) ==
  /\ pc[b] \in {"link", "flush", "move", "sleep", "defmove"} => staged[b].by = b
  /\ pc[b] \in {"flush", "move", "sleep"} => staged[b].is # "part"
  /\ pc[b] = "defmove" => staged[b].is = "whole"
  /\ pc[b] \notin {"link", "flush", "move", "sleep", "defmove", "crashed"} => staged[b] = Missing
StageAtPlace == \A b \in Build : StageAt(b)

(* Who may have written the files at the output's names.                   *)
Written ==
  \A b \in Build :
    /\ kind[b] = "exe" /\ out.by = b => pc[b] \in {"tidy", "succeeded", "crashed"}
    /\ pc[b] \in {"copy", "tidy", "def", "defmove", "succeeded"} => out.by # "old"
    /\ pc[b] = "succeeded" /\ kind[b] = "dll" => def.by # "old"

(* While a build copies an object or a library to the output, the output   *)
(* is one that a build writes in place, whichever opened it last.          *)
CopyInPlace == \A b \in Build : pc[b] = "copy" => \E c \in Build : InPlace(c) /\ out.by = c

Closed == OutAlwaysClosed /\ CopyInPlace

(* A build sleeps only while waits_ms has an entry left.                   *)
Retries == \A b \in Build : pc[b] = "sleep" => attempt[b] < Sleeps

IndInv == TypeOK /\ Retries /\ KindAtPlace /\ StageAtPlace /\ Written /\ Closed

(* What a build writes is a file, and never one that is missing.           *)
LEMMA FileTypes ==
  ASSUME NEW b \in Build \cup {"old"}
  PROVE  /\ Whole(b) \in File /\ Part(b) \in File /\ Short(b) \in File
         /\ Whole(b) # Missing /\ Part(b) # Missing /\ Short(b) # Missing
  BY PublishAssumption DEF Whole, Part, Short, File, Missing

(* A file is still one when its content is mixed up.                       *)
LEMMA MixedType ==
  ASSUME NEW f \in File
  PROVE  Part(f.by) \in File
<1>1. f.by \in Build \cup {"old"}
  BY DEF File
<1> QED
  BY <1>1 DEF File, Part

(* A step of one build leaves the others' places and files alone.          *)
LEMMA OthersStay ==
  ASSUME TypeOK, NEW b \in Build, Step(b) \/ Crash(b), NEW c \in Build \ {b}
  PROVE  pc'[c] = pc[c] /\ staged'[c] = staged[c] /\ attempt'[c] = attempt[c]
<1>1. pc'[c] = pc[c]
  BY DEF TypeOK, Step, Goes, WriteObject, OpenOutput, CopyOutput, MakeStagedOutput, Link, Flush, Move,
         MoveRefused, MoveError, Sleep, StageDef, MoveDef, Tidy, Crash
<1>2. staged'[c] = staged[c]
  BY DEF TypeOK, Step, Stages, WriteObject, OpenOutput, CopyOutput, MakeStagedOutput, Link, Flush, Move,
         MoveRefused, MoveError, Sleep, StageDef, MoveDef, Tidy, Crash
<1>3. attempt'[c] = attempt[c]
  BY DEF TypeOK, Step, WriteObject, OpenOutput, CopyOutput, MakeStagedOutput, Link, Flush, Move,
         MoveRefused, MoveError, Sleep, StageDef, MoveDef, Tidy, Crash
<1> QED
  BY <1>1, <1>2, <1>3

(* The invariant holds at the start.                                       *)
LEMMA InitIndInv == Init => IndInv
<1> SUFFICES ASSUME Init PROVE IndInv
  OBVIOUS
<1> USE PublishAssumption DEF Init
<1>1. TypeOK
  <2>1. Whole("old") \in File
    BY FileTypes
  <2>2. attempt \in [Build -> 0..Sleeps]
    OBVIOUS
  <2> QED
    BY <2>1, <2>2 DEF TypeOK
<1>6. Retries
  BY DEF Retries
<1>2. KindAtPlace
  BY DEF KindAtPlace
<1>3. StageAtPlace
  BY DEF StageAtPlace, StageAt
<1>4. Written
  BY DEF Written, Whole
<1>5. Closed
  BY DEF Closed, OutAlwaysClosed, CopyInPlace, Whole, Missing
<1> QED
  BY <1>1, <1>2, <1>3, <1>4, <1>5, <1>6 DEF IndInv

(* Every step keeps the types.                                             *)
LEMMA NextTypeOK ==
  ASSUME IndInv, NEW b \in Build, Step(b) \/ Crash(b)
  PROVE  TypeOK'
<1> USE PublishAssumption DEF IndInv, Goes, TypeOK, Ended, Stages
<1>0. b # "old" /\ b # "none" /\ Whole(b) \in File /\ Part(b) \in File /\ Short(b) \in File
  BY FileTypes
<1>1. CASE WriteObject(b)
  BY <1>0, <1>1 DEF WriteObject
<1>2. CASE OpenOutput(b)
  BY <1>0, <1>2 DEF OpenOutput
<1>3. CASE CopyOutput(b)
  <2>0. out \in File
    <3>1. out.by # "none"
      BY <1>3, PublishAssumption DEF Closed, CopyInPlace, CopyOutput
    <3> QED
      BY <3>1 DEF Missing
  <2>1. out' \in File \cup {Missing}
    BY <1>3, <1>0, <2>0, MixedType DEF CopyOutput
  <2>2. pc' \in [Build -> {"object", "open", "copy", "stage", "link", "flush", "move", "sleep",
                            "def", "defmove", "tidy", "fail"} \cup Ended]
    BY <1>3 DEF CopyOutput
  <2> QED
    BY <1>3, <2>1, <2>2 DEF CopyOutput
<1>4. CASE MakeStagedOutput(b)
  BY <1>0, <1>4 DEF MakeStagedOutput
<1>5. CASE Link(b)
  BY <1>0, <1>5 DEF Link
<1>6. CASE Flush(b)
  BY <1>0, <1>6 DEF Flush
<1>7. CASE Move(b)
  BY <1>0, <1>7 DEF Move, AfterPublish
<1>8. CASE MoveRefused(b)
  BY <1>0, <1>8 DEF MoveRefused
<1>9. CASE MoveError(b)
  BY <1>0, <1>9 DEF MoveError
<1>10. CASE Sleep(b)
  BY <1>0, <1>10 DEF Sleep, Retries
<1>11. CASE StageDef(b)
  BY <1>0, <1>11 DEF StageDef
<1>12. CASE MoveDef(b)
  BY <1>0, <1>12 DEF MoveDef
<1>13. CASE Tidy(b)
  BY <1>0, <1>13 DEF Tidy
<1>14. CASE Crash(b)
  BY <1>0, <1>14 DEF Crash
<1> QED
  BY <1>1, <1>2, <1>3, <1>4, <1>5, <1>6, <1>7, <1>8, <1>9, <1>10, <1>11, <1>12, <1>13, <1>14 DEF Step

(* A retry was counted before it sleeps again.                             *)
LEMMA NextRetries ==
  ASSUME IndInv, NEW b \in Build, Step(b) \/ Crash(b)
  PROVE  Retries'
<1> USE PublishAssumption DEF IndInv, Goes, TypeOK, Retries
<1>0. b # "old" /\ b # "none" /\ Whole(b) \in File /\ Part(b) \in File /\ Short(b) \in File
  BY FileTypes
<1>1. CASE WriteObject(b)
  BY <1>0, <1>1 DEF WriteObject
<1>2. CASE OpenOutput(b)
  BY <1>0, <1>2 DEF OpenOutput
<1>3. CASE CopyOutput(b)
  BY <1>0, <1>3 DEF CopyOutput
<1>4. CASE MakeStagedOutput(b)
  BY <1>0, <1>4 DEF MakeStagedOutput
<1>5. CASE Link(b)
  BY <1>0, <1>5 DEF Link
<1>6. CASE Flush(b)
  BY <1>0, <1>6 DEF Flush
<1>7. CASE Move(b)
  BY <1>0, <1>7 DEF Move, AfterPublish
<1>8. CASE MoveRefused(b)
  BY <1>0, <1>8 DEF MoveRefused
<1>9. CASE MoveError(b)
  BY <1>0, <1>9 DEF MoveError
<1>10. CASE Sleep(b)
  BY <1>0, <1>10 DEF Sleep
<1>11. CASE StageDef(b)
  BY <1>0, <1>11 DEF StageDef
<1>12. CASE MoveDef(b)
  BY <1>0, <1>12 DEF MoveDef
<1>13. CASE Tidy(b)
  BY <1>0, <1>13 DEF Tidy
<1>14. CASE Crash(b)
  BY <1>0, <1>14 DEF Crash
<1> QED
  BY <1>1, <1>2, <1>3, <1>4, <1>5, <1>6, <1>7, <1>8, <1>9, <1>10, <1>11, <1>12, <1>13, <1>14 DEF Step

(* A build never changes its kind.                                         *)
LEMMA NextKindAtPlace ==
  ASSUME IndInv, NEW b \in Build, Step(b) \/ Crash(b)
  PROVE  KindAtPlace'
<1> USE PublishAssumption DEF IndInv, Goes, TypeOK, KindAtPlace, InPlace
<1>0. b # "old" /\ b # "none" /\ Whole(b) \in File /\ Part(b) \in File /\ Short(b) \in File
  BY FileTypes
<1>1. CASE WriteObject(b)
  BY <1>0, <1>1 DEF WriteObject
<1>2. CASE OpenOutput(b)
  BY <1>0, <1>2 DEF OpenOutput
<1>3. CASE CopyOutput(b)
  BY <1>0, <1>3 DEF CopyOutput
<1>4. CASE MakeStagedOutput(b)
  BY <1>0, <1>4 DEF MakeStagedOutput
<1>5. CASE Link(b)
  BY <1>0, <1>5 DEF Link
<1>6. CASE Flush(b)
  BY <1>0, <1>6 DEF Flush
<1>7. CASE Move(b)
  BY <1>0, <1>7 DEF Move, AfterPublish
<1>8. CASE MoveRefused(b)
  BY <1>0, <1>8 DEF MoveRefused
<1>9. CASE MoveError(b)
  BY <1>0, <1>9 DEF MoveError
<1>10. CASE Sleep(b)
  BY <1>0, <1>10 DEF Sleep
<1>11. CASE StageDef(b)
  BY <1>0, <1>11 DEF StageDef
<1>12. CASE MoveDef(b)
  BY <1>0, <1>12 DEF MoveDef
<1>13. CASE Tidy(b)
  BY <1>0, <1>13 DEF Tidy
<1>14. CASE Crash(b)
  BY <1>0, <1>14 DEF Crash
<1> QED
  BY <1>1, <1>2, <1>3, <1>4, <1>5, <1>6, <1>7, <1>8, <1>9, <1>10, <1>11, <1>12, <1>13, <1>14 DEF Step

(* Each step creates, completes, renames or deletes the build's own file.  *)
LEMMA NextStageAtPlace ==
  ASSUME IndInv, NEW b \in Build, Step(b) \/ Crash(b)
  PROVE  StageAtPlace'
<1> USE PublishAssumption DEF IndInv, Goes, TypeOK, StageAtPlace, StageAt, Stages, Missing, Whole, Part, Short
<1>0. b # "old" /\ b # "none" /\ Whole(b) \in File /\ Part(b) \in File /\ Short(b) \in File
  BY FileTypes
<1>a. ASSUME NEW c \in Build \ {b} PROVE StageAt(c)'
  BY <1>a, OthersStay
<1>b. SUFFICES StageAt(b)'
  BY <1>a
<1>1. CASE WriteObject(b)
  BY <1>0, <1>1 DEF WriteObject
<1>2. CASE OpenOutput(b)
  BY <1>0, <1>2 DEF OpenOutput
<1>3. CASE CopyOutput(b)
  BY <1>0, <1>3 DEF CopyOutput
<1>4. CASE MakeStagedOutput(b)
  <2>1. CASE staged' = [staged EXCEPT ![b] = Part(b)]
    <3>1. staged'[b] = Part(b)
      BY <2>1
    <3> QED
      BY <1>0, <1>4, <3>1 DEF MakeStagedOutput
  <2>2. CASE UNCHANGED staged
    BY <1>0, <1>4, <2>2 DEF MakeStagedOutput
  <2> QED
    BY <1>4, <2>1, <2>2 DEF MakeStagedOutput
<1>5. CASE Link(b)
  <2>1. CASE staged' = [staged EXCEPT ![b] = Whole(b)]
    <3>1. staged'[b] = Whole(b)
      BY <2>1
    <3> QED
      BY <1>0, <1>5, <3>1 DEF Link
  <2>2. CASE staged' = [staged EXCEPT ![b] = Short(b)]
    <3>1. staged'[b] = Short(b)
      BY <2>2
    <3> QED
      BY <1>0, <1>5, <3>1 DEF Link
  <2>3. CASE staged' = [staged EXCEPT ![b] = Missing]
    <3>1. staged'[b] = Missing
      BY <2>3
    <3> QED
      BY <1>0, <1>5, <3>1 DEF Link
  <2> QED
    BY <1>5, <2>1, <2>2, <2>3 DEF Link
<1>6. CASE Flush(b)
  <2>1. CASE staged' = [staged EXCEPT ![b] = Missing]
    <3>1. staged'[b] = Missing
      BY <2>1
    <3> QED
      BY <1>0, <1>6, <3>1 DEF Flush
  <2>2. CASE UNCHANGED staged
    BY <1>0, <1>6, <2>2 DEF Flush
  <2> QED
    BY <1>6, <2>1, <2>2 DEF Flush
<1>7. CASE Move(b)
  BY <1>0, <1>7 DEF Move, AfterPublish
<1>8. CASE MoveRefused(b)
  <2>1. CASE staged' = [staged EXCEPT ![b] = Missing]
    <3>1. staged'[b] = Missing
      BY <2>1
    <3> QED
      BY <1>0, <1>8, <3>1 DEF MoveRefused
  <2>2. CASE UNCHANGED staged
    BY <1>0, <1>8, <2>2 DEF MoveRefused
  <2> QED
    BY <1>8, <2>1, <2>2 DEF MoveRefused
<1>9. CASE MoveError(b)
  BY <1>0, <1>9 DEF MoveError
<1>10. CASE Sleep(b)
  BY <1>0, <1>10 DEF Sleep
<1>11. CASE StageDef(b)
  <2>1. CASE staged' = [staged EXCEPT ![b] = Whole(b)]
    <3>1. staged'[b] = Whole(b)
      BY <2>1
    <3> QED
      BY <1>0, <1>11, <3>1 DEF StageDef
  <2>2. CASE UNCHANGED staged
    BY <1>0, <1>11, <2>2 DEF StageDef
  <2> QED
    BY <1>11, <2>1, <2>2 DEF StageDef
<1>12. CASE MoveDef(b)
  BY <1>0, <1>12 DEF MoveDef
<1>13. CASE Tidy(b)
  BY <1>0, <1>13 DEF Tidy
<1>14. CASE Crash(b)
  BY <1>0, <1>14 DEF Crash
<1> QED
  BY <1>1, <1>2, <1>3, <1>4, <1>5, <1>6, <1>7, <1>8, <1>9, <1>10, <1>11, <1>12, <1>13, <1>14 DEF Step

(* The output's names are written by the copy and the two renames only.    *)
LEMMA NextWritten ==
  ASSUME IndInv, NEW b \in Build, Step(b) \/ Crash(b)
  PROVE  Written'
<1> USE PublishAssumption DEF IndInv, Goes, TypeOK, Written, KindAtPlace, StageAtPlace, StageAt, InPlace, Missing, Whole, Part, Short, File
<1>0. b # "old" /\ b # "none" /\ Whole(b) \in File /\ Part(b) \in File /\ Short(b) \in File
  BY FileTypes
<1>1. CASE WriteObject(b)
  BY <1>0, <1>1 DEF WriteObject
<1>2. CASE OpenOutput(b)
  BY <1>0, <1>2 DEF OpenOutput
<1>3. CASE CopyOutput(b)
  BY <1>0, <1>3 DEF CopyOutput
<1>4. CASE MakeStagedOutput(b)
  BY <1>0, <1>4 DEF MakeStagedOutput
<1>5. CASE Link(b)
  BY <1>0, <1>5 DEF Link
<1>6. CASE Flush(b)
  BY <1>0, <1>6 DEF Flush
<1>7. CASE Move(b)
  BY <1>0, <1>7 DEF Move, AfterPublish
<1>8. CASE MoveRefused(b)
  BY <1>0, <1>8 DEF MoveRefused
<1>9. CASE MoveError(b)
  BY <1>0, <1>9 DEF MoveError
<1>10. CASE Sleep(b)
  BY <1>0, <1>10 DEF Sleep
<1>11. CASE StageDef(b)
  BY <1>0, <1>11 DEF StageDef
<1>12. CASE MoveDef(b)
  BY <1>0, <1>12 DEF MoveDef
<1>13. CASE Tidy(b)
  BY <1>0, <1>13 DEF Tidy
<1>14. CASE Crash(b)
  BY <1>0, <1>14 DEF Crash
<1> QED
  BY <1>1, <1>2, <1>3, <1>4, <1>5, <1>6, <1>7, <1>8, <1>9, <1>10, <1>11, <1>12, <1>13, <1>14 DEF Step

(* What reaches the output's name was closed, or is written in place.      *)
LEMMA NextClosed ==
  ASSUME IndInv, NEW b \in Build, Step(b) \/ Crash(b)
  PROVE  Closed'
<1> USE PublishAssumption DEF IndInv, Goes, TypeOK, InPlace
<1>0. b # "old" /\ b # "none" /\ Whole(b) \in File /\ Part(b) \in File /\ Short(b) \in File
  BY FileTypes
<1>a. kind' = kind
  BY DEF Step, WriteObject, OpenOutput, CopyOutput, MakeStagedOutput, Link, Flush, Move,
         MoveRefused, MoveError, Sleep, StageDef, MoveDef, Tidy, Crash
<1>b. ASSUME pc'[b] # "copy", UNCHANGED <<out, def>> PROVE Closed'
  <2>1. OutAlwaysClosed'
    BY <1>a, <1>b DEF Closed, OutAlwaysClosed
  <2>2. \A c \in Build : pc'[c] = "copy" => pc[c] = "copy"
    BY <1>b, OthersStay
  <2>3. CopyInPlace'
    BY <1>a, <1>b, <2>2 DEF Closed, CopyInPlace
  <2> QED
    BY <2>1, <2>3 DEF Closed
<1>1. CASE WriteObject(b)
  BY <1>b, <1>1 DEF WriteObject
<1>2. CASE OpenOutput(b)
  <2>1. CASE out' = Part(b)
    <3>1. InPlace(b) /\ out'.by = b /\ out'.is = "part" /\ out' # Missing /\ def' = def
      BY <1>0, <1>2, <2>1 DEF OpenOutput, KindAtPlace, Part, Missing
    <3>2. OutAlwaysClosed'
      BY <1>a, <3>1 DEF Closed, OutAlwaysClosed
    <3>3. CopyInPlace'
      BY <1>a, <3>1 DEF CopyInPlace
    <3> QED
      BY <3>2, <3>3 DEF Closed
  <2>2. CASE pc'[b] = "fail" /\ UNCHANGED out
    BY <1>b, <1>2, <2>2 DEF OpenOutput
  <2> QED
    BY <1>2, <2>1, <2>2 DEF OpenOutput
<1>3. CASE CopyOutput(b)
  <2>0. PICK c \in Build : InPlace(c) /\ out.by = c
    BY <1>3 DEF CopyOutput, Closed, CopyInPlace
  <2>1. InPlace(b) /\ def' = def /\ pc'[b] # "copy"
    BY <1>3 DEF CopyOutput, KindAtPlace
  <2>2. CASE out' = Whole(b)
    <3>1. out'.by = b /\ out'.is = "whole" /\ out' # Missing
      BY <1>0, <2>2 DEF Whole, Missing
    <3>2. OutAlwaysClosed'
      BY <1>a, <2>1, <3>1 DEF Closed, OutAlwaysClosed
    <3>3. CopyInPlace'
      BY <1>a, <2>1, <3>1 DEF CopyInPlace
    <3> QED
      BY <3>2, <3>3 DEF Closed
  <2>3. CASE out' = Part(out.by)
    <3>1. out'.by = c /\ out' # Missing
      BY <2>0, <2>3 DEF Part, Missing
    <3>2. OutAlwaysClosed'
      BY <1>a, <2>0, <2>1, <3>1 DEF Closed, OutAlwaysClosed
    <3>3. CopyInPlace'
      BY <1>a, <2>0, <3>1 DEF CopyInPlace
    <3> QED
      BY <3>2, <3>3 DEF Closed
  <2>4. CASE out' = Missing /\ kind[b] = "obj" /\ ~OutputOpen(b)
    <3>1. out'.is # "part"
      BY <2>4 DEF Missing
    <3>2. OutAlwaysClosed'
      BY <1>a, <2>1, <2>4, <3>1 DEF Closed, OutAlwaysClosed
    <3>3. \A d \in Build : pc'[d] # "copy"
      BY <2>1, <2>4, OthersStay DEF OutputOpen
    <3> QED
      BY <3>2, <3>3 DEF Closed, CopyInPlace
  <2> QED
    BY <1>3, <2>2, <2>3, <2>4 DEF CopyOutput
<1>4. CASE MakeStagedOutput(b)
  BY <1>b, <1>4 DEF MakeStagedOutput
<1>5. CASE Link(b)
  BY <1>b, <1>5 DEF Link
<1>6. CASE Flush(b)
  BY <1>b, <1>6 DEF Flush
<1>7. CASE Move(b)
  <2>1. staged[b].by = b /\ staged[b].is # "part" /\ out' = staged[b] /\ def' = def /\ ~OutputOpen(b)
    BY <1>7 DEF Move, StageAtPlace, StageAt
  <2>2. out'.is # "part" /\ out' # Missing
    BY <1>0, <2>1 DEF Missing
  <2>3. OutAlwaysClosed'
    BY <2>1, <2>2 DEF Closed, OutAlwaysClosed
  <2>4. pc'[b] # "copy"
    BY <1>7 DEF Move, AfterPublish
  <2>5. \A c \in Build : pc'[c] # "copy"
    BY <2>1, <2>4, OthersStay DEF OutputOpen
  <2> QED
    BY <2>3, <2>5 DEF Closed, CopyInPlace
<1>8. CASE MoveRefused(b)
  BY <1>b, <1>8 DEF MoveRefused
<1>9. CASE MoveError(b)
  BY <1>b, <1>9 DEF MoveError
<1>10. CASE Sleep(b)
  BY <1>b, <1>10 DEF Sleep
<1>11. CASE StageDef(b)
  BY <1>b, <1>11 DEF StageDef
<1>12. CASE MoveDef(b)
  <2>1. def'.is = "whole" /\ out' = out /\ pc'[b] # "copy"
    BY <1>12 DEF MoveDef, StageAtPlace, StageAt, Closed, OutAlwaysClosed
  <2>2. OutAlwaysClosed'
    BY <1>a, <2>1 DEF Closed, OutAlwaysClosed
  <2>3. \A c \in Build : pc'[c] = "copy" => pc[c] = "copy"
    BY <2>1, OthersStay
  <2>4. CopyInPlace'
    BY <1>a, <2>1, <2>3 DEF Closed, CopyInPlace
  <2> QED
    BY <2>2, <2>4 DEF Closed
<1>13. CASE Tidy(b)
  BY <1>b, <1>13 DEF Tidy
<1>14. CASE Crash(b)
  BY <1>b, <1>14 DEF Crash
<1> QED
  BY <1>1, <1>2, <1>3, <1>4, <1>5, <1>6, <1>7, <1>8, <1>9, <1>10, <1>11, <1>12, <1>13, <1>14 DEF Step

(* Holding the output, letting go of it and stuttering change nothing.     *)
LEMMA NextIndInv == IndInv /\ [Next]_vars => IndInv'
<1> SUFFICES ASSUME IndInv, [Next]_vars PROVE IndInv'
  OBVIOUS
<1>1. ASSUME NEW b \in Build, Step(b) \/ Crash(b) PROVE IndInv'
  BY <1>1, NextTypeOK, NextKindAtPlace, NextStageAtPlace, NextWritten, NextClosed, NextRetries DEF IndInv
<1>2. ASSUME UNCHANGED <<kind, pc, attempt, object, staged, out, def>>, heldOpen' \in BOOLEAN
      PROVE IndInv'
  BY <1>2 DEF IndInv, Retries, TypeOK, KindAtPlace, InPlace, StageAtPlace, StageAt, Written, Closed, OutAlwaysClosed, CopyInPlace
<1>3. CASE Hold
  BY <1>2, <1>3 DEF Hold
<1>4. CASE Release
  BY <1>2, <1>4 DEF Release
<1>5. CASE UNCHANGED vars
  BY <1>2, <1>5 DEF vars, IndInv, TypeOK
<1> QED
  BY <1>1, <1>3, <1>4, <1>5 DEF Next

(* The invariant holds in every reachable state.                           *)
LEMMA SpecIndInv == Spec => []IndInv
  BY InitIndInv, NextIndInv, PTL DEF Spec

(* Every variable keeps its type.                                          *)
THEOREM SpecTypeOK == Spec => []TypeOK
<1>1. IndInv => TypeOK
  BY DEF IndInv
<1> QED
  BY SpecIndInv, <1>1, PTL

(* Another process that opens the output finds a file that its writer has  *)
(* closed, or one that is written in place; only an object that failed     *)
(* removes it; and the .def is complete: for any builds, any number of     *)
(* retries, and kills at any moment.                                       *)
THEOREM SpecOutAlwaysClosed == Spec => []OutAlwaysClosed
<1>1. IndInv => OutAlwaysClosed
  BY DEF IndInv, Closed
<1> QED
  BY SpecIndInv, <1>1, PTL

(* No build that ended, in success or failure, leaves a staging file.      *)
THEOREM SpecNoStageLeft == Spec => []NoStageLeft
<1>1. IndInv => NoStageLeft
  BY DEF IndInv, StageAtPlace, StageAt, NoStageLeft
<1> QED
  BY SpecIndInv, <1>1, PTL

(* Success means replaced; an executable's failure means untouched.        *)
THEOREM SpecReportMatchesOutput == Spec => []ReportMatchesOutput
<1>1. IndInv => ReportMatchesOutput
  BY DEF IndInv, Written, ReportMatchesOutput, FailurePreserves, SuccessReplaces
<1> QED
  BY SpecIndInv, <1>1, PTL

-----------------------------------------------------------------------------
(* The driver around it.                                                   *)

(* The steps of a build that leave the output's variables as they are.     *)
LEMMA FrontStutters ==
  ASSUME NEW b \in Build,
         \/ CompileEntry(b) \/ ScanPackage(b) \/ TakeModule(b) \/ WalkEnds(b)
         \/ AppendPackages(b) \/ Generate(b) \/ StopEarly(b)
  PROVE  UNCHANGED vars
<1>1. CASE CompileEntry(b)
  BY <1>1 DEF CompileEntry
<1>2. CASE ScanPackage(b)
  BY <1>2 DEF ScanPackage
<1>3. CASE TakeModule(b)
  BY <1>3 DEF TakeModule
<1>4. CASE WalkEnds(b)
  BY <1>4 DEF WalkEnds
<1>5. CASE AppendPackages(b)
  BY <1>5 DEF AppendPackages
<1>6. CASE Generate(b) \/ StopEarly(b)
  BY <1>6 DEF Generate, StopEarly
<1> QED
  BY <1>1, <1>2, <1>3, <1>4, <1>5, <1>6

(* A front end that fails is, for the output, an object that is not        *)
(* written.                                                                *)
LEMMA FrontFailsIsStep == ASSUME NEW b \in Build, NEW from, FrontFails(b, from) PROVE Step(b)
<1>1. WriteObject(b)
  BY DEF FrontFails, WriteObject
<1> QED
  BY <1>1 DEF Step

(* Every step of the driver is one of Publish or leaves its state alone.   *)
LEMMA DriverNextIsNext == [DriverNext]_driverVars => [Next]_vars
<1> SUFFICES ASSUME [DriverNext]_driverVars PROVE [Next]_vars
  OBVIOUS
<1>1. ASSUME NEW b \in Build, DriverStep(b) PROVE [Next]_vars
  <2>1. CASE \/ CompileEntry(b) \/ ScanPackage(b) \/ TakeModule(b) \/ WalkEnds(b)
             \/ AppendPackages(b) \/ Generate(b) \/ StopEarly(b)
    BY <2>1, FrontStutters
  <2>2. CASE WalkFails(b) \/ AppendFails(b) \/ GatesFail(b)
    <3>1. Step(b)
      BY <2>2, FrontFailsIsStep DEF WalkFails, AppendFails, GatesFail
    <3> QED
      BY <3>1 DEF Next
  <2>3. CASE BackEnd(b)
    BY <2>3 DEF BackEnd, Next
  <2> QED
    BY <1>1, <2>1, <2>2, <2>3 DEF DriverStep
<1>2. ASSUME NEW b \in Build, Killed(b) PROVE [Next]_vars
  BY <1>2 DEF Killed, Next
<1>3. CASE Outside
  BY <1>3 DEF Outside, Next
<1>4. CASE Rove
  BY <1>4 DEF Rove
<1>5. CASE UNCHANGED driverVars
  BY <1>5 DEF driverVars
<1> QED
  BY <1>1, <1>2, <1>3, <1>4, <1>5 DEF DriverNext

(* What is proved of the publication holds of whole builds: whatever the   *)
(* walk and the phases before the back end do, they are steps of Publish.  *)
THEOREM DriverImplementsPublish == DriverSpec => Spec
<1>1. DriverInit => Init
  BY DEF DriverInit
<1> QED
  BY <1>1, DriverNextIsNext, PTL DEF DriverSpec, Spec

-----------------------------------------------------------------------------
(* The require walk.                                                       *)

PerBuild ==
  /\ DOMAIN phase = Build /\ DOMAIN bundle = Build /\ DOMAIN queue = Build
  /\ DOMAIN visited = Build /\ DOMAIN packages = Build /\ DOMAIN scanned = Build
  /\ DOMAIN errors = Build /\ errors \in [Build -> BOOLEAN]

(* No name is bundled from two files.                                      *)
OneCopy(b) == \A m, o \in bundle[b] : m[1] = o[1] => m = o

(* Everything that a bundled source or -L needs is in ns.                  *)
NeedsWithin(b, ns) ==
  /\ \A m \in bundle[b] : tree.requires[m[2]] \subseteq ns
  /\ tree.forced \subseteq ns

(* And what the sources of the packages ps need.                           *)
PackagesNeedWithin(ps, ns) ==
  \A n \in ps : <<"toolchain", n>> \in tree.parses =>
    tree.requires[<<"toolchain", n>>] \subseteq ns

(* During the walk a need is resolved, queued, or a known package.         *)
Known(b) == Provided \cup queue[b] \cup visited[b] \cup packages[b]
WalkInv(b) ==
  phase[b] = "walk" =>
    /\ OneCopy(b)
    /\ Bundled(b) \subseteq visited[b]
    /\ ~errors[b] => visited[b] \subseteq Bundled(b)
    /\ NeedsWithin(b, Known(b)) /\ PackagesNeedWithin(scanned[b], Known(b))

(* After it, bundled or about to be appended.                              *)
AppendInv(b) ==
  LET ns == Provided \cup Bundled(b) \cup packages[b] IN
  phase[b] = "append" =>
    OneCopy(b) /\ NeedsWithin(b, ns) /\ PackagesNeedWithin(packages[b], ns)

ClosedInv(b) ==
  phase[b] \in {"gates", "backend", "checked"} =>
    OneCopy(b) /\ NeedsWithin(b, Provided \cup Bundled(b))

BuildInv(b) ==
  /\ phase[b] = "entry" => bundle[b] = {} /\ scanned[b] = {} /\ packages[b] = {}
  /\ WalkInv(b) /\ AppendInv(b) /\ ClosedInv(b)
WalkIndInv == PerBuild /\ \A b \in Build : BuildInv(b)

(* The invariant is what SelfContained says of the finished walk.          *)
LEMMA WalkIndInvImplies == WalkIndInv => SelfContained
  BY DEF WalkIndInv, BuildInv, ClosedInv, OneCopy, NeedsWithin, SelfContained

(* It holds before any step.                                               *)
LEMMA InitWalkIndInv == DriverInit => WalkIndInv
  BY DEF DriverInit, WalkIndInv, PerBuild, BuildInv, WalkInv, AppendInv, ClosedInv

(* What a scan finds is provided, queued or a known package, and what was  *)
(* queued or known stays so.                                               *)
LEMMA ScansFinds ==
  ASSUME PerBuild, NEW b \in Build, NEW fs, NEW queued, NEW known, Scans(b, fs, queued, known)
  PROVE  /\ DOMAIN queue' = Build /\ DOMAIN packages' = Build
         /\ queued \subseteq queue'[b] /\ known \subseteq packages'[b]
         /\ \A f \in fs : tree.requires[f] \subseteq Provided \cup queue'[b] \cup packages'[b]
<1> DEFINE ns == UNION {tree.requires[f] : f \in fs}
<1>1. /\ queue'[b] = queued \cup {n \in ns : AsModule(n)}
      /\ packages'[b] = known \cup WithParents({n \in ns : AsPackage(n)})
  BY DEF Scans, PerBuild
<1>2. {n \in ns : AsPackage(n)} \subseteq packages'[b]
  BY <1>1 DEF WithParents
<1>3. ns \subseteq Provided \cup queue'[b] \cup packages'[b]
  BY <1>1, <1>2 DEF AsModule
<1>4. \A f \in fs : tree.requires[f] \subseteq ns
  OBVIOUS
<1>5. DOMAIN queue' = Build /\ DOMAIN packages' = Build
  BY DEF Scans, PerBuild
<1> QED
  BY <1>1, <1>3, <1>4, <1>5

(* The other builds are as they were, whatever one build's step did.       *)
LEMMA OthersKeepBuildInv ==
  ASSUME NEW c \in Build, BuildInv(c), UNCHANGED tree,
         phase'[c] = phase[c], bundle'[c] = bundle[c], queue'[c] = queue[c],
         visited'[c] = visited[c], packages'[c] = packages[c], scanned'[c] = scanned[c],
         errors'[c] = errors[c]
  PROVE  BuildInv(c)'
  BY DEF BuildInv, WalkInv, AppendInv, ClosedInv, OneCopy, NeedsWithin, PackagesNeedWithin,
         Known, Bundled

(* A step of b that keeps b's part of the invariant keeps all of it.       *)
LEMMA OneBuildSteps ==
  ASSUME NEW b \in Build, WalkIndInv, UNCHANGED tree, PerBuild', BuildInv(b)',
         \A c \in Build \ {b} :
           /\ phase'[c] = phase[c] /\ bundle'[c] = bundle[c] /\ queue'[c] = queue[c]
           /\ visited'[c] = visited[c] /\ packages'[c] = packages[c]
           /\ scanned'[c] = scanned[c] /\ errors'[c] = errors[c]
  PROVE  WalkIndInv'
<1>1. ASSUME NEW c \in Build PROVE BuildInv(c)'
  <2>1. CASE c = b
    BY <2>1
  <2>2. CASE c # b
    BY <2>2, OthersKeepBuildInv DEF WalkIndInv
  <2> QED
    BY <2>1, <2>2
<1> QED
  BY <1>1 DEF WalkIndInv

(* Compiling the entry starts the walk: it is bundled and visited, or an   *)
(* error is on record.                                                     *)
LEMMA CompileEntryInv == ASSUME NEW b \in Build, WalkIndInv, CompileEntry(b) PROVE WalkIndInv'
<1> DEFINE f == <<"project", Main>>
           queued == tree.forced \ (Provided \cup Builtin)
           known == WithParents(tree.forced \cap Builtin)
<1>0. PerBuild /\ BuildInv(b)
  BY DEF WalkIndInv
<1>1. Scans(b, Readable(f), queued, known) /\ Compiled(b, Main, f) /\ UNCHANGED <<tree, scanned>>
      /\ phase[b] = "entry" /\ phase' = [phase EXCEPT ![b] = "walk"]
      /\ visited' = [visited EXCEPT ![b] = {Main}]
  BY DEF CompileEntry, Fronts
<1> HIDE DEF queued, known
<1>2. /\ DOMAIN queue' = Build /\ DOMAIN packages' = Build
      /\ queued \subseteq queue'[b] /\ known \subseteq packages'[b]
      /\ \A g \in Readable(f) : tree.requires[g] \subseteq Provided \cup queue'[b] \cup packages'[b]
  BY <1>0, <1>1, ScansFinds
<1>3. bundle'[b] = {Main} \X Readable(f) /\ scanned'[b] = {} /\ visited'[b] = {Main}
      /\ phase'[b] = "walk"
  BY <1>0, <1>1 DEF PerBuild, BuildInv, Compiled
<1>4. PerBuild'
  BY <1>0, <1>1, <1>2 DEF PerBuild, Compiled
<1>5. \A m \in bundle'[b] : m[1] = Main /\ m[2] \in Readable(f) /\ m = <<Main, f>>
  BY <1>3 DEF Readable
<1>6. ~errors'[b] => <<Main, f>> \in bundle'[b]
  BY <1>0, <1>1, <1>3 DEF Compiled, PerBuild, Readable
<1>7. tree.forced \subseteq Known(b)'
  <2>1. tree.forced \cap Builtin \subseteq known
    BY DEF known, WithParents
  <2> QED
    BY <1>2, <2>1 DEF queued, Known
<1>8. WalkInv(b)'
  <2>1. OneCopy(b)'
    BY <1>5 DEF OneCopy
  <2>2. (Bundled(b) \subseteq visited[b])'
    BY <1>3, <1>5 DEF Bundled
  <2>3. (~errors[b] => visited[b] \subseteq Bundled(b))'
    BY <1>3, <1>6 DEF Bundled
  <2>4. NeedsWithin(b, Known(b))'
    BY <1>1, <1>2, <1>5, <1>7 DEF NeedsWithin, Known
  <2>5. PackagesNeedWithin(scanned[b], Known(b))'
    BY <1>3 DEF PackagesNeedWithin
  <2> QED
    BY <2>1, <2>2, <2>3, <2>4, <2>5 DEF WalkInv
<1>9. BuildInv(b)'
  BY <1>3, <1>8 DEF BuildInv, AppendInv, ClosedInv
<1> QED
  BY <1>0, <1>1, <1>4, <1>9, OneBuildSteps DEF Scans, Compiled, PerBuild

(* A package that was scanned has its needs on the lists.                  *)
LEMMA ScanPackageInv == ASSUME NEW b \in Build, WalkIndInv, ScanPackage(b) PROVE WalkIndInv'
<1>0. /\ PerBuild /\ BuildInv(b) /\ phase[b] = "walk" /\ UNCHANGED <<tree, bundle, visited>>
      /\ DOMAIN phase' = Build /\ \A c \in Build : phase'[c] = phase[c]
  BY DEF WalkIndInv, ScanPackage, Fronts, PerBuild
<1>1. PICK n \in packages[b] \ scanned[b] :
        /\ scanned' = [scanned EXCEPT ![b] = @ \cup {n}]
        /\ Scans(b, Readable(<<"toolchain", n>>), queue[b], packages[b])
        /\ errors' = [errors EXCEPT ![b] = @ \/ <<"toolchain", n>> \in tree.broken]
  BY DEF ScanPackage
<1> DEFINE f == <<"toolchain", n>>
<1>2. /\ DOMAIN queue' = Build /\ DOMAIN packages' = Build
      /\ queue[b] \subseteq queue'[b] /\ packages[b] \subseteq packages'[b]
      /\ \A g \in Readable(f) : tree.requires[g] \subseteq Provided \cup queue'[b] \cup packages'[b]
  BY <1>0, <1>1, ScansFinds
<1>3. PerBuild' /\ scanned'[b] = scanned[b] \cup {n} /\ (errors[b] => errors'[b])
  BY <1>0, <1>1, <1>2 DEF PerBuild
<1>4. Known(b) \subseteq Known(b)'
  BY <1>0, <1>2 DEF Known
<1>5. WalkInv(b)'
  <2>1. PackagesNeedWithin(scanned[b], Known(b))'
    <3> SUFFICES ASSUME NEW o \in scanned'[b], <<"toolchain", o>> \in tree.parses
                 PROVE  tree.requires[<<"toolchain", o>>] \subseteq Known(b)'
      BY <1>0 DEF PackagesNeedWithin
    <3>1. CASE o = n
      BY <3>1, <1>2 DEF Readable, Known
    <3>2. CASE o # n
      BY <3>2, <1>0, <1>3, <1>4 DEF BuildInv, WalkInv, PackagesNeedWithin
    <3> QED
      BY <3>1, <3>2
  <2>2. OneCopy(b)' /\ (Bundled(b) \subseteq visited[b])'
        /\ (~errors[b] => visited[b] \subseteq Bundled(b))'
    BY <1>0, <1>3 DEF BuildInv, WalkInv, OneCopy, Bundled
  <2>3. NeedsWithin(b, Known(b))'
    BY <1>0, <1>4 DEF BuildInv, WalkInv, NeedsWithin
  <2> QED
    BY <2>1, <2>2, <2>3 DEF WalkInv
<1>6. BuildInv(b)'
  BY <1>0, <1>5 DEF BuildInv, AppendInv, ClosedInv
<1> QED
  BY <1>0, <1>1, <1>3, <1>6, OneBuildSteps DEF Scans, PerBuild

(* A name taken from the queue is visited: bundled from one file with its  *)
(* needs on the lists, or an error is on record.                           *)
LEMMA TakeModuleInv == ASSUME NEW b \in Build, WalkIndInv, TakeModule(b) PROVE WalkIndInv'
<1>0. /\ PerBuild /\ BuildInv(b) /\ phase[b] = "walk" /\ UNCHANGED <<tree, scanned>>
      /\ DOMAIN phase' = Build /\ \A c \in Build : phase'[c] = phase[c]
  BY DEF WalkIndInv, TakeModule, Fronts, PerBuild
<1>1. PICK n \in queue[b] :
        LET f == Source(n)
            fs == IF n \in visited[b] THEN {} ELSE Readable(f) IN
        /\ IF n \in visited[b] THEN UNCHANGED <<bundle, errors>> ELSE Compiled(b, n, f)
        /\ visited' = [visited EXCEPT ![b] = @ \cup {n}]
        /\ Scans(b, fs, queue[b] \ {n}, packages[b])
  BY DEF TakeModule
<1> DEFINE f == Source(n)
           fs == IF n \in visited[b] THEN {} ELSE Readable(f)
<1> HIDE DEF f
<1>2. /\ DOMAIN queue' = Build /\ DOMAIN packages' = Build
      /\ queue[b] \ {n} \subseteq queue'[b] /\ packages[b] \subseteq packages'[b]
      /\ \A g \in fs : tree.requires[g] \subseteq Provided \cup queue'[b] \cup packages'[b]
  BY <1>0, <1>1, ScansFinds DEF f
<1>3. visited'[b] = visited[b] \cup {n} /\ bundle'[b] = bundle[b] \cup ({n} \X fs)
      /\ (~errors'[b] => ~errors[b] /\ (n \in visited[b] \/ fs = {f}))
  <2>1. CASE n \in visited[b]
    BY <1>0, <1>1, <2>1 DEF PerBuild
  <2>2. CASE n \notin visited[b]
    <3>1. /\ bundle' = [bundle EXCEPT ![b] = @ \cup ({n} \X Readable(f))]
          /\ errors' = [errors EXCEPT ![b] = @ \/ f \notin tree.parses]
      BY <1>1, <2>2 DEF Compiled, f
    <3>2. fs = {f} \cap tree.parses
      BY <2>2 DEF Readable
    <3>3. bundle'[b] = bundle[b] \cup ({n} \X fs) /\ errors'[b] = (errors[b] \/ f \notin tree.parses)
      BY <1>0, <2>2, <3>1 DEF PerBuild
    <3>4. visited'[b] = visited[b] \cup {n}
      BY <1>0, <1>1 DEF PerBuild
    <3>5. f \in tree.parses => fs = {f}
      BY <3>2
    <3> QED
      BY <3>3, <3>4, <3>5
  <2> QED
    BY <2>1, <2>2
<1>4. PerBuild'
  BY <1>0, <1>1, <1>2 DEF PerBuild, Compiled
<1>5. Known(b) \subseteq Known(b)'
  BY <1>0, <1>2, <1>3 DEF Known
<1>6. \A m \in bundle'[b] \ bundle[b] :
        m[1] = n /\ m[2] \in fs /\ m = <<n, f>> /\ n \notin visited[b]
  BY <1>3 DEF Readable
<1>7. WalkInv(b)'
  <2>0. WalkInv(b)
    BY <1>0 DEF BuildInv
  <2>1. OneCopy(b)'
    <3> SUFFICES ASSUME NEW m \in bundle'[b], NEW o \in bundle'[b], m[1] = o[1] PROVE m = o
      BY DEF OneCopy
    <3>1. \A q \in bundle[b] : q[1] \in visited[b]
      BY <1>0, <2>0 DEF WalkInv, Bundled
    <3>2. CASE m \in bundle[b] /\ o \in bundle[b]
      BY <3>2, <1>0, <2>0 DEF WalkInv, OneCopy
    <3>3. CASE m \notin bundle[b] \/ o \notin bundle[b]
      BY <3>1, <3>3, <1>6
    <3> QED
      BY <3>2, <3>3
  <2>2. (Bundled(b) \subseteq visited[b])'
    BY <1>0, <1>3, <1>6, <2>0 DEF WalkInv, Bundled
  <2>3. (~errors[b] => visited[b] \subseteq Bundled(b))'
    <3> SUFFICES ASSUME ~errors'[b] PROVE (visited[b] \subseteq Bundled(b))'
      OBVIOUS
    <3>1. Bundled(b) \subseteq Bundled(b)' /\ visited[b] \subseteq Bundled(b)
      BY <1>0, <1>3, <2>0 DEF WalkInv, Bundled
    <3>2. CASE n \in visited[b]
      BY <3>1, <3>2, <1>3
    <3>3. CASE fs = {f}
      <4>1. <<n, f>> \in bundle'[b]
        BY <3>3, <1>3
      <4>2. n \in Bundled(b)'
        BY <4>1 DEF Bundled
      <4> QED
        BY <3>1, <4>2, <1>3
    <3> QED
      BY <3>2, <3>3, <1>3
  <2>4. NeedsWithin(b, Known(b))'
    <3>1. \A m \in bundle'[b] : tree.requires[m[2]] \subseteq Known(b)'
      <4> SUFFICES ASSUME NEW m \in bundle'[b] PROVE tree.requires[m[2]] \subseteq Known(b)'
        OBVIOUS
      <4>1. CASE m \in bundle[b]
        BY <4>1, <1>0, <1>5, <2>0 DEF WalkInv, NeedsWithin
      <4>2. CASE m \notin bundle[b]
        BY <4>2, <1>2, <1>6 DEF Known
      <4> QED
        BY <4>1, <4>2
    <3> QED
      BY <3>1, <1>0, <1>5, <2>0 DEF WalkInv, NeedsWithin
  <2>5. PackagesNeedWithin(scanned[b], Known(b))'
    BY <1>0, <1>5, <2>0 DEF WalkInv, PackagesNeedWithin
  <2> QED
    BY <2>1, <2>2, <2>3, <2>4, <2>5 DEF WalkInv
<1>8. BuildInv(b)'
  BY <1>0, <1>7 DEF BuildInv, AppendInv, ClosedInv
<1> QED
  BY <1>0, <1>1, <1>4, <1>8, OneBuildSteps DEF Scans, Compiled, PerBuild

(* At the end of a walk without errors nothing is queued, every visited    *)
(* name is bundled and every package scanned.                              *)
LEMMA WalkEndsInv == ASSUME NEW b \in Build, WalkIndInv, WalkEnds(b) PROVE WalkIndInv'
<1>0. /\ PerBuild /\ WalkInv(b) /\ phase[b] = "walk" /\ phase'[b] = "append"
      /\ UNCHANGED <<tree, bundle, packages, errors>>
      /\ queue[b] = {} /\ ~errors[b] /\ packages[b] \subseteq scanned[b]
  BY DEF WalkIndInv, BuildInv, WalkEnds, Fronts, PerBuild, Walked, Refused
<1>1. PerBuild'
  BY DEF WalkIndInv, PerBuild, WalkEnds, Fronts, FreeLists
<1>2. Known(b) \subseteq Provided \cup Bundled(b) \cup packages[b]
  BY <1>0 DEF Known, WalkInv
<1>3. Bundled(b)' = Bundled(b)
  BY <1>0 DEF Bundled
<1>4. AppendInv(b)'
  <2>1. OneCopy(b)'
    BY <1>0 DEF WalkInv, OneCopy
  <2>2. NeedsWithin(b, Provided \cup Bundled(b) \cup packages[b])'
    BY <1>0, <1>2, <1>3 DEF WalkInv, NeedsWithin
  <2>3. PackagesNeedWithin(packages[b], Provided \cup Bundled(b) \cup packages[b])'
    BY <1>0, <1>2, <1>3 DEF WalkInv, PackagesNeedWithin
  <2> QED
    BY <2>1, <2>2, <2>3 DEF AppendInv
<1>5. BuildInv(b)'
  BY <1>0, <1>4 DEF BuildInv, WalkInv, ClosedInv
<1> QED
  BY <1>0, <1>1, <1>5, OneBuildSteps DEF WalkEnds, Fronts, FreeLists, PerBuild

(* The packages not bundled yet are appended, and the program is closed.   *)
LEMMA AppendPackagesInv == ASSUME NEW b \in Build, WalkIndInv, AppendPackages(b) PROVE WalkIndInv'
<1> DEFINE ns == Provided \cup Bundled(b) \cup packages[b]
<1>0. /\ PerBuild /\ OneCopy(b) /\ NeedsWithin(b, ns) /\ PackagesNeedWithin(packages[b], ns)
      /\ phase'[b] = "gates" /\ UNCHANGED tree
      /\ bundle'[b] = bundle[b] \cup Appended(b)
      /\ \A m \in Appended(b) : m[2] \in tree.parses
  BY DEF WalkIndInv, BuildInv, AppendInv, AppendPackages, Fronts, PerBuild
<1>1. PerBuild'
  BY DEF WalkIndInv, PerBuild, AppendPackages, Fronts
<1>2. \A m \in Appended(b) :
        /\ m = <<m[1], <<"toolchain", m[1]>>>> /\ m[1] \in packages[b] \ Bundled(b)
  BY DEF Appended
<1>3. ns \subseteq Provided \cup Bundled(b)'
  <2>1. Bundled(b) \subseteq Bundled(b)'
    BY <1>0 DEF Bundled
  <2>2. ASSUME NEW n \in packages[b] \ Bundled(b) PROVE n \in Bundled(b)'
    <3>1. <<n, <<"toolchain", n>>>> \in bundle'[b]
      BY <1>0 DEF Appended
    <3> QED
      BY <3>1 DEF Bundled
  <2> QED
    BY <2>1, <2>2
<1>4. OneCopy(b)'
  <2> SUFFICES ASSUME NEW m \in bundle'[b], NEW o \in bundle'[b], m[1] = o[1] PROVE m = o
    BY DEF OneCopy
  <2>1. \A q \in bundle[b] : q[1] \in Bundled(b)
    BY DEF Bundled
  <2>2. CASE m \in bundle[b] /\ o \in bundle[b]
    BY <2>2, <1>0 DEF OneCopy
  <2>3. CASE m \in Appended(b) /\ o \in Appended(b)
    BY <2>3, <1>2
  <2>4. CASE \/ m \in Appended(b) /\ o \in bundle[b]
             \/ m \in bundle[b] /\ o \in Appended(b)
    BY <2>1, <2>4, <1>2
  <2> QED
    BY <2>2, <2>3, <2>4, <1>0
<1>5. NeedsWithin(b, Provided \cup Bundled(b))'
  <2>1. ASSUME NEW m \in bundle'[b] PROVE tree.requires[m[2]] \subseteq ns
    <3>1. CASE m \in bundle[b]
      BY <3>1, <1>0 DEF NeedsWithin
    <3>2. CASE m \in Appended(b)
      <4>1. m[2] = <<"toolchain", m[1]>> /\ m[1] \in packages[b] /\ m[2] \in tree.parses
        BY <3>2, <1>0, <1>2
      <4> QED
        BY <4>1, <1>0 DEF PackagesNeedWithin
    <3> QED
      BY <3>1, <3>2, <1>0
  <2> QED
    BY <2>1, <1>0, <1>3 DEF NeedsWithin
<1>6. BuildInv(b)'
  BY <1>0, <1>4, <1>5 DEF BuildInv, WalkInv, AppendInv, ClosedInv
<1> QED
  BY <1>0, <1>1, <1>6, OneBuildSteps DEF AppendPackages, Fronts, PerBuild

(* Nothing is claimed of a build that is over.                             *)
LEMMA OverInv == ASSUME NEW b \in Build, WalkIndInv, Over(b), UNCHANGED tree PROVE WalkIndInv'
<1>1. PerBuild' /\ phase'[b] = "over"
  BY DEF WalkIndInv, PerBuild, Over, FreeLists
<1>2. BuildInv(b)'
  BY <1>1 DEF BuildInv, WalkInv, AppendInv, ClosedInv
<1> QED
  BY <1>1, <1>2, OneBuildSteps DEF Over, FreeLists, WalkIndInv, PerBuild

(* The steps after the gates do not touch the program.                     *)
LEMMA MovesOnInv ==
  ASSUME NEW b \in Build, WalkIndInv, Generate(b) \/ StopEarly(b) PROVE WalkIndInv'
<1>0. /\ PerBuild /\ ClosedInv(b) /\ phase[b] = "gates" /\ phase'[b] \in {"backend", "checked"}
      /\ UNCHANGED <<tree, bundle>>
  BY DEF WalkIndInv, BuildInv, Generate, StopEarly, Fronts, PerBuild, walkVars
<1>1. PerBuild'
  BY DEF WalkIndInv, PerBuild, Generate, StopEarly, Fronts, walkVars
<1>2. ClosedInv(b)'
  BY <1>0 DEF ClosedInv, OneCopy, NeedsWithin, Bundled
<1>3. BuildInv(b)'
  BY <1>0, <1>2 DEF BuildInv, WalkInv, AppendInv
<1> QED
  BY <1>0, <1>1, <1>3, OneBuildSteps DEF Generate, StopEarly, Fronts, PerBuild, walkVars

(* The invariant says nothing of the output or the store.                  *)
LEMMA NoWalkInv ==
  ASSUME WalkIndInv, UNCHANGED <<tree, phase, walkVars>> PROVE WalkIndInv'
<1>1. UNCHANGED <<tree, phase, bundle, queue, visited, packages, scanned, errors>>
  BY DEF walkVars
<1>2. PerBuild'
  BY <1>1 DEF WalkIndInv, PerBuild
<1>3. \A b \in Build : BuildInv(b)'
  BY <1>1, OthersKeepBuildInv DEF WalkIndInv
<1> QED
  BY <1>2, <1>3 DEF WalkIndInv

(* Every step keeps the walk's invariant.                                  *)
LEMMA NextWalkIndInv == WalkIndInv /\ [DriverNext]_driverVars => WalkIndInv'
<1> SUFFICES ASSUME WalkIndInv, [DriverNext]_driverVars PROVE WalkIndInv'
  OBVIOUS
<1>1. ASSUME NEW b \in Build, DriverStep(b) PROVE WalkIndInv'
  <2>1. CASE CompileEntry(b)
    BY <2>1, CompileEntryInv
  <2>2. CASE ScanPackage(b)
    BY <2>2, ScanPackageInv
  <2>3. CASE TakeModule(b)
    BY <2>3, TakeModuleInv
  <2>4. CASE WalkEnds(b)
    BY <2>4, WalkEndsInv
  <2>5. CASE AppendPackages(b)
    BY <2>5, AppendPackagesInv
  <2>6. CASE WalkFails(b) \/ AppendFails(b) \/ GatesFail(b)
    BY <2>6, OverInv DEF WalkFails, AppendFails, GatesFail, FrontFails
  <2>7. CASE Generate(b) \/ StopEarly(b)
    BY <2>7, MovesOnInv
  <2>8. CASE BackEnd(b)
    BY <2>8, OverInv, NoWalkInv DEF BackEnd
  <2> QED
    BY <1>1, <2>1, <2>2, <2>3, <2>4, <2>5, <2>6, <2>7, <2>8 DEF DriverStep
<1>2. ASSUME NEW b \in Build, Killed(b) PROVE WalkIndInv'
  BY <1>2, OverInv DEF Killed
<1>3. CASE Outside \/ Rove
  BY <1>3, NoWalkInv DEF Outside, Rove
<1>4. CASE UNCHANGED driverVars
  BY <1>4, NoWalkInv DEF driverVars
<1> QED
  BY <1>1, <1>2, <1>3, <1>4 DEF DriverNext

(* A program that reaches the code generator has one copy of every module  *)
(* and every module it names, for any graph of modules and packages, any   *)
(* number of builds, and packages that come and go during the walk.        *)
THEOREM SpecSelfContained == DriverSpec => []SelfContained
  BY InitWalkIndInv, NextWalkIndInv, WalkIndInvImplies, PTL DEF DriverSpec
=============================================================================
