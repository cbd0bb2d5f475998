------------------------------ MODULE MCDriver ------------------------------
(***************************************************************************)
(* An instance of Driver for TLC: two builds with one output, of any       *)
(* kinds, and trees for the outcomes of the front end.  rover installs and *)
(* removes a package that is also builtin.                                 *)
(***************************************************************************)
EXTENDS Driver

ModuleNames == {"main", "a", "b", "json", "windows", "windows.x", "imgui", "ffi"}
Packages == {"json", "windows", "windows.x", "imgui"}
Parents == [n \in {"windows.x"} |-> "windows"]

Project(ns) == {"project"} \X ns
Toolchain(ns) == {"toolchain"} \X ns
Installed == {<<"store", "json">>, <<"pinned", "b">>}

(* What each source requires, wherever it is bundled: a, b, the package     *)
(* json and the package windows.x in a circle.  The copy of json in the     *)
(* store needs no package.                                                  *)
Requires ==
  [f \in SourceFile |->
     CASE f = <<"project", "main">> -> {"a", "ffi"}
       [] f = <<"project", "a">> -> {"b"}
       [] f[2] = "b" -> {"json"}
       [] f = <<"toolchain", "json">> -> {"windows.x"}
       [] f = <<"store", "json">> -> {"a"}
       [] f = <<"toolchain", "windows.x">> -> {"windows", "a"}
       [] OTHER -> {}]

Everything ==
  Project({"main", "a", "b"}) \cup Toolchain(Packages) \cup Installed

Tree(parses, broken) ==
  [requires |-> Requires, parses |-> parses, broken |-> broken,
   dynamic |-> {}, pinned |-> {}, forced |-> {}]

SourceTrees ==
  LET good == Tree(Everything, {}) IN
  {good,
   [good EXCEPT !.pinned = {"b"}, !.forced = {"windows.x", "ffi"}],
   [good EXCEPT !.dynamic = Project({"a"}), !.forced = {"imgui"}],
   (* main and a package do not parse, and b is missing; or a package has  *)
   (* no source.                                                           *)
   [Tree(Everything \ (Project({"main", "b"}) \cup Toolchain({"windows.x"})),
         Project({"main"}) \cup Toolchain({"windows.x"})) EXCEPT !.forced = {"a"}],
   Tree(Everything \ Toolchain({"windows"}), {})}
=============================================================================
