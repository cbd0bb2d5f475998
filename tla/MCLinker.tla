------------------------------ MODULE MCLinker ------------------------------
(***************************************************************************)
(* Links of a user object, an optional runtime object and two archives.    *)
(* main calls f, g and, through its import slot, f; what the user object   *)
(* says of f and g, what the runtime object says of f, and who in the      *)
(* archives defines them vary.  Sections come out of the sort in another   *)
(* order than they were collected in.                                      *)
(***************************************************************************)
EXTENDS Linker, TLC

MCNames == <<"main", "f", "g", "imp_f", "k">>
MCImp == [f |-> "imp_f"] 
MCSortKey == [main |-> 2, f |-> 2, g |-> 1, imp_f |-> 2, k |-> 0]
MCKeep == {"k"}

N == ToSet(MCNames)
Roles(r) == r @@ [n \in N |-> "none"]
Obj(kind, roles, refs, dflt) ==
  [kind |-> kind, role |-> Roles(roles),
   refs |-> refs @@ [n \in N |-> {}], dflt |-> dflt @@ [n \in N |-> Nil]]
Ar(members, armap) == [members |-> members, armap |-> armap @@ [n \in N |-> 0]]
Empty == [n \in {} |-> {}]

Mentioned(roles) == {n \in DOMAIN roles : roles[n] # "none"} \ {"main"}

UserRoles(fs) ==
  [main : {"def"}, f : fs, g : {"undef", "common", "comdat"}, imp_f : {"none", "undef"}]

\* main uses what the object mentions; its own f uses g, its own g uses f.
User(roles, d) ==
  Obj("object", roles,
      [main |-> Mentioned(roles),
       f |-> Mentioned(roles) \cap {"g"}, g |-> Mentioned(roles) \cap {"f"}], d)
Users == {User(r, Empty) : r \in UserRoles(Role)} \cup
         {User(r, [f |-> "g"]) : r \in UserRoles({"weak"})}

Runtimes ==
  {<<Obj("object", [f |-> r, g |-> "undef"], [f |-> {"g"}], Empty)>> :
     r \in {"def", "comdat", "weak", "common"}}
  \cup {<<>>, <<Obj("bad", Empty, Empty, Empty)>>}

\* f and g in circles; a section nobody refers to; one kept by name.
F(r) == Obj("object", [f |-> r, g |-> "undef"], [f |-> {"g"}], Empty)
G == Obj("object", [g |-> "comdat", f |-> "comdat", k |-> "def"],
         [g |-> {"f"}, k |-> {"g"}], Empty)
Stub(kind) == Obj(kind, Empty, Empty, Empty)

Libraries ==
  { <<Ar(<<F("def"), G>>, [f |-> 1, g |-> 2])>>,
    <<Ar(<<F("comdat"), G>>, [f |-> 1, g |-> 2])>>,
    <<Ar(<<F("def")>>, [f |-> 1, g |-> 1])>>,
    <<Ar(<<G>>, [g |-> 1]), Ar(<<Stub("import")>>, [f |-> 1, imp_f |-> 1])>>,
    <<Ar(<<Stub("import")>>, [f |-> 1, imp_f |-> 1]), Ar(<<G>>, [f |-> 1, g |-> 1])>>,
    <<Ar(<<Stub("orphan")>>, [f |-> 1]), Ar(<<G, Stub("bad")>>, [f |-> 2, g |-> 1])>> }

MCInputs ==
  {[explicit |-> <<u>> \o r, archives |-> l] @@ o :
     u \in Users, r \in Runtimes, l \in Libraries,
     o \in {[force |-> {}, gc |-> TRUE], [force |-> {"f"}, gc |-> TRUE],
            [force |-> {}, gc |-> FALSE]}}
=============================================================================
