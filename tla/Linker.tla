------------------------------- MODULE Linker -------------------------------
(***************************************************************************)
(* The PE linker (link/pe_emit.c) from its inputs to relocated sections:   *)
(* symbol table, archive members pulled on demand, synthesized imports,    *)
(* COMDAT folding, dead-section elimination, layout and relocation.        *)
(*                                                                         *)
(* An object is what its symbol table says of each name and, per name it   *)
(* defines, one section (-ffunction-sections) with the names its           *)
(* relocations mention.  An address is the area of the image and the       *)
(* place in it; bytes, alignment and section headers are left out.         *)
(* Allocation failures are left out, they end the link like a bad object.  *)
(***************************************************************************)
EXTENDS Naturals, FiniteSets, Sequences, SequencesExt

CONSTANTS NameSeq,   \* the symbol names, in the order of a symbol table
          Entry,     \* the image's entry symbol
          TlsUsed,   \* _tls_used
          KeepNames, \* names whose sections gc_keep_by_name keeps
          Imp,       \* from an imported function to its __imp_ name
          SortKey,   \* output section, group and suffix of a name's section
          Nil,       \* no default
          Inputs     \* what LcPe_Link is called with

Name == ToSet(NameSeq)

\* What the symbol table of an object can say of a name.  "weak" is a weak
\* external without a definition, with its default symbol in "dflt".
Role == {"none", "undef", "weak", "common", "static", "def", "comdat"}
Placed == {"static", "def", "comdat"}  \* has a section of the object
Global == {"def", "comdat"}            \* and is known to other objects

Object == [kind : {"object", "bad", "import", "orphan"}, role : [Name -> Role],
           refs : [Name -> SUBSET Name], dflt : [Name -> Name \cup {Nil}]]
Archive == [members : Seq(Object), armap : [Name -> Nat]]
Input == [explicit : Seq(Object), archives : Seq(Archive),
          force : SUBSET Name, gc : BOOLEAN]

ASSUME LinkerAssumption ==
  /\ NameSeq \in Seq(Name) /\ Nil \notin Name
  /\ Inputs \subseteq Input
  /\ {Entry, TlsUsed} \cup KeepNames \subseteq Name
  /\ Imp \in [DOMAIN Imp -> Name] /\ DOMAIN Imp \subseteq Name
  /\ SortKey \in [Name -> Nat]
  /\ \A in \in Inputs : \A a \in ToSet(in.archives) : \A n \in Name :
       /\ a.armap[n] <= Len(a.members)
       /\ a.armap[n] # 0 /\ a.members[a.armap[n]].kind = "import" =>
            n \in DOMAIN Imp \/ \E l \in DOMAIN Imp : Imp[l] = n

VARIABLES input,    \* the arguments of LcPe_Link
          phase,    \* the pass it is in
          objs,     \* L->objs: explicit objects, then pulled members
          pulled,   \* L->ar_pulled: the members, in the order of objs
          sym,      \* L->syms by name
          order,    \* L->syms: the names in the order they were interned
          imports,  \* L->imports, with the objects loaded before
          contribs, \* L->contribs
          map,      \* L->contrib_map: section to index in contribs
          live,     \* the contributions that are not dropped
          queue,    \* worklist of gc_sections
          rva,      \* GSym.rva by name
          bound     \* what each relocation was patched with

vars == <<input, phase, objs, pulled, sym, order, imports, contribs, map,
          live, queue, rva, bound>>

tables == <<objs, pulled, sym, order, imports>>
sections == <<contribs, map, live, queue>>

NewSym == [obj |-> 0, imp |-> "no", slot |-> 0, common |-> 0,
           weak |-> FALSE, dflt |-> Nil, forced |-> FALSE]
Null == [area |-> "null", at |-> 0]

Min0(S) == CHOOSE x \in S : \A y \in S : x <= y
IndexOf(seq, e) == CHOOSE i \in DOMAIN seq : seq[i] = e

(* The elements of S in an order: the i-th is the one i - 1 come before.   *)
Sorted(S, before(_, _)) ==
  [i \in 1..Cardinality(S) |->
     CHOOSE s \in S : Cardinality({t \in S : before(t, s)}) = i - 1]

-----------------------------------------------------------------------------
(* The symbol table.                                                       *)

Defined(g) == g.obj # 0 \/ g.imp # "no" \/ g.common = 2

(* gsym_intern, for names that come as in a symbol table.                  *)
NamedBefore(m, n) == IndexOf(NameSeq, m) < IndexOf(NameSeq, n)
Intern(known, names) == known \o Sorted(names \ ToSet(known), NamedBefore)

(* The names an object registers: neither absent nor static.               *)
Externals(o) == {n \in Name : o.role[n] \notin {"none", "static"}}

(* load_object_syms, for one symbol: a definition is taken once; common    *)
(* and weak are noted as long as there is none.                            *)
Register(g, o, i, n) ==
  IF Defined(g) THEN g ELSE
  CASE o.role[n] \in Global -> [g EXCEPT !.obj = i, !.weak = FALSE]
    [] o.role[n] = "common" -> [g EXCEPT !.common = 1]
    [] o.role[n] = "weak" -> [g EXCEPT !.weak = TRUE, !.dflt = o.dflt[n]]
    [] OTHER -> g

(* linker_add_object.                                                      *)
AddObject(o) ==
  /\ objs' = Append(objs, o)
  /\ sym' = [n \in Name |-> Register(sym[n], o, Len(objs) + 1, n)]
  /\ order' = Intern(order, Externals(o))

Init ==
  /\ input \in Inputs
  /\ phase = "load"
  /\ objs = <<>> /\ pulled = <<>> /\ order = <<>> /\ imports = <<>>
  /\ sym = [n \in Name |-> NewSym]
  /\ contribs = <<>> /\ map = <<>> /\ live = {} /\ queue = {}
  /\ rva = [n \in Name |-> Null]
  /\ bound = <<>>

(* load_object_file: the explicit objects in order; one that cannot be     *)
(* parsed fails the link.                                                  *)
Load ==
  /\ phase = "load"
  /\ Len(objs) < Len(input.explicit)
  /\ LET o == input.explicit[Len(objs) + 1] IN
       IF o.kind = "bad"
       THEN phase' = "failed" /\ UNCHANGED <<objs, sym, order>>
       ELSE AddObject(o) /\ UNCHANGED phase
  /\ UNCHANGED <<input, pulled, imports, sections, rva, bound>>

(* The entry and the -u roots: they are searched even if only weak.        *)
Roots ==
  /\ phase = "load"
  /\ Len(objs) = Len(input.explicit)
  /\ LET force == {Entry} \cup input.force IN
       /\ sym' = [n \in Name |-> IF n \in force THEN [sym[n] EXCEPT !.forced = TRUE] ELSE sym[n]]
       /\ order' = Intern(Intern(order, {Entry}), input.force)
  /\ phase' = "resolve"
  /\ UNCHANGED <<input, objs, pulled, imports, sections, rva, bound>>

-----------------------------------------------------------------------------
(* resolve_fixpoint.                                                       *)

(* sym_unresolved.                                                         *)
Unresolved(g) ==
  ~Defined(g) /\ g.common = 0 /\ (g.weak => g.forced)

(* LcAr_MemberDefining: the member the first armap entry names, or 0.      *)
MemberDefining(a, n) == input.archives[a].armap[n]
Member(a, n) == input.archives[a].members[MemberDefining(a, n)]

(* Mutant: the members pulled are not remembered.                          *)
AnswersAgain(a, n) ==
  MemberDefining(a, n) # 0 /\ Member(a, n).kind # "orphan"

(* Can archive a do something for n?  An import stub whose DLL is unknown  *)
(* ("orphan") cannot, nor a member that was already pulled.                *)
Answers(a, n) ==
  /\ MemberDefining(a, n) # 0
  /\ Member(a, n).kind # "orphan"
  /\ ~Contains(pulled, [archive |-> a, member |-> MemberDefining(a, n)])

(* The first unresolved symbol some archive answers for, and the archive:  *)
(* every pass starts again from the first symbol.                          *)
Answered(i) ==
  Unresolved(sym[order[i]]) /\ \E a \in DOMAIN input.archives : Answers(a, order[i])
Candidates == {i \in DOMAIN order : Answered(i)}
Asked == order[Min0(Candidates)]
Answering == Min0({a \in DOMAIN input.archives : Answers(a, Asked)})

Resolving(kinds) ==
  /\ phase = "resolve"
  /\ Candidates # {}
  /\ Member(Answering, Asked).kind \in kinds

Local(n) == IF \E l \in DOMAIN Imp : Imp[l] = n
            THEN CHOOSE l \in DOMAIN Imp : Imp[l] = n ELSE n

(* try_resolve_import: the function becomes a jump thunk, its __imp_ name  *)
(* the slot of the import table, whatever they were.                       *)
ResolveImport ==
  /\ Resolving({"import"})
  /\ LET l == Local(Asked)
         import(n) == [sym[n] EXCEPT !.imp = IF n = l THEN "thunk" ELSE "iat",
                                     !.slot = Len(imports) + 1] IN
       /\ imports' = Append(imports, [local |-> l, before |-> Len(objs)])
       /\ sym' = [n \in Name |-> IF n \in {l, Imp[l]} THEN import(n) ELSE sym[n]]
       /\ order' = Intern(Intern(order, {Imp[l]}), {l})
  /\ UNCHANGED <<input, phase, objs, pulled, sections, rva, bound>>

(* pull_member_object: the member is loaded like an explicit object.       *)
Pull ==
  /\ Resolving({"object"})
  /\ AddObject(Member(Answering, Asked))
  /\ pulled' = Append(pulled, [archive |-> Answering, member |-> MemberDefining(Answering, Asked)])
  /\ UNCHANGED <<input, phase, imports, sections, rva, bound>>

(* A member that cannot be parsed fails the link.                          *)
PullFails ==
  /\ Resolving({"bad"})
  /\ phase' = "failed"
  /\ UNCHANGED <<input, tables, sections, rva, bound>>

(* A pass that changed nothing ends the fixpoint.                          *)
ResolveEnd ==
  /\ phase = "resolve"
  /\ Candidates = {}
  /\ phase' = "collect"
  /\ UNCHANGED <<input, tables, sections, rva, bound>>

-----------------------------------------------------------------------------
(* Sections.                                                               *)

Section == [obj : DOMAIN objs, name : Name]
HasSection(s) == objs[s.obj].role[s.name] \in Placed
RefsOf(s) == objs[s.obj].refs[s.name]

(* A COMDAT section is dropped when an earlier object had one of the key.  *)
Duplicate(s) ==
  /\ objs[s.obj].role[s.name] = "comdat"
  /\ \E j \in 1..(s.obj - 1) : objs[j].role[s.name] = "comdat"

Earlier(s, t) ==
  s.obj < t.obj \/ (s.obj = t.obj /\ NamedBefore(s.name, t.name))

(* contrib_map_build.                                                      *)
MapOf(cs) == [s \in ToSet(cs) |-> IndexOf(cs, s)]

(* gc_map_get, as a set: empty for a section that contributes nothing.     *)
MapGet(s) == IF s \in DOMAIN map THEN {contribs[map[s]]} ELSE {}

Collect ==
  /\ phase = "collect"
  /\ LET kept == {s \in Section : HasSection(s) /\ ~Duplicate(s)} IN
       /\ contribs' = Sorted(kept, Earlier)
       /\ map' = MapOf(contribs')
       /\ live' = kept
  /\ phase' = "gc"
  /\ UNCHANGED <<input, tables, queue, rva, bound>>

(* The section a name's global definition is in.                           *)
DefinedIn(n) ==
  IF sym[n].obj = 0 THEN {} ELSE MapGet([obj |-> sym[n].obj, name |-> n])

Own(o, n) ==
  IF objs[o].role[n] \in Placed THEN MapGet([obj |-> o, name |-> n]) ELSE {}

(* gc_sections starts with every section dropped, but the user object's,   *)
(* those kept by name and those of the root symbols.                       *)
GcStart ==
  /\ phase = "gc"
  /\ IF ~input.gc \/ contribs = <<>>
     THEN phase' = "layout" /\ UNCHANGED <<live, queue>>
     ELSE LET roots == {s \in live : s.obj = 1 \/ s.name \in KeepNames} \cup
                       UNION {DefinedIn(n) : n \in {Entry, TlsUsed} \cup input.force}
          IN live' = roots /\ queue' = roots /\ phase' = "mark"
  /\ UNCHANGED <<input, tables, contribs, map, rva, bound>>

(* Mutant: a folded COMDAT section marks nothing.                          *)
MarkTargetOwn(o, n) ==
  IF objs[o].role[n] \in Placed THEN Own(o, n) ELSE DefinedIn(n)

(* gc_mark_target: the object's own section; the global definition if it   *)
(* has none or its copy was folded.                                        *)
MarkTarget(o, n) == IF Own(o, n) # {} THEN Own(o, n) ELSE DefinedIn(n)

(* Mutant: a section is put on the worklist even if it was live.           *)
NewlyLiveAgain(s) == UNION {MarkTarget(s.obj, n) : n \in RefsOf(s)}

(* gc_scan_contrib: each section is put on the worklist once.              *)
NewlyLive(s) == (UNION {MarkTarget(s.obj, n) : n \in RefsOf(s)}) \ live

GcMark ==
  /\ phase = "mark"
  /\ \E s \in queue :
       /\ live' = live \cup NewlyLive(s)
       /\ queue' = (queue \ {s}) \cup NewlyLive(s)
  /\ UNCHANGED <<input, phase, tables, contribs, map, rva, bound>>

GcEnd ==
  /\ phase = "mark"
  /\ queue = {}
  /\ phase' = "layout"
  /\ UNCHANGED <<input, tables, sections, rva, bound>>

(* contrib_cmp, and the insertion sort keeps equal sections in order.      *)
Before(s, t) ==
  \/ SortKey[s.name] < SortKey[t.name]
  \/ SortKey[s.name] = SortKey[t.name] /\ Earlier(s, t)

(* Mutant: the index is not refreshed after the sort.                      *)
RefreshMapNot(cs) == map

(* The second contrib_map_build.                                           *)
RefreshMap(cs) == MapOf(cs)

(* Tentative definitions nobody defined get a slot in .bss.                *)
CommitCommons ==
  LET tentative(n) == sym[n].common = 1 /\ ~Defined(sym[n])
      upTo(n) == {i \in 1..IndexOf(order, n) : tentative(order[i])}
  IN [n \in Name |-> IF tentative(n)
                     THEN [sym[n] EXCEPT !.slot = Cardinality(upTo(n)), !.common = 2]
                     ELSE sym[n]]

(* layout_sections, then the second contrib_map_build.                     *)
Layout ==
  /\ phase = "layout"
  /\ contribs' = Sorted(ToSet(contribs), Before)
  /\ map' = RefreshMap(contribs')
  /\ sym' = CommitCommons
  /\ phase' = "address"
  /\ UNCHANGED <<input, objs, pulled, order, imports, live, queue, rva, bound>>

-----------------------------------------------------------------------------
(* Addresses and relocations.                                              *)

(* Where the i-th contribution starts: dropped ones take no room.          *)
Offset(i) == Cardinality({j \in 1..i : contribs[j] \in live})
SectionAddr(s) ==
  IF s \in DOMAIN map /\ contribs[map[s]] \in live
  THEN [area |-> "section", at |-> Offset(map[s])] ELSE Null

(* sym_rva; a definition that was dropped stays at 0.                      *)
SymAddr(n) ==
  IF sym[n].imp # "no" THEN [area |-> sym[n].imp, at |-> sym[n].slot]
  ELSE IF sym[n].common = 2 THEN [area |-> "bss", at |-> sym[n].slot]
  ELSE SectionAddr([obj |-> sym[n].obj, name |-> n])

(* resolve_addrs: a weak symbol without definition takes its default's.    *)
FallsBack(g) ==
  /\ ~Defined(g) /\ g.weak
  /\ g.dflt # Nil /\ Defined(sym[g.dflt])
AddrOf(n) ==
  IF Defined(sym[n]) THEN SymAddr(n)
  ELSE IF FallsBack(sym[n]) THEN SymAddr(sym[n].dflt)
  ELSE Null
ResolveAddrs ==
  /\ phase = "address"
  /\ rva' = [n \in Name |-> AddrOf(n)]
  /\ phase' = "relocate"
  /\ UNCHANGED <<input, tables, sections, bound>>

OwnLive(o, n) == IF Own(o, n) \subseteq live THEN Own(o, n) ELSE {}

(* reloc_target_rva: the object's own section if it was placed, else the   *)
(* global symbol; a weak one without definition is an absolute value.      *)
Resolvable(o, n) ==
  OwnLive(o, n) # {} \/ Defined(sym[n]) \/ sym[n].weak
Target(o, n) ==
  IF OwnLive(o, n) # {}
  THEN [addr |-> SectionAddr([obj |-> o, name |-> n]), abs |-> FALSE]
  ELSE [addr |-> rva[n], abs |-> ~Defined(sym[n])]

Relocs == {[from |-> s, name |-> n] : s \in live, n \in Name}
LiveRelocs == {r \in Relocs : r.name \in RefsOf(r.from)}

(* apply_relocations; the first one that cannot be resolved fails the link.*)
Relocate ==
  /\ phase = "relocate"
  /\ IF \A r \in LiveRelocs : Resolvable(r.from.obj, r.name)
     THEN /\ bound' = [r \in LiveRelocs |-> Target(r.from.obj, r.name)]
          /\ phase' = "done"
     ELSE phase' = "failed" /\ UNCHANGED bound
  /\ UNCHANGED <<input, tables, sections, rva>>

Next ==
  \/ Load \/ Roots
  \/ ResolveImport \/ Pull \/ PullFails \/ ResolveEnd
  \/ Collect \/ GcStart \/ GcMark \/ GcEnd
  \/ Layout \/ ResolveAddrs \/ Relocate

Spec == Init /\ [][Next]_vars
FairSpec == Spec /\ WF_vars(Next)

-----------------------------------------------------------------------------
(* What the tables hold; only contributions are live, only live ones are   *)
(* on the worklist, and the index names every contribution (gc_sections,   *)
(* contrib_map_build).                                                     *)
TypeOK ==
  /\ input \in Inputs
  /\ phase \in {"load", "resolve", "collect", "gc", "mark", "layout",
               "address", "relocate", "done", "failed"}
  /\ objs \in Seq(Object)
  /\ Len(objs) <= Len(input.explicit) + Len(pulled)
  /\ order \in Seq(Name) /\ IsInjective(order)
  /\ \A n \in Name :
       /\ sym[n].obj \in 0..Len(objs) /\ sym[n].common \in 0..2
       /\ sym[n].imp \in {"no", "thunk", "iat"}
       /\ sym[n] # NewSym => Contains(order, n)
       /\ rva[n].area \in {"null", "section", "thunk", "iat", "bss"}
  /\ queue \subseteq live /\ live \subseteq ToSet(contribs)
  /\ DOMAIN map = ToSet(contribs)

LoadedBy(k, n, roles) == \E j \in 1..k : objs[j].role[n] \in roles
ImportsOf(n) == {i \in DOMAIN imports : n \in {imports[i].local, Imp[imports[i].local]}}

(* After k objects, somebody needs n and nobody has it.  One weak mention  *)
(* is enough to make every mention of an undefined name weak.              *)
Demanded(k, n) ==
  /\ ~LoadedBy(k, n, Global \cup {"common"})
  /\ \/ n \in {Entry} \cup input.force
     \/ LoadedBy(k, n, {"undef"}) /\ ~LoadedBy(k, n, {"weak"})

PulledOnce == IsInjective(pulled)
PulledOnDemand ==
  \A k \in DOMAIN pulled : \E n \in Name :
    /\ Demanded(Len(input.explicit) + k - 1, n)
    /\ MemberDefining(pulled[k].archive, n) = pulled[k].member
NothingMissed ==
  phase \notin {"load", "resolve", "failed"} =>
    \A n \in Name, a \in DOMAIN input.archives :
      Demanded(Len(objs), n) /\ ImportsOf(n) = {} /\ MemberDefining(a, n) # 0 =>
        \/ Member(a, n).kind = "orphan"
        \/ \E k \in DOMAIN pulled :
             pulled[k] = [archive |-> a, member |-> MemberDefining(a, n)]

(* resolve_fixpoint takes from the archives exactly what the link needs: a *)
(* member is loaded at most once, only when an object loaded before it     *)
(* needs a name of it, and no name is left that an archive could still     *)
(* answer for.                                                             *)
ArchivesExact == PulledOnce /\ PulledOnDemand /\ NothingMissed

(* The first object to define n in a section, unless an import came first. *)
GlobalDef(n) ==
  LET ds == {i \in DOMAIN objs : objs[i].role[n] \in Global}
      first == Min0(ds)
  IN IF ds = {} \/ \E i \in ImportsOf(n) : imports[i].before < first THEN {}
     ELSE {[obj |-> first, name |-> n]}
OwnDef(o, n) ==
  {s \in {[obj |-> o, name |-> n]} : HasSection(s) /\ ~Duplicate(s)}
Definition(o, n) == IF OwnDef(o, n) # {} THEN OwnDef(o, n) ELSE GlobalDef(n)

RootSections ==
  {s \in ToSet(contribs) : s.obj = 1 \/ s.name \in KeepNames} \cup
  UNION {GlobalDef(n) : n \in {Entry, TlsUsed} \cup input.force}
Closed(T) == \A s \in T : \A n \in RefsOf(s) : Definition(s.obj, n) \subseteq T

(* After gc_sections the live sections are the least set that holds the    *)
(* roots and the definition of every name a section in it relocates        *)
(* against: nothing needed is swept, nothing unneeded is kept.  A default  *)
(* of a weak name is not followed.                                         *)
LiveExact ==
  phase = "layout" /\ input.gc =>
    /\ RootSections \subseteq live
    /\ Closed(live)
    /\ \A T \in SUBSET live : RootSections \subseteq T /\ Closed(T) => T = live

Place(s) == [area |-> "section", at |-> Offset(IndexOf(contribs, s))]

(* A defined name that was then imported, by an unresolved __imp_ name.    *)
Shadowed(n) == GlobalDef(n) # {} /\ ImportsOf(n) # {}
HasDefault(n) == sym[n].dflt # Nil

(* What n, used in object o, was written to mean: the object's own         *)
(* section, the first definition loaded, the import, the tentative         *)
(* definition, or null if it is weak.                                      *)
MeansSection(o, n, b) ==
  /\ Definition(o, n) # {}
  /\ OwnDef(o, n) # {} \/ ~Shadowed(n)
  /\ \E s \in Definition(o, n) : s \in live /\ b = [addr |-> Place(s), abs |-> FALSE]
MeansImport(n, b) ==
  /\ ImportsOf(n) # {}
  /\ \E i \in ImportsOf(n) :
       b = [addr |-> [area |-> IF n = imports[i].local THEN "thunk" ELSE "iat", at |-> i],
            abs |-> FALSE]
MeansCommon(n, b) ==
  LoadedBy(Len(objs), n, {"common"}) /\ b.addr.area = "bss" /\ ~b.abs
MeansNull(n, b) ==
  LoadedBy(Len(objs), n, {"weak"}) /\ (b = [addr |-> Null, abs |-> TRUE] \/ HasDefault(n))
Undefined(o, n) ==
  /\ Definition(o, n) = {} /\ ImportsOf(n) = {}
  /\ ~LoadedBy(Len(objs), n, {"common", "weak"})

(* In a finished link every relocation of every live section is patched    *)
(* with the place of what its name means, across the sort of the sections, *)
(* the sweep and the folding; two tentative definitions never share a      *)
(* slot.  A link that fails after loading has a live relocation whose name *)
(* nothing defines (reloc_target_rva, apply_relocations).                  *)
BindsAsWritten ==
  /\ phase = "done" =>
       /\ DOMAIN bound = LiveRelocs
       /\ \A r \in LiveRelocs : LET o == r.from.obj  n == r.name  b == bound[r] IN
            IF Definition(o, n) # {} /\ ~(OwnDef(o, n) = {} /\ Shadowed(n))
            THEN MeansSection(o, n, b)
            ELSE IF ImportsOf(n) # {} THEN MeansImport(n, b)
            ELSE MeansCommon(n, b) \/ MeansNull(n, b)
       /\ \A r, q \in LiveRelocs :
            bound[r].addr = bound[q].addr /\ bound[r].addr.area = "bss" => 
              r.name = q.name \/ HasDefault(r.name) \/ HasDefault(q.name)
  /\ phase = "failed" /\ contribs # <<>> =>
       \E r \in LiveRelocs : Undefined(r.from.obj, r.name)

(* Every link ends: the fixpoint over the archives and the marking stop,   *)
(* though members may need each other and sections may refer in circles.   *)
LinkEnds == <>(phase \in {"done", "failed"})
=============================================================================
