---------------------------- MODULE LinkerProofs ----------------------------
(* Proofs about Linker, for any objects, archives and symbol names: what   *)
(* resolve_fixpoint pulls, what gc_sections keeps and what every           *)
(* relocation is patched with.                                             *)
EXTENDS Linker, SequenceTheorems, FiniteSetTheorems, TLAPS

(* What each table holds.                                                  *)
SymType == [obj : Nat, imp : {"no", "thunk", "iat"}, slot : Nat, common : 0..2,
            weak : BOOLEAN, dflt : Name \cup {Nil}, forced : BOOLEAN]
Types ==
  /\ input \in Inputs
  /\ phase \in {"load", "resolve", "collect", "gc", "mark", "layout",
               "address", "relocate", "done", "failed"}
  /\ objs \in Seq(Object) /\ pulled \in Seq([archive : Nat, member : Nat])
  /\ imports \in Seq([local : DOMAIN Imp, before : Nat])
  /\ order \in Seq(Name) /\ IsInjective(order)
  /\ sym \in [Name -> SymType]

(* The objects are the explicit ones and the members pulled.               *)
Counts ==
  /\ Len(objs) <= Len(input.explicit) + Len(pulled)
  /\ phase = "load" => pulled = <<>> /\ imports = <<>>
  /\ phase \notin {"load", "failed"} \/ pulled # <<>> =>
       Len(objs) = Len(input.explicit) + Len(pulled)
  /\ \A i \in DOMAIN imports : imports[i].before <= Len(objs)

RootNames == {Entry} \cup input.force

(* A name is bound to the first object that defines it, unless it was      *)
(* imported before that object was loaded.                                 *)
ObjIsFirst(n) ==
  IF sym[n].obj = 0
  THEN ~LoadedBy(Len(objs), n, Global)
       \/ \E i \in ImportsOf(n) : ~LoadedBy(imports[i].before, n, Global)
  ELSE /\ sym[n].obj \in DOMAIN objs /\ objs[sym[n].obj].role[n] \in Global
       /\ ~LoadedBy(sym[n].obj - 1, n, Global)
       /\ \A i \in ImportsOf(n) : sym[n].obj <= imports[i].before

(* The mark of an import, and the slot the last import of the name took.   *)
ImpIsLast(n) ==
  IF sym[n].imp = "no" THEN ImportsOf(n) = {}
  ELSE /\ sym[n].slot \in ImportsOf(n)
       /\ sym[n].imp = IF n = imports[sym[n].slot].local THEN "thunk" ELSE "iat"

(* What is noted of a tentative and of a weak mention.                     *)
CommonNoted(n) ==
  /\ sym[n].common # 0 => LoadedBy(Len(objs), n, {"common"})
  /\ sym[n].common = 0 => Defined(sym[n]) \/ ~LoadedBy(Len(objs), n, {"common"})
  /\ sym[n].common = 2 => /\ sym[n].obj = 0 /\ sym[n].imp = "no"
                          /\ phase \in {"address", "relocate", "done", "failed"}
WeakNoted(n) ==
  IF sym[n].weak THEN LoadedBy(Len(objs), n, {"weak"})
  ELSE Defined(sym[n]) \/ ~LoadedBy(Len(objs), n, {"weak"})
ForcedNoted(n) ==
  /\ phase = "load" => ~sym[n].forced
  /\ phase \notin {"load", "failed"} => (sym[n].forced <=> n \in RootNames)

(* The symbol table holds the names somebody mentioned, and no other.      *)
Interned(n) ==
  /\ LoadedBy(Len(objs), n, Role \ {"none", "static"}) => n \in ToSet(order)
  /\ phase \notin {"load", "failed"} /\ n \in RootNames => n \in ToSet(order)
  /\ n \in ToSet(order) => \/ LoadedBy(Len(objs), n, Role \ {"none", "static"})
                           \/ phase # "load" /\ n \in RootNames
                           \/ ImportsOf(n) # {}
  /\ sym[n] # NewSym => n \in ToSet(order)

SymOK ==
  \A n \in Name :
    /\ ObjIsFirst(n) /\ ImpIsLast(n)
    /\ CommonNoted(n) /\ WeakNoted(n) /\ ForcedNoted(n) /\ Interned(n)

Kept == {s \in Section : HasSection(s) /\ ~Duplicate(s)}
Collected == phase \in {"gc", "mark", "layout", "address", "relocate", "done"}
             \/ (phase = "failed" /\ contribs # <<>>)
Swept == Collected /\ phase \notin {"gc", "mark"}

(* The contributions are the kept sections, each once, and the index is    *)
(* that of the contributions as they stand.                                *)
Laid ==
  /\ Collected =>
       /\ ToSet(contribs) = Kept /\ DOMAIN contribs = 1..Cardinality(Kept)
       /\ IsInjective(contribs) /\ map = MapOf(contribs)
  /\ ~Collected => contribs = <<>> /\ DOMAIN map = {} /\ live = {} /\ queue = {}

(* While sections are marked, those off the worklist have marked what they *)
(* refer to, and whatever holds the roots and is closed holds the live.    *)
Marking ==
  /\ phase = "gc" => live = Kept
  /\ queue \subseteq live /\ live \subseteq Kept
  /\ phase = "mark" =>
       /\ input.gc /\ RootSections \subseteq live
       /\ \A s \in live \ queue : \A n \in RefsOf(s) : Definition(s.obj, n) \subseteq live
       /\ \A T \in SUBSET Kept : RootSections \subseteq T /\ Closed(T) => live \subseteq T
  /\ Swept => Closed(live)

(* After the layout no tentative definition is left without a slot of its  *)
(* own, and each later pass has computed its table from the one before.    *)
Bound ==
  /\ Swept /\ phase # "layout" =>
       /\ \A n \in Name : sym[n].common = 1 => Defined(sym[n])
       /\ \A m, n \in Name :
            sym[m].common = 2 /\ sym[n].common = 2 /\ sym[m].slot = sym[n].slot => m = n
  /\ phase \in {"relocate", "done"} => rva = [n \in Name |-> AddrOf(n)]
  /\ phase = "done" =>
       /\ \A r \in LiveRelocs : Resolvable(r.from.obj, r.name)
       /\ bound = [r \in LiveRelocs |-> Target(r.from.obj, r.name)]
  /\ phase = "failed" /\ contribs # <<>> =>
       \E r \in LiveRelocs : ~Resolvable(r.from.obj, r.name)

IndInv ==
  /\ Types /\ Counts /\ SymOK /\ Laid /\ Marking /\ Bound
  /\ PulledOnce /\ PulledOnDemand /\ NothingMissed /\ LiveExact

-----------------------------------------------------------------------------
(* Least elements, and finite sets in an order.                            *)

(* A non-empty set of naturals has a least one, which Min0 picks.          *)
LEMMA Min0IsLeast ==
  ASSUME NEW T \in SUBSET Nat, T # {}
  PROVE  Min0(T) \in T /\ \A y \in T : Min0(T) <= y
<1>1. PICK n \in T : TRUE
  OBVIOUS
<1> DEFINE U == T \cap (0..n)
           Family == {0..x : x \in U}
<1>2. Family \subseteq FiniteSubsetsOf(0..n) /\ Family # {}
  <2>1. ASSUME NEW x \in U PROVE 0..x \in SUBSET (0..n) /\ IsFiniteSet(0..x)
    BY FS_Interval
  <2>2. n \in U
    BY <1>1
  <2> QED
    BY <2>1, <2>2 DEF FiniteSubsetsOf
<1>3. \E D \in Family : \A E \in Family : <<E, D>> \notin StrictSubsetOrdering(0..n)
  <2> HIDE DEF Family
  <2>1. IsWellFoundedOn(StrictSubsetOrdering(0..n), FiniteSubsetsOf(0..n))
    <3>1. IsFiniteSet(0..n)
      BY FS_Interval
    <3> QED
      BY <3>1, FS_StrictSubsetOrderingWellFounded
  <2> QED
    BY <1>2, <2>1, WFMin, Zenon
<1>4. PICK x \in U : \A y \in U : <<0..y, 0..x>> \notin StrictSubsetOrdering(0..n)
  BY <1>3, Zenon
<1>5. ASSUME NEW y \in T, y < x PROVE FALSE
  <2>1. y \in U /\ 0..y \subseteq 0..x /\ 0..x \subseteq 0..n /\ x \in 0..x /\ x \notin 0..y
    BY <1>5
  <2>2. 0..y # 0..x /\ 0..y \in SUBSET (0..n) /\ 0..x \in SUBSET (0..n)
    BY <2>1
  <2>3. <<0..y, 0..x>> \in StrictSubsetOrdering(0..n)
    BY <2>1, <2>2 DEF StrictSubsetOrdering
  <2> QED
    BY <1>4, <2>1, <2>3
<1>6. x \in T /\ \A y \in T : x <= y
  BY <1>5
<1> QED
  BY <1>6 DEF Min0

(* A function on 1..n is a sequence.                                       *)
LEMMA IsASeqFn ==
  ASSUME NEW n \in Nat, NEW S, NEW f \in [1..n -> S]
  PROVE  f \in Seq(S) /\ Len(f) = n
  OBVIOUS

(* q lists each element of S once.                                         *)
Lists(q, S) ==
  /\ q \in Seq(S) /\ Len(q) = Cardinality(S) /\ DOMAIN q = 1..Cardinality(S)
  /\ IsInjective(q) /\ ToSet(q) = S

(* Of the elements of S, below[s] come before s in some order, and q has   *)
(* at a place an element that as many come before as the place says.       *)
Numbered(S, below, q) ==
  /\ IsFiniteSet(S) /\ below \in [S -> SUBSET S]
  /\ \A x \in S : x \notin below[x]
  /\ \A x, y \in S : x \in below[y] => below[x] \subseteq below[y]
  /\ \A x, y \in S : x # y => x \in below[y] \/ y \in below[x]
  /\ \E T : q \in [1..Cardinality(S) -> T]
  /\ \A i \in 1..Cardinality(S) :
       (\E s \in S : Cardinality(below[s]) = i - 1)
       => q[i] \in S /\ Cardinality(below[q[i]]) = i - 1

(* Sorted lists each element of a finite set once.                         *)
LEMMA SortedLists ==
  ASSUME NEW S, NEW below, NEW q, Numbered(S, below, q)
  PROVE  Lists(q, S)
<1> USE DEF Numbered
<1> DEFINE n == Cardinality(S)
           rank == [s \in S |-> Cardinality(below[s]) + 1]
<1>1. n \in Nat
  BY FS_CardinalityType
<1>2. ASSUME NEW s \in S PROVE IsFiniteSet(below[s]) /\ Cardinality(below[s]) \in 0..(n - 1)
  <2>1. below[s] \in SUBSET S /\ below[s] # S
    OBVIOUS
  <2>2. IsFiniteSet(below[s]) /\ Cardinality(below[s]) <= n /\ (n = Cardinality(below[s]) => S = below[s])
    BY <2>1, FS_Subset
  <2>3. Cardinality(below[s]) \in Nat
    BY <2>2, FS_CardinalityType
  <2> QED
    BY <1>1, <2>1, <2>2, <2>3
<1>3. ASSUME NEW s \in S, NEW u \in S, s \in below[u]
      PROVE  Cardinality(below[s]) < Cardinality(below[u])
  <2>1. below[s] \in SUBSET below[u] /\ s \notin below[s]
    BY <1>3
  <2>2. Cardinality(below[s]) <= Cardinality(below[u])
        /\ (Cardinality(below[u]) = Cardinality(below[s]) => below[u] = below[s])
    BY <1>2, <2>1, FS_Subset
  <2>3. Cardinality(below[s]) \in Nat /\ Cardinality(below[u]) \in Nat
    BY <1>1, <1>2
  <2> QED
    BY <1>3, <2>1, <2>2, <2>3
<1>4. ASSUME NEW s \in S, NEW u \in S, Cardinality(below[s]) = Cardinality(below[u])
      PROVE  s = u
  <2>1. Cardinality(below[s]) \in Nat /\ Cardinality(below[u]) \in Nat
    BY <1>1, <1>2
  <2>2. s \notin below[u] /\ u \notin below[s]
    BY <1>3, <1>4, <2>1
  <2> QED
    BY <2>2
<1> HIDE DEF n
<1>5. rank \in Injection(S, 1..n)
  <2>1. rank \in [S -> 1..n]
    BY <1>1, <1>2
  <2>2. ASSUME NEW s \in S, NEW u \in S, rank[s] = rank[u] PROVE s = u
    <3>1. Cardinality(below[s]) \in Nat /\ Cardinality(below[u]) \in Nat
      BY <1>1, <1>2
    <3> QED
      BY <1>4, <2>2, <3>1
  <2> QED
    BY <2>1, <2>2 DEF Injection, IsInjective
<1>z. PICK T : q \in [1..n -> T]
  BY DEF n
<1>6. rank \in Surjection(S, 1..n)
  <2>1. IsFiniteSet(1..n) /\ Cardinality(1..n) = n
    BY ONLY <1>1, FS_Interval
  <2> HIDE DEF rank
  <2> QED
    BY <1>5, <2>1, FS_Injection DEF n
<1>7. ASSUME NEW i \in 1..n PROVE \E s \in S : Cardinality(below[s]) = i - 1
  <2>1. PICK s \in S : rank[s] = i
    BY <1>6, <1>7 DEF Surjection
  <2>2. Cardinality(below[s]) \in Nat /\ Cardinality(below[s]) + 1 = i
    BY <1>1, <1>2, <2>1
  <2> QED
    BY <2>2
<1>8. ASSUME NEW i \in 1..n PROVE q[i] \in S /\ Cardinality(below[q[i]]) = i - 1
  BY <1>7 DEF n
<1>9. q \in [1..n -> S] /\ DOMAIN q = 1..n
  BY <1>8 DEF n
<1>10. q \in Seq(S) /\ Len(q) = n
  BY <1>1, <1>9, IsASeqFn
<1>11. IsInjective(q)
  <2>1. ASSUME NEW i \in 1..n, NEW j \in 1..n, q[i] = q[j] PROVE i = j
    <3>1. i - 1 = j - 1
      BY <1>8, <2>1
    <3> QED
      BY <1>1, <3>1
  <2> QED
    BY <1>9, <2>1 DEF IsInjective
<1>12. ASSUME NEW s \in S PROVE s \in ToSet(q)
  <2>1. PICK k \in 0..(n - 1) : Cardinality(below[s]) = k
    BY <1>2
  <2>2. k + 1 \in 1..n /\ (k + 1) - 1 = k
    BY <1>1
  <2>3. q[k + 1] \in S /\ Cardinality(below[q[k + 1]]) = k
    BY <1>8, <2>2
  <2>4. q[k + 1] = s
    BY <1>4, <2>1, <2>3
  <2> QED
    BY <1>9, <2>2, <2>4 DEF ToSet
<1>13. ToSet(q) = S
  <2>1. ASSUME NEW x \in ToSet(q) PROVE x \in S
    <3>1. PICK i \in 1..n : x = q[i]
      BY <1>9 DEF ToSet
    <3> QED
      BY <1>8, <3>1
  <2> QED
    BY <1>12, <2>1
<1> QED
  BY <1>9, <1>10, <1>11, <1>13 DEF n, Lists

(* A name's place in the symbol tables is a number of its own.             *)
LEMMA NameAt ==
  /\ IsFiniteSet(Name)
  /\ \A n \in Name : IndexOf(NameSeq, n) \in Nat
  /\ \A m, n \in Name : IndexOf(NameSeq, m) = IndexOf(NameSeq, n) => m = n
<1>1. NameSeq \in Seq(Name) /\ DOMAIN NameSeq = 1..Len(NameSeq) /\ Len(NameSeq) \in Nat
  BY LinkerAssumption, LenProperties
<1>2. ASSUME NEW n \in Name
      PROVE  IndexOf(NameSeq, n) \in DOMAIN NameSeq /\ NameSeq[IndexOf(NameSeq, n)] = n
  BY DEF Name, ToSet, IndexOf
<1>3. IsFiniteSet(Name)
  <2>1. NameSeq \in [1..Len(NameSeq) -> Name]
    BY <1>1, LenProperties
  <2>2. NameSeq \in Surjection(1..Len(NameSeq), Name)
    BY <1>1, <2>1 DEF Surjection, Name, ToSet
  <2>3. IsFiniteSet(1..Len(NameSeq))
    BY <1>1, FS_Interval
  <2> QED
    BY <2>2, <2>3, FS_Surjection
<1> QED
  BY <1>1, <1>2, <1>3

(* The names listed for a symbol table are those asked for.                *)
LEMMA SortedNames ==
  ASSUME NEW S \in SUBSET Name
  PROVE  Lists(Sorted(S, NamedBefore), S)
<1> DEFINE below == [s \in S |-> {t \in S : NamedBefore(t, s)}]
           place(i) == CHOOSE s \in S : Cardinality({t \in S : NamedBefore(t, s)}) = i - 1
           q == Sorted(S, NamedBefore)
<1>1. IsFiniteSet(S)
  BY NameAt, FS_Subset
<1>2. \A x, y \in S : IndexOf(NameSeq, x) \in Nat
                      /\ (IndexOf(NameSeq, x) = IndexOf(NameSeq, y) => x = y)
  BY NameAt
<1>3. below \in [S -> SUBSET S] /\ \A s \in S : below[s] = {t \in S : NamedBefore(t, s)}
  OBVIOUS
<1>4. q = [i \in 1..Cardinality(S) |-> place(i)]
  BY DEF Sorted
<1> HIDE DEF below, place, q
<1>5. /\ \A x \in S : x \notin below[x]
      /\ \A x, y \in S : x \in below[y] => below[x] \subseteq below[y]
      /\ \A x, y \in S : x # y => x \in below[y] \/ y \in below[x]
  BY <1>2, <1>3 DEF NamedBefore
<1>6. q \in [1..Cardinality(S) -> {place(i) : i \in 1..Cardinality(S)}]
  BY <1>4
<1>7. ASSUME NEW i \in 1..Cardinality(S), \E s \in S : Cardinality(below[s]) = i - 1
      PROVE  q[i] \in S /\ Cardinality(below[q[i]]) = i - 1
  <2>1. \E s \in S : Cardinality({t \in S : NamedBefore(t, s)}) = i - 1
    BY <1>3, <1>7
  <2>2. place(i) \in S /\ Cardinality({t \in S : NamedBefore(t, place(i))}) = i - 1
    BY <2>1, Zenon DEF place
  <2> QED
    BY <1>3, <1>4, <2>2
<1>8. Numbered(S, below, q)
  BY <1>1, <1>3, <1>5, <1>6, <1>7 DEF Numbered
<1> QED
  BY <1>8, SortedLists DEF q

(* Sections of one object with one name are the same.                      *)
LEMMA SectionsDiffer ==
  \A s, t \in [obj : Nat, name : Name] : s.obj = t.obj /\ s.name = t.name => s = t
  OBVIOUS

(* Collecting lists each section once.                                     *)
LEMMA SortedByObject ==
  ASSUME NEW S \in SUBSET [obj : Nat, name : Name], IsFiniteSet(S)
  PROVE  Lists(Sorted(S, Earlier), S)
<1> DEFINE below == [s \in S |-> {t \in S : Earlier(t, s)}]
           place(i) == CHOOSE s \in S : Cardinality({t \in S : Earlier(t, s)}) = i - 1
           q == Sorted(S, Earlier)
<1>1. \A x, y \in S : Earlier(x, y) \/ Earlier(y, x) \/ x = y
  BY NameAt, SectionsDiffer DEF Earlier, NamedBefore
<1>2. /\ \A x \in S : ~Earlier(x, x)
      /\ \A x, y, z \in S : Earlier(x, y) /\ Earlier(y, z) => Earlier(x, z)
  BY NameAt DEF Earlier, NamedBefore
<1>3. below \in [S -> SUBSET S] /\ \A s \in S : below[s] = {t \in S : Earlier(t, s)}
  OBVIOUS
<1>4. q = [i \in 1..Cardinality(S) |-> place(i)]
  BY DEF Sorted
<1> HIDE DEF below, place, q
<1>5. /\ \A x \in S : x \notin below[x]
      /\ \A x, y \in S : x \in below[y] => below[x] \subseteq below[y]
      /\ \A x, y \in S : x # y => x \in below[y] \/ y \in below[x]
  BY <1>1, <1>2, <1>3
<1>6. q \in [1..Cardinality(S) -> {place(i) : i \in 1..Cardinality(S)}]
  BY <1>4
<1>7. ASSUME NEW i \in 1..Cardinality(S), \E s \in S : Cardinality(below[s]) = i - 1
      PROVE  q[i] \in S /\ Cardinality(below[q[i]]) = i - 1
  <2>1. \E s \in S : Cardinality({t \in S : Earlier(t, s)}) = i - 1
    BY <1>3, <1>7
  <2>2. place(i) \in S /\ Cardinality({t \in S : Earlier(t, place(i))}) = i - 1
    BY <2>1, Zenon DEF place
  <2> QED
    BY <1>3, <1>4, <2>2
<1>8. Numbered(S, below, q)
  BY <1>3, <1>5, <1>6, <1>7 DEF Numbered
<1> QED
  BY <1>8, SortedLists DEF q

(* So does the layout.                                                     *)
LEMMA SortedByKey ==
  ASSUME NEW S \in SUBSET [obj : Nat, name : Name], IsFiniteSet(S)
  PROVE  Lists(Sorted(S, Before), S)
<1> DEFINE below == [s \in S |-> {t \in S : Before(t, s)}]
           place(i) == CHOOSE s \in S : Cardinality({t \in S : Before(t, s)}) = i - 1
           q == Sorted(S, Before)
<1>1. \A x, y \in S : Before(x, y) \/ Before(y, x) \/ x = y
  BY NameAt, SectionsDiffer, LinkerAssumption DEF Before, Earlier, NamedBefore
<1>2. /\ \A x \in S : ~Before(x, x)
      /\ \A x, y, z \in S : Before(x, y) /\ Before(y, z) => Before(x, z)
  BY NameAt, LinkerAssumption DEF Before, Earlier, NamedBefore
<1>3. below \in [S -> SUBSET S] /\ \A s \in S : below[s] = {t \in S : Before(t, s)}
  OBVIOUS
<1>4. q = [i \in 1..Cardinality(S) |-> place(i)]
  BY DEF Sorted
<1> HIDE DEF below, place, q
<1>5. /\ \A x \in S : x \notin below[x]
      /\ \A x, y \in S : x \in below[y] => below[x] \subseteq below[y]
      /\ \A x, y \in S : x # y => x \in below[y] \/ y \in below[x]
  BY <1>1, <1>2, <1>3
<1>6. q \in [1..Cardinality(S) -> {place(i) : i \in 1..Cardinality(S)}]
  BY <1>4
<1>7. ASSUME NEW i \in 1..Cardinality(S), \E s \in S : Cardinality(below[s]) = i - 1
      PROVE  q[i] \in S /\ Cardinality(below[q[i]]) = i - 1
  <2>1. \E s \in S : Cardinality({t \in S : Before(t, s)}) = i - 1
    BY <1>3, <1>7
  <2>2. place(i) \in S /\ Cardinality({t \in S : Before(t, place(i))}) = i - 1
    BY <2>1, Zenon DEF place
  <2> QED
    BY <1>3, <1>4, <2>2
<1>8. Numbered(S, below, q)
  BY <1>3, <1>5, <1>6, <1>7 DEF Numbered
<1> QED
  BY <1>8, SortedLists DEF q

(* gsym_intern adds the names it is asked for, each once.                  *)
LEMMA InternKnows ==
  ASSUME NEW known \in Seq(Name), IsInjective(known), NEW S \in SUBSET Name
  PROVE  /\ Intern(known, S) \in Seq(Name) /\ IsInjective(Intern(known, S))
         /\ ToSet(Intern(known, S)) = ToSet(known) \cup S
<1> DEFINE new == Sorted(S \ ToSet(known), NamedBefore)
           q == known \o new
<1>1. new \in Seq(S \ ToSet(known)) /\ IsInjective(new) /\ ToSet(new) = S \ ToSet(known)
  <2>1. S \ ToSet(known) \in SUBSET Name
    OBVIOUS
  <2> QED
    BY <2>1, SortedNames DEF Lists
<1>2. Intern(known, S) = q
  BY DEF Intern
<1> HIDE DEF new
<1>3. new \in Seq(Name)
  BY <1>1
<1>4. /\ q \in Seq(Name) /\ Len(q) = Len(known) + Len(new) /\ DOMAIN q = 1..Len(q)
      /\ \A i \in 1..Len(q) : q[i] = IF i <= Len(known) THEN known[i] ELSE new[i - Len(known)]
  BY <1>3, ConcatProperties, LenProperties
<1>5. Len(known) \in Nat /\ Len(new) \in Nat
      /\ DOMAIN known = 1..Len(known) /\ DOMAIN new = 1..Len(new)
  BY <1>3, LenProperties
<1> HIDE DEF q
<1>6. \A i \in 1..Len(q) :
        IF i <= Len(known) THEN i \in DOMAIN known ELSE i - Len(known) \in DOMAIN new
  BY <1>4, <1>5
<1>7. \A i \in DOMAIN known : known[i] \in ToSet(known)
  BY DEF ToSet
<1>8. \A i \in DOMAIN new : new[i] \in S \ ToSet(known)
  BY <1>1 DEF ToSet
<1>9. IsInjective(q)
  <2> SUFFICES ASSUME NEW i \in 1..Len(q), NEW j \in 1..Len(q), q[i] = q[j] PROVE i = j
    BY <1>4 DEF IsInjective
  <2>1. CASE i <= Len(known) /\ j <= Len(known)
    BY <1>4, <1>6, <2>1 DEF IsInjective
  <2>2. CASE ~(i <= Len(known)) /\ ~(j <= Len(known))
    <3>1. i - Len(known) = j - Len(known)
      BY <1>1, <1>4, <1>6, <2>2 DEF IsInjective
    <3> QED
      BY <1>5, <3>1
  <2>3. CASE (i <= Len(known)) # (j <= Len(known))
    BY <1>4, <1>6, <1>7, <1>8, <2>3
  <2> QED
    BY <2>1, <2>2, <2>3
<1>10. ToSet(q) = ToSet(known) \cup S
  <2>1. ASSUME NEW n \in ToSet(q) PROVE n \in ToSet(known) \cup S
    <3>1. PICK i \in 1..Len(q) : n = q[i]
      BY <1>4 DEF ToSet
    <3> QED
      BY <1>4, <1>6, <1>7, <1>8, <3>1
  <2>2. ASSUME NEW n \in ToSet(known) PROVE n \in ToSet(q)
    <3>1. PICK i \in DOMAIN known : n = known[i]
      BY DEF ToSet
    <3>2. i \in 1..Len(q) /\ q[i] = n
      BY <1>4, <1>5, <3>1
    <3> QED
      BY <1>4, <3>2 DEF ToSet
  <2>3. ASSUME NEW n \in S \ ToSet(known) PROVE n \in ToSet(q)
    <3>1. PICK i \in DOMAIN new : n = new[i]
      BY <1>1 DEF ToSet
    <3>2. Len(known) + i \in 1..Len(q) /\ q[Len(known) + i] = n
      BY <1>4, <1>5, <3>1
    <3> QED
      BY <1>4, <3>2 DEF ToSet
  <2> QED
    BY <2>1, <2>2, <2>3
<1> QED
  BY <1>2, <1>4, <1>9, <1>10

-----------------------------------------------------------------------------
(* Loading: what one more object changes.                                  *)

(* What an object says of a name.                                          *)
LEMMA ObjectFields ==
  ASSUME NEW o \in Object, NEW n \in Name
  PROVE  o.role[n] \in Role /\ o.refs[n] \in SUBSET Name /\ o.dflt[n] \in Name \cup {Nil}
  BY DEF Object

(* What the linker is called with.                                         *)
LEMMA InputFields ==
  ASSUME Types
  PROVE  /\ input.explicit \in Seq(Object) /\ Len(input.explicit) \in Nat
         /\ input.archives \in Seq(Archive)
         /\ input.force \in SUBSET Name /\ input.gc \in BOOLEAN
         /\ Entry \in Name /\ TlsUsed \in Name /\ KeepNames \in SUBSET Name
         /\ RootNames \in SUBSET Name
  BY LinkerAssumption DEF Types, Input, RootNames

(* The tables are sequences.                                               *)
LEMMA Lengths ==
  ASSUME Types
  PROVE  /\ Len(objs) \in Nat /\ DOMAIN objs = 1..Len(objs)
         /\ Len(pulled) \in Nat /\ DOMAIN pulled = 1..Len(pulled)
         /\ Len(imports) \in Nat /\ DOMAIN imports = 1..Len(imports)
         /\ Len(order) \in Nat /\ DOMAIN order = 1..Len(order)
         /\ \A i \in DOMAIN objs : objs[i] \in Object
         /\ \A i \in DOMAIN imports : imports[i].local \in DOMAIN Imp /\ imports[i].before \in Nat
<1>1. /\ objs \in Seq(Object) /\ pulled \in Seq([archive : Nat, member : Nat])
      /\ imports \in Seq([local : DOMAIN Imp, before : Nat]) /\ order \in Seq(Name)
  BY DEF Types
<1>2. /\ Len(objs) \in Nat /\ DOMAIN objs = 1..Len(objs)
      /\ Len(pulled) \in Nat /\ DOMAIN pulled = 1..Len(pulled)
      /\ Len(imports) \in Nat /\ DOMAIN imports = 1..Len(imports)
      /\ Len(order) \in Nat /\ DOMAIN order = 1..Len(order)
  BY <1>1, LenProperties
<1>3. \A i \in DOMAIN imports : imports[i] \in [local : DOMAIN Imp, before : Nat]
  BY <1>1, <1>2, ElementOfSeq
<1> QED
  BY <1>1, <1>2, <1>3

(* load_object_syms, field by field.                                       *)
LEMMA RegisterFields ==
  ASSUME Types, NEW o \in Object, AddObject(o), NEW n \in Name
  PROVE  /\ sym'[n] \in SymType
         /\ Defined(sym[n]) => sym'[n] = sym[n]
         /\ sym'[n].imp = sym[n].imp /\ sym'[n].slot = sym[n].slot
         /\ sym'[n].forced = sym[n].forced
         /\ ~Defined(sym[n]) =>
              /\ sym'[n].obj = IF o.role[n] \in Global THEN Len(objs) + 1 ELSE sym[n].obj
              /\ sym'[n].common = IF o.role[n] = "common" THEN 1 ELSE sym[n].common
              /\ sym'[n].weak = IF o.role[n] \in Global THEN FALSE
                                ELSE IF o.role[n] = "weak" THEN TRUE ELSE sym[n].weak
         /\ o.role[n] \in {"none", "static", "undef"} => sym'[n] = sym[n]
<1>1. sym[n] \in SymType /\ Len(objs) + 1 \in Nat
  BY Lengths DEF Types
<1>2. sym'[n] = Register(sym[n], o, Len(objs) + 1, n)
  BY DEF AddObject
<1>3. o.dflt[n] \in Name \cup {Nil}
  BY ObjectFields
<1>4. CASE Defined(sym[n])
  BY <1>1, <1>2, <1>4 DEF Register
<1>5. CASE ~Defined(sym[n]) /\ o.role[n] \in Global
  BY <1>1, <1>2, <1>5 DEF Register, Global, SymType
<1>6. CASE ~Defined(sym[n]) /\ o.role[n] = "common"
  BY <1>1, <1>2, <1>6 DEF Register, Global, SymType
<1>7. CASE ~Defined(sym[n]) /\ o.role[n] = "weak"
  <2>1. sym'[n] = [sym[n] EXCEPT !.weak = TRUE, !.dflt = o.dflt[n]]
    BY <1>2, <1>7 DEF Register, Global
  <2>2. ASSUME NEW g \in SymType, NEW d \in Name \cup {Nil}
        PROVE  [g EXCEPT !.weak = TRUE, !.dflt = d] \in SymType
    BY DEF SymType
  <2>3. sym'[n] \in SymType
    BY <1>1, <1>3, <2>1, <2>2
  <2>4. /\ sym'[n].imp = sym[n].imp /\ sym'[n].slot = sym[n].slot
        /\ sym'[n].forced = sym[n].forced /\ sym'[n].obj = sym[n].obj
        /\ sym'[n].common = sym[n].common /\ sym'[n].weak = TRUE
    BY <1>1, <2>1 DEF SymType
  <2> QED
    BY <1>7, <2>3, <2>4 DEF Global
<1>8. CASE ~Defined(sym[n]) /\ o.role[n] \notin Global \cup {"common", "weak"}
  BY <1>1, <1>2, <1>8 DEF Register, Global
<1> QED
  BY <1>4, <1>5, <1>6, <1>7, <1>8

(* The object comes last, and the table keeps its type.                    *)
LEMMA ObjectAdded ==
  ASSUME Types, NEW o \in Object, AddObject(o)
  PROVE  /\ objs' \in Seq(Object) /\ Len(objs') = Len(objs) + 1
         /\ \A i \in 1..Len(objs) : objs'[i] = objs[i]
         /\ objs'[Len(objs) + 1] = o
         /\ sym' \in [Name -> SymType]
         /\ order' \in Seq(Name) /\ IsInjective(order')
         /\ ToSet(order') = ToSet(order) \cup Externals(o)
<1>1. objs \in Seq(Object) /\ objs' = Append(objs, o)
  BY DEF Types, AddObject
<1>2. /\ objs' \in Seq(Object) /\ Len(objs') = Len(objs) + 1
      /\ \A i \in 1..Len(objs) : objs'[i] = objs[i]
      /\ objs'[Len(objs) + 1] = o
  BY <1>1, AppendProperties
<1>3. sym' \in [Name -> SymType]
  <2>1. sym' = [n \in Name |-> Register(sym[n], o, Len(objs) + 1, n)]
    BY DEF AddObject
  <2>2. sym' = [n \in Name |-> sym'[n]]
    BY <2>1
  <2>3. \A n \in Name : sym'[n] \in SymType
    BY RegisterFields
  <2> QED
    BY <2>2, <2>3
<1>4. order \in Seq(Name) /\ IsInjective(order) /\ Externals(o) \in SUBSET Name
  BY DEF Types, Externals
<1>5. order' = Intern(order, Externals(o))
  BY DEF AddObject
<1> QED
  BY <1>2, <1>3, <1>4, <1>5, InternKnows

(* Who says what of a name, with one object more.                          *)
LEMMA LoadedMore ==
  ASSUME Types, NEW o \in Object, AddObject(o), NEW n \in Name, NEW roles
  PROVE  /\ LoadedBy(Len(objs), n, roles)' <=> (LoadedBy(Len(objs), n, roles) \/ o.role[n] \in roles)
         /\ \A k \in 0..Len(objs) :
              (\E j \in 1..k : objs'[j].role[n] \in roles) <=> LoadedBy(k, n, roles)
<1>1. /\ Len(objs') = Len(objs) + 1 /\ Len(objs) \in Nat
      /\ \A i \in 1..Len(objs) : objs'[i] = objs[i]
      /\ objs'[Len(objs) + 1] = o
  BY ObjectAdded, Lengths
<1>2. LoadedBy(Len(objs), n, roles)' <=> \E j \in 1..(Len(objs) + 1) : objs'[j].role[n] \in roles
  BY <1>1 DEF LoadedBy
<1>3. (\E j \in 1..(Len(objs) + 1) : objs'[j].role[n] \in roles)
      <=> (LoadedBy(Len(objs), n, roles) \/ o.role[n] \in roles)
  BY <1>1 DEF LoadedBy
<1>4. ASSUME NEW k \in 0..Len(objs)
      PROVE  (\E j \in 1..k : objs'[j].role[n] \in roles) <=> LoadedBy(k, n, roles)
  BY <1>1 DEF LoadedBy
<1> QED
  BY <1>2, <1>3, <1>4

(* Loading an object keeps what the symbol table says.                     *)
LEMMA LoadKeepsSym ==
  ASSUME Types, Counts, SymOK, NEW o \in Object, AddObject(o), phase \in {"load", "resolve"},
         UNCHANGED <<input, phase, imports>>
  PROVE  SymOK'
<1> SUFFICES ASSUME NEW n \in Name
             PROVE  /\ ObjIsFirst(n)' /\ ImpIsLast(n)'
                    /\ CommonNoted(n)' /\ WeakNoted(n)' /\ ForcedNoted(n)' /\ Interned(n)'
  BY DEF SymOK
<1>0. /\ ObjIsFirst(n) /\ ImpIsLast(n)
      /\ CommonNoted(n) /\ WeakNoted(n) /\ ForcedNoted(n) /\ Interned(n)
  BY DEF SymOK
<1> DEFINE l == Len(objs)
           r == o.role[n]
           g == sym[n]
           h == sym'[n]
<1>1. l \in Nat /\ l + 1 \in Nat /\ l + 1 # 0 /\ DOMAIN objs = 1..l /\ r \in Role
  BY Lengths, ObjectFields
<1>2. /\ Len(objs') = l + 1 /\ DOMAIN objs' = 1..(l + 1)
      /\ \A i \in 1..l : objs'[i] = objs[i]
      /\ objs'[l + 1] = o
  <2>1. objs' \in Seq(Object)
    BY ObjectAdded
  <2> QED
    BY <2>1, ObjectAdded, LenProperties
<1>3. \A roles : LoadedBy(Len(objs), n, roles)' <=> (LoadedBy(l, n, roles) \/ r \in roles)
  BY LoadedMore
<1>4. ImportsOf(n)' = ImportsOf(n) /\ imports' = imports
  BY DEF ImportsOf
<1>4a. \A i \in ImportsOf(n) : imports[i].before \in 0..l
  <2>1. \A i \in DOMAIN imports : imports[i].before <= Len(objs)
    BY DEF Counts
  <2>2. \A i \in DOMAIN imports : imports[i].before \in Nat
    BY Lengths
  <2> QED
    BY <1>1, <2>1, <2>2 DEF ImportsOf
<1>5. g \in SymType /\ h \in SymType /\ g.common # 2
  BY <1>0, RegisterFields DEF Types, CommonNoted
<1>6. /\ Defined(g) => h = g
      /\ h.imp = g.imp /\ h.slot = g.slot /\ h.forced = g.forced
      /\ ~Defined(g) =>
           /\ h.obj = IF r \in Global THEN l + 1 ELSE g.obj
           /\ h.common = IF r = "common" THEN 1 ELSE g.common
           /\ h.weak = IF r \in Global THEN FALSE ELSE IF r = "weak" THEN TRUE ELSE g.weak
      /\ r \in {"none", "static", "undef"} => h = g
  BY RegisterFields
<1>7. Defined(g) <=> g.obj # 0 \/ g.imp # "no"
  BY <1>5 DEF Defined
<1>8. \A k \in 0..l : (\E j \in 1..k : objs'[j].role[n] \in Global) <=> LoadedBy(k, n, Global)
  BY LoadedMore
<1> HIDE DEF l, r, g, h
<1>10. ObjIsFirst(n)'
  <2>1. CASE g.obj # 0
    <3>1. h = g /\ g.obj \in 1..l /\ g.obj - 1 \in 0..l
      BY <1>0, <1>1, <1>6, <1>7, <2>1 DEF ObjIsFirst, g
    <3>2. ~LoadedBy(g.obj - 1, n, Global) /\ objs[g.obj].role[n] \in Global
          /\ \A i \in ImportsOf(n) : g.obj <= imports[i].before
      BY <1>0, <2>1 DEF ObjIsFirst, g
    <3>3. ~\E j \in 1..(g.obj - 1) : objs'[j].role[n] \in Global
      BY <1>8, <3>1, <3>2
    <3>4. g.obj \in DOMAIN objs' /\ objs'[g.obj].role[n] \in Global
      BY <1>1, <1>2, <3>1, <3>2
    <3> QED
      BY <1>4, <2>1, <3>1, <3>2, <3>3, <3>4 DEF ObjIsFirst, LoadedBy, g, h
  <2>2. CASE g.obj = 0 /\ g.imp # "no"
    <3>1. PICK i \in ImportsOf(n) : ~LoadedBy(imports[i].before, n, Global)
      <4>1. ImportsOf(n) # {}
        BY <1>0, <2>2 DEF ImpIsLast, g
      <4>2. ~LoadedBy(l, n, Global) => \A k \in 0..l : ~LoadedBy(k, n, Global)
        BY <1>1 DEF LoadedBy
      <4> QED
        BY <1>0, <1>4a, <2>2, <4>1, <4>2 DEF ObjIsFirst, g, l
    <3>2. ~\E j \in 1..imports[i].before : objs'[j].role[n] \in Global
      BY <1>4a, <1>8, <3>1
    <3>3. h.obj = 0
      BY <1>6, <1>7, <2>2
    <3> QED
      BY <1>4, <3>2, <3>3 DEF ObjIsFirst, LoadedBy, h
  <2>3. CASE g.obj = 0 /\ g.imp = "no" /\ r \in Global
    <3>1. ImportsOf(n) = {} /\ ~LoadedBy(l, n, Global)
      BY <1>0, <2>3 DEF ObjIsFirst, ImpIsLast, g, l
    <3>2. h.obj = l + 1 /\ h.obj # 0 /\ h.obj - 1 = l
      BY <1>1, <1>6, <1>7, <2>3
    <3>3. ~\E j \in 1..(h.obj - 1) : objs'[j].role[n] \in Global
      BY <1>1, <1>8, <3>1, <3>2
    <3>4. h.obj \in DOMAIN objs' /\ objs'[h.obj].role[n] \in Global
      BY <1>1, <1>2, <2>3, <3>2 DEF r
    <3> QED
      BY <1>4, <3>1, <3>2, <3>3, <3>4 DEF ObjIsFirst, LoadedBy, h
  <2>4. CASE g.obj = 0 /\ g.imp = "no" /\ r \notin Global
    <3>1. ~LoadedBy(l, n, Global) /\ h.obj = 0
      BY <1>0, <1>6, <1>7, <2>4 DEF ObjIsFirst, ImpIsLast, g, l
    <3>2. ~LoadedBy(Len(objs), n, Global)'
      BY <1>3, <2>4, <3>1
    <3> QED
      BY <3>1, <3>2 DEF ObjIsFirst, h
  <2> QED
    BY <2>1, <2>2, <2>3, <2>4
<1>11. ImpIsLast(n)'
  BY <1>0, <1>4, <1>6 DEF ImpIsLast, g, h
<1>12. CommonNoted(n)' /\ WeakNoted(n)'
  <2>0. r \in Global => r # "common" /\ r # "weak"
    BY DEF Global
  <2>a. Defined(g) => Defined(h)
    BY <1>6
  <2>b. ~Defined(g) /\ r \in Global => Defined(h)
    BY <1>1, <1>6 DEF Defined
  <2>1. r \in Global => Defined(h)
    BY <2>a, <2>b
  <2>2. CommonNoted(n)'
    <3>0. h.common = g.common \/ (h.common = 1 /\ r = "common")
      BY <1>6
    <3>1. h.common # 2
      BY <1>5, <3>0
    <3>2. h.common # 0 => g.common # 0 \/ r = "common"
      BY <1>6
    <3>3. h.common = 0 => g.common = 0 /\ (Defined(g) \/ r # "common")
      <4>1. ~Defined(g) /\ r = "common" => h.common = 1
        BY <1>6
      <4> QED
        BY <3>0, <4>1
    <3> QED
      BY <1>0, <1>3, <2>a, <3>1, <3>2, <3>3 DEF CommonNoted, g, h, l
  <2>3. WeakNoted(n)'
    <3>1. h.weak => g.weak \/ r = "weak"
      BY <1>6
    <3>2. ~h.weak => Defined(h) \/ (~g.weak /\ ~Defined(g) /\ r # "weak")
      BY <1>6, <2>a, <2>1
    <3> QED
      BY <1>0, <1>3, <3>1, <3>2 DEF WeakNoted, g, h, l
  <2> QED
    BY <2>2, <2>3
<1>13. ForcedNoted(n)'
  BY <1>0, <1>6 DEF ForcedNoted, RootNames, g, h
<1>14. Interned(n)'
  <2>1. n \in ToSet(order') <=> (n \in ToSet(order) \/ r \in Role \ {"none", "static"})
    BY <1>1, ObjectAdded DEF Externals, r
  <2>2. h # NewSym => g # NewSym \/ r \in Role \ {"none", "static"}
    BY <1>1, <1>6
  <2> QED
    BY <1>0, <1>3, <1>4, <2>1, <2>2 DEF Interned, RootNames, g, h, l
<1> QED
  BY <1>10, <1>11, <1>12, <1>13, <1>14

-----------------------------------------------------------------------------
(* The fixpoint: whom it asks for what.                                    *)

(* A member an archive names is an object of it.                           *)
LEMMA MemberIsObject ==
  ASSUME Types, NEW a \in DOMAIN input.archives, NEW n \in Name, MemberDefining(a, n) # 0
  PROVE  /\ MemberDefining(a, n) \in Nat /\ Member(a, n) \in Object
         /\ Member(a, n).kind = "import" => n \in DOMAIN Imp \/ \E l \in DOMAIN Imp : Imp[l] = n
<1> DEFINE ar == input.archives[a]
<1>1. ar \in Archive /\ ar \in ToSet(input.archives)
  BY InputFields, ElementOfSeq, LenProperties DEF ToSet
<1>2. /\ ar.armap[n] <= Len(ar.members)
      /\ ar.armap[n] # 0 /\ ar.members[ar.armap[n]].kind = "import" =>
           n \in DOMAIN Imp \/ \E l \in DOMAIN Imp : Imp[l] = n
  BY <1>1, LinkerAssumption DEF Types
<1>3. ar.members \in Seq(Object) /\ ar.armap[n] \in Nat
  BY <1>1 DEF Archive
<1>4. ar.armap[n] # 0 => ar.members[ar.armap[n]] \in Object
  BY <1>2, <1>3, ElementOfSeq
<1> QED
  BY <1>2, <1>3, <1>4 DEF MemberDefining, Member

(* The name asked for is unresolved, and the archive answers for it.       *)
LEMMA AskedIsAnswered ==
  ASSUME Types, Candidates # {}
  PROVE  /\ Asked \in Name /\ Unresolved(sym[Asked])
         /\ Answering \in DOMAIN input.archives /\ Answers(Answering, Asked)
         /\ Answering \in Nat
<1>1. Candidates \in SUBSET Nat /\ Candidates \subseteq DOMAIN order
  BY Lengths DEF Candidates
<1>2. Min0(Candidates) \in Candidates
  BY <1>1, Min0IsLeast
<1>3. Asked \in Name /\ Answered(Min0(Candidates)) /\ Asked = order[Min0(Candidates)]
  <2>1. order \in Seq(Name)
    BY DEF Types
  <2>2. \A i \in DOMAIN order : order[i] \in Name
    BY <2>1, LenProperties
  <2> QED
    BY <1>1, <1>2, <2>2 DEF Asked, Candidates
<1> DEFINE A == {a \in DOMAIN input.archives : Answers(a, Asked)}
<1>4. A # {} /\ Unresolved(sym[Asked])
  BY <1>3 DEF Answered
<1>5. DOMAIN input.archives \in SUBSET Nat
  BY InputFields, LenProperties
<1>6. Min0(A) \in A
  BY <1>4, <1>5, Min0IsLeast
<1>7. Answering = Min0(A)
  BY DEF Answering
<1> QED
  BY <1>3, <1>4, <1>5, <1>6, <1>7

(* try_resolve_import's local name, and that it or its slot was asked for. *)
LEMMA LocalIsImported ==
  ASSUME Types, Resolving({"import"})
  PROVE  /\ Local(Asked) \in DOMAIN Imp /\ Local(Asked) \in Name
         /\ Imp[Local(Asked)] \in Name
         /\ Asked \in {Local(Asked), Imp[Local(Asked)]}
<1>1. /\ Asked \in Name /\ Answering \in DOMAIN input.archives
      /\ MemberDefining(Answering, Asked) # 0 /\ Member(Answering, Asked).kind = "import"
  BY AskedIsAnswered DEF Resolving, Answers
<1>2. Asked \in DOMAIN Imp \/ \E l \in DOMAIN Imp : Imp[l] = Asked
  BY <1>1, MemberIsObject
<1>3. Local(Asked) \in DOMAIN Imp /\ Asked \in {Local(Asked), Imp[Local(Asked)]}
  BY <1>2 DEF Local
<1> QED
  BY <1>3, LinkerAssumption

(* The entry and the forced names become roots.                            *)
LEMMA RootsKeepsSym ==
  ASSUME Types, Counts, SymOK, Roots
  PROVE  SymOK' /\ sym' \in [Name -> SymType]
         /\ order' \in Seq(Name) /\ IsInjective(order')
<1>1. /\ sym' = [n \in Name |-> IF n \in RootNames THEN [sym[n] EXCEPT !.forced = TRUE]
                                                       ELSE sym[n]]
      /\ order' = Intern(Intern(order, {Entry}), input.force)
      /\ phase = "load" /\ phase' = "resolve" /\ imports = <<>>
      /\ UNCHANGED <<input, objs, imports>>
  BY DEF Roots, RootNames, Counts
<1>2. order' \in Seq(Name) /\ IsInjective(order') /\ ToSet(order') = ToSet(order) \cup RootNames
  <2>1. order \in Seq(Name) /\ IsInjective(order) /\ {Entry} \in SUBSET Name
        /\ input.force \in SUBSET Name
    BY InputFields DEF Types
  <2> DEFINE first == Intern(order, {Entry})
  <2>2. first \in Seq(Name) /\ IsInjective(first) /\ ToSet(first) = ToSet(order) \cup {Entry}
    BY <2>1, InternKnows
  <2> HIDE DEF first
  <2>3. /\ Intern(first, input.force) \in Seq(Name) /\ IsInjective(Intern(first, input.force))
        /\ ToSet(Intern(first, input.force)) = ToSet(first) \cup input.force
    BY <2>1, <2>2, InternKnows
  <2> QED
    BY <1>1, <2>2, <2>3 DEF RootNames, first
<1>3. ASSUME NEW n \in Name
      PROVE  /\ sym'[n] \in SymType /\ sym'[n].obj = sym[n].obj /\ sym'[n].imp = sym[n].imp
             /\ sym'[n].common = sym[n].common /\ sym'[n].weak = sym[n].weak
             /\ sym'[n].slot = sym[n].slot /\ sym'[n].dflt = sym[n].dflt
             /\ sym'[n].forced <=> n \in RootNames
             /\ sym[n] = NewSym /\ n \notin RootNames => sym'[n] = NewSym
  <2>1. sym[n] \in SymType
    BY DEF Types
  <2>2. CASE n \in RootNames
    <3>1. sym'[n] = [sym[n] EXCEPT !.forced = TRUE]
      BY <1>1, <2>2
    <3> QED
      BY <2>1, <2>2, <3>1 DEF SymType
  <2>3. CASE n \notin RootNames
    <3>1. sym'[n] = sym[n] /\ ~sym[n].forced
      BY <1>1, <2>3 DEF SymOK, ForcedNoted
    <3> QED
      BY <2>1, <2>3, <3>1
  <2> QED
    BY <2>2, <2>3
<1>4. sym' \in [Name -> SymType]
  BY <1>1, <1>3
<1>5. ASSUME NEW n \in Name
      PROVE  /\ ObjIsFirst(n)' /\ ImpIsLast(n)'
             /\ CommonNoted(n)' /\ WeakNoted(n)' /\ ForcedNoted(n)' /\ Interned(n)'
  <2>1. /\ ObjIsFirst(n) /\ ImpIsLast(n) /\ CommonNoted(n) /\ WeakNoted(n) /\ Interned(n)
    BY DEF SymOK
  <2>2. Defined(sym'[n]) <=> Defined(sym[n])
    BY <1>3 DEF Defined
  <2>3. ImportsOf(n)' = ImportsOf(n)
    BY <1>1 DEF ImportsOf
  <2>4. \A k, roles : LoadedBy(k, n, roles)' <=> LoadedBy(k, n, roles)
    BY <1>1 DEF LoadedBy
  <2>5. ObjIsFirst(n)'
    BY <1>1, <1>3, <2>1, <2>3 DEF ObjIsFirst, LoadedBy
  <2>6. ImpIsLast(n)'
    BY <1>1, <1>3, <2>1, <2>3 DEF ImpIsLast
  <2>7. CommonNoted(n)'
    BY <1>1, <1>3, <2>1, <2>2 DEF CommonNoted, LoadedBy
  <2>8. WeakNoted(n)'
    BY <1>1, <1>3, <2>1, <2>2 DEF WeakNoted, LoadedBy
  <2>9. ForcedNoted(n)'
    BY <1>1, <1>3 DEF ForcedNoted, RootNames
  <2>10. Interned(n)'
    <3>1. sym'[n] # NewSym => sym[n] # NewSym \/ n \in RootNames
      BY <1>3
    <3>2. n \in ToSet(order') <=> (n \in ToSet(order) \/ n \in RootNames)
      BY <1>2
    <3>3. RootNames' = RootNames
      BY <1>1 DEF RootNames
    <3>4. LoadedBy(Len(objs), n, Role \ {"none", "static"})'
          <=> LoadedBy(Len(objs), n, Role \ {"none", "static"})
      BY <1>1 DEF LoadedBy
    <3> QED
      BY <1>1, <2>1, <2>3, <3>1, <3>2, <3>3, <3>4 DEF Interned
  <2> QED
    BY <2>5, <2>6, <2>7, <2>8, <2>9, <2>10
<1> QED
  BY <1>2, <1>4, <1>5 DEF SymOK

(* An import marks its function and the function's slot.                   *)
LEMMA ImportKeepsSym ==
  ASSUME Types, Counts, SymOK, ResolveImport
  PROVE  /\ SymOK' /\ sym' \in [Name -> SymType]
         /\ order' \in Seq(Name) /\ IsInjective(order')
         /\ imports' \in Seq([local : DOMAIN Imp, before : Nat])
         /\ \A i \in DOMAIN imports' : imports'[i].before <= Len(objs)
<1> DEFINE l == Local(Asked)
           i == Len(imports) + 1
           M == {l, Imp[l]}
           import(n) == [sym[n] EXCEPT !.imp = IF n = l THEN "thunk" ELSE "iat", !.slot = i]
<1>1. l \in DOMAIN Imp /\ l \in Name /\ Imp[l] \in Name
  BY LocalIsImported DEF ResolveImport
<1>2. /\ sym' = [n \in Name |-> IF n \in M THEN import(n) ELSE sym[n]]
      /\ imports' = Append(imports, [local |-> l, before |-> Len(objs)])
      /\ order' = Intern(Intern(order, {Imp[l]}), {l})
      /\ phase = "resolve" /\ UNCHANGED <<input, objs, phase>>
  BY DEF ResolveImport, Resolving
<1> HIDE DEF l
<1>3. order' \in Seq(Name) /\ IsInjective(order') /\ ToSet(order') = ToSet(order) \cup M
  <2>1. order \in Seq(Name) /\ IsInjective(order) /\ {Imp[l]} \in SUBSET Name /\ {l} \in SUBSET Name
    BY <1>1 DEF Types
  <2> DEFINE first == Intern(order, {Imp[l]})
  <2>2. first \in Seq(Name) /\ IsInjective(first) /\ ToSet(first) = ToSet(order) \cup {Imp[l]}
    BY <2>1, InternKnows
  <2> HIDE DEF first
  <2>3. /\ Intern(first, {l}) \in Seq(Name) /\ IsInjective(Intern(first, {l}))
        /\ ToSet(Intern(first, {l})) = ToSet(first) \cup {l}
    BY <2>1, <2>2, InternKnows
  <2> QED
    BY <1>2, <2>2, <2>3 DEF first
<1>4. /\ imports' \in Seq([local : DOMAIN Imp, before : Nat])
      /\ i \in Nat /\ DOMAIN imports' = 1..i /\ DOMAIN imports = 1..Len(imports)
      /\ Len(imports) \in Nat
      /\ \A j \in DOMAIN imports : imports'[j] = imports[j]
      /\ imports'[i].local = l /\ imports'[i].before = Len(objs)
  <2> DEFINE e == [local |-> l, before |-> Len(objs)]
  <2>1. e \in [local : DOMAIN Imp, before : Nat] /\ imports \in Seq([local : DOMAIN Imp, before : Nat])
    BY <1>1, Lengths DEF Types
  <2>2. e.local = l /\ e.before = Len(objs)
    OBVIOUS
  <2> HIDE DEF e
  <2>3. /\ imports' \in Seq([local : DOMAIN Imp, before : Nat])
        /\ Len(imports') = Len(imports) + 1
        /\ \A j \in 1..Len(imports) : imports'[j] = imports[j]
        /\ imports'[i] = e
    <3>1. imports' = Append(imports, e)
      BY <1>2 DEF e
    <3> QED
      BY <2>1, <3>1, AppendProperties
  <2> QED
    BY <2>2, <2>3, Lengths, LenProperties
<1>5. \A j \in DOMAIN imports' : imports'[j].before <= Len(objs)
  <2>1. \A j \in DOMAIN imports : imports[j].before <= Len(objs)
    BY DEF Counts
  <2>2. Len(objs) <= Len(objs)
    BY Lengths
  <2>3. \A j \in DOMAIN imports' : j \in DOMAIN imports \/ j = i
    BY <1>4
  <2> QED
    BY <1>4, <2>1, <2>2, <2>3
<1>6. ASSUME NEW n \in Name
      PROVE  /\ sym'[n] \in SymType /\ sym'[n].obj = sym[n].obj
             /\ sym'[n].common = sym[n].common /\ sym'[n].weak = sym[n].weak
             /\ sym'[n].forced = sym[n].forced
             /\ n \notin M => sym'[n] = sym[n]
             /\ n \in M => sym'[n].imp = (IF n = l THEN "thunk" ELSE "iat") /\ sym'[n].slot = i
  <2>1. sym[n] \in SymType
    BY DEF Types
  <2>2. CASE n \in M
    <3>1. sym'[n] = import(n)
      BY <1>2, <2>2
    <3> QED
      BY <1>4, <2>1, <2>2, <3>1 DEF SymType
  <2>3. CASE n \notin M
    BY <1>2, <2>1, <2>3
  <2> QED
    BY <2>2, <2>3
<1>7. sym' \in [Name -> SymType]
  BY <1>2, <1>6
<1>8. ASSUME NEW n \in Name
      PROVE  /\ ObjIsFirst(n)' /\ ImpIsLast(n)'
             /\ CommonNoted(n)' /\ WeakNoted(n)' /\ ForcedNoted(n)' /\ Interned(n)'
  <2>1. /\ ObjIsFirst(n) /\ ImpIsLast(n) /\ CommonNoted(n) /\ WeakNoted(n) /\ ForcedNoted(n) /\ Interned(n)
    BY DEF SymOK
  <2>2. /\ \A j \in ImportsOf(n) : j \in ImportsOf(n)' /\ imports'[j] = imports[j]
        /\ \A j \in ImportsOf(n)' : j \in ImportsOf(n) \/ (j = i /\ n \in M)
        /\ n \in M => i \in ImportsOf(n)'
    BY <1>4 DEF ImportsOf
  <2>3. \A roles : LoadedBy(Len(objs), n, roles)' <=> LoadedBy(Len(objs), n, roles)
    BY <1>2 DEF LoadedBy
  <2>4. \A k : (\E j \in 1..k : objs'[j].role[n] \in Global) <=> LoadedBy(k, n, Global)
    BY <1>2 DEF LoadedBy
  <2>5. ObjIsFirst(n)'
    <3>1. CASE sym[n].obj = 0
      BY <1>6, <2>1, <2>2, <2>3, <2>4, <3>1 DEF ObjIsFirst, LoadedBy
    <3>2. CASE sym[n].obj # 0
      <4>1. sym[n].obj <= Len(objs)
        BY <2>1, <3>2, Lengths DEF ObjIsFirst
      <4>2. \A j \in ImportsOf(n)' : sym[n].obj <= imports'[j].before
        BY <1>4, <2>1, <2>2, <3>2, <4>1 DEF ObjIsFirst
      <4>3. sym[n].obj \in DOMAIN objs' /\ objs'[sym[n].obj].role[n] \in Global
        BY <1>2, <2>1, <3>2 DEF ObjIsFirst
      <4>4. ~\E j \in 1..(sym[n].obj - 1) : objs'[j].role[n] \in Global
        BY <2>1, <2>4, <3>2 DEF ObjIsFirst
      <4> QED
        BY <1>6, <3>2, <4>2, <4>3, <4>4 DEF ObjIsFirst, LoadedBy
    <3> QED
      BY <3>1, <3>2
  <2>6. ImpIsLast(n)'
    <3>1. CASE n \in M
      BY <1>4, <1>6, <2>2, <3>1 DEF ImpIsLast
    <3>2. CASE n \notin M
      BY <1>6, <2>1, <2>2, <3>2 DEF ImpIsLast
    <3> QED
      BY <3>1, <3>2
  <2>7. Defined(sym[n]) => Defined(sym'[n])
    <3>1. CASE n \in M
      BY <1>6, <3>1 DEF Defined
    <3>2. CASE n \notin M
      BY <1>6, <3>2
    <3> QED
      BY <3>1, <3>2
  <2>8. CommonNoted(n)'
    BY <1>2, <1>6, <2>1, <2>3, <2>7 DEF CommonNoted
  <2>9. WeakNoted(n)'
    BY <1>6, <2>1, <2>3, <2>7 DEF WeakNoted
  <2>10. ForcedNoted(n)'
    <3>1. RootNames' = RootNames /\ phase' = phase
      BY <1>2 DEF RootNames
    <3> QED
      BY <1>6, <2>1, <3>1 DEF ForcedNoted
  <2>11. Interned(n)'
    <3>1. n \in ToSet(order') <=> (n \in ToSet(order) \/ n \in M)
      BY <1>3
    <3>2. RootNames' = RootNames /\ phase' = phase
      BY <1>2 DEF RootNames
    <3>3. n \in M => ImportsOf(n)' # {}
      BY <2>2
    <3>4. ImportsOf(n) # {} => ImportsOf(n)' # {}
      BY <2>2
    <3>5. sym'[n] # NewSym => sym[n] # NewSym \/ n \in M
      BY <1>6
    <3> QED
      BY <2>1, <2>3, <3>1, <3>2, <3>3, <3>4, <3>5 DEF Interned
  <2> QED
    BY <2>5, <2>6, <2>8, <2>9, <2>10, <2>11
<1> QED
  BY <1>3, <1>4, <1>5, <1>7, <1>8 DEF SymOK

(* A step that leaves the tables alone leaves what they say alone.         *)
LEMMA SymStays ==
  ASSUME SymOK, UNCHANGED <<input, objs, imports, sym, order>>,
         phase' = "load" => phase = "load",
         phase = "load" => phase' \in {"load", "failed"},
         phase = "failed" => phase' = "failed",
         phase \in {"address", "relocate", "done", "failed"}
           => phase' \in {"address", "relocate", "done", "failed"}
  PROVE  SymOK'
<1> SUFFICES ASSUME NEW n \in Name
             PROVE  /\ ObjIsFirst(n)' /\ ImpIsLast(n)'
                    /\ CommonNoted(n)' /\ WeakNoted(n)' /\ ForcedNoted(n)' /\ Interned(n)'
  BY DEF SymOK
<1>1. /\ ObjIsFirst(n) /\ ImpIsLast(n)
      /\ CommonNoted(n) /\ WeakNoted(n) /\ ForcedNoted(n) /\ Interned(n)
  BY DEF SymOK
<1>2. ImportsOf(n)' = ImportsOf(n) /\ RootNames' = RootNames
  BY DEF ImportsOf, RootNames
<1>3. ObjIsFirst(n)'
  BY <1>1, <1>2 DEF ObjIsFirst, LoadedBy
<1>4. ImpIsLast(n)'
  BY <1>1, <1>2 DEF ImpIsLast
<1>5. CommonNoted(n)' /\ WeakNoted(n)'
  BY <1>1 DEF CommonNoted, WeakNoted, LoadedBy
<1>6. ForcedNoted(n)'
  BY <1>1, <1>2 DEF ForcedNoted
<1>7. Interned(n)'
  BY <1>1, <1>2 DEF Interned, LoadedBy
<1> QED
  BY <1>3, <1>4, <1>5, <1>6, <1>7

(* layout_sections gives every tentative definition left a slot of its own.*)
LEMMA CommitsApart ==
  ASSUME Types, SymOK, sym' = CommitCommons, phase = "layout"
  PROVE  /\ sym' \in [Name -> SymType]
         /\ \A n \in Name :
              /\ sym'[n].obj = sym[n].obj /\ sym'[n].imp = sym[n].imp
              /\ sym'[n].weak = sym[n].weak /\ sym'[n].forced = sym[n].forced
              /\ sym'[n].common # 0 <=> sym[n].common # 0
              /\ sym'[n].common = 1 => Defined(sym'[n])
              /\ sym'[n].common = 2 => sym'[n].obj = 0 /\ sym'[n].imp = "no"
              /\ sym'[n].common = 2 \/ sym'[n] = sym[n]
         /\ \A m, n \in Name :
              sym'[m].common = 2 /\ sym'[n].common = 2 /\ sym'[m].slot = sym'[n].slot => m = n
<1> DEFINE tentative(n) == sym[n].common = 1 /\ ~Defined(sym[n])
           upTo(n) == {i \in 1..IndexOf(order, n) : tentative(order[i])}
           rank(n) == Cardinality(upTo(n))
<1>1. sym' = [n \in Name |-> IF tentative(n) THEN [sym[n] EXCEPT !.slot = rank(n), !.common = 2]
                             ELSE sym[n]]
  BY DEF CommitCommons
<1>2. \A n \in Name : sym[n] \in SymType /\ sym[n].common # 2
  BY DEF Types, SymOK, CommonNoted
<1>3. order \in Seq(Name) /\ DOMAIN order = 1..Len(order) /\ Len(order) \in Nat
  BY Lengths DEF Types
<1>4. ASSUME NEW n \in Name, tentative(n)
      PROVE  IndexOf(order, n) \in 1..Len(order) /\ order[IndexOf(order, n)] = n
  <2>1. sym[n] # NewSym
    BY <1>4 DEF NewSym
  <2>2. n \in ToSet(order)
    BY <2>1 DEF SymOK, Interned
  <2> QED
    BY <1>3, <2>2 DEF ToSet, IndexOf
<1> HIDE DEF tentative
<1>5. ASSUME NEW n \in Name, tentative(n)
      PROVE  IsFiniteSet(upTo(n)) /\ rank(n) \in Nat
  <2>1. IndexOf(order, n) \in Int
    BY <1>4, <1>5
  <2>2. IsFiniteSet(1..IndexOf(order, n))
    BY <2>1, FS_Interval
  <2>3. upTo(n) \in SUBSET (1..IndexOf(order, n))
    OBVIOUS
  <2> QED
    BY <2>2, <2>3, FS_Subset, FS_CardinalityType
<1>6. ASSUME NEW m \in Name, NEW n \in Name, tentative(m), tentative(n),
             IndexOf(order, m) < IndexOf(order, n)
      PROVE  rank(m) < rank(n)
  <2>1. /\ IndexOf(order, m) \in 1..Len(order) /\ IndexOf(order, n) \in 1..Len(order)
        /\ order[IndexOf(order, n)] = n
    BY <1>4, <1>6
  <2>2. upTo(m) \in SUBSET upTo(n)
    BY <1>3, <1>6, <2>1
  <2>3. IndexOf(order, n) \in upTo(n) /\ IndexOf(order, n) \notin upTo(m)
    BY <1>3, <1>6, <2>1
  <2>4. IsFiniteSet(upTo(n)) /\ rank(m) \in Nat /\ rank(n) \in Nat
    BY <1>5, <1>6
  <2> HIDE DEF upTo
  <2>5. rank(m) <= rank(n) /\ (rank(n) = rank(m) => upTo(n) = upTo(m))
    BY <2>2, <2>4, FS_Subset
  <2> QED
    BY <2>3, <2>4, <2>5
<1>7. ASSUME NEW m \in Name, NEW n \in Name, tentative(m), tentative(n), rank(m) = rank(n)
      PROVE  m = n
  <2>1. /\ IndexOf(order, m) \in 1..Len(order) /\ IndexOf(order, n) \in 1..Len(order)
        /\ order[IndexOf(order, n)] = n /\ order[IndexOf(order, m)] = m
    BY <1>4, <1>7
  <2>2. rank(m) \in Nat
    BY <1>5, <1>7
  <2>3. ~(rank(m) < rank(n)) /\ ~(rank(n) < rank(m))
    BY <1>7, <2>2
  <2>4. IndexOf(order, m) = IndexOf(order, n)
    BY <1>3, <1>6, <1>7, <2>1, <2>3
  <2> QED
    BY <2>1, <2>4
<1> HIDE DEF rank, upTo
<1>8. ASSUME NEW n \in Name, tentative(n)
      PROVE  /\ sym'[n] \in SymType /\ sym'[n].obj = sym[n].obj /\ sym'[n].imp = sym[n].imp
             /\ sym'[n].weak = sym[n].weak /\ sym'[n].forced = sym[n].forced
             /\ sym'[n].common = 2 /\ sym'[n].slot = rank(n)
             /\ sym[n].common = 1 /\ sym'[n].obj = 0 /\ sym'[n].imp = "no"
  <2>1. sym'[n] = [sym[n] EXCEPT !.slot = rank(n), !.common = 2]
    BY <1>1, <1>8
  <2>2. sym[n] \in SymType /\ rank(n) \in Nat
    BY <1>2, <1>5, <1>8
  <2>3. sym[n].common = 1 /\ sym[n].obj = 0 /\ sym[n].imp = "no"
    BY <1>8 DEF tentative, Defined
  <2>4. [sym[n] EXCEPT !.slot = rank(n), !.common = 2] \in SymType
    <3>1. ASSUME NEW g \in SymType, NEW v \in Nat, NEW w \in 0..2
          PROVE  [g EXCEPT !.slot = v, !.common = w] \in SymType
      BY DEF SymType
    <3>2. 2 \in 0..2
      OBVIOUS
    <3> QED
      BY <2>2, <3>1, <3>2
  <2>5. /\ sym'[n].obj = sym[n].obj /\ sym'[n].imp = sym[n].imp
        /\ sym'[n].weak = sym[n].weak /\ sym'[n].forced = sym[n].forced
        /\ sym'[n].common = 2 /\ sym'[n].slot = rank(n)
    BY <2>1, <2>2 DEF SymType
  <2> QED
    BY <2>1, <2>3, <2>4, <2>5
<1>9. ASSUME NEW n \in Name, ~tentative(n)
      PROVE  sym'[n] = sym[n] /\ (sym[n].common = 1 => Defined(sym[n])) /\ sym[n].common # 2
  BY <1>1, <1>2, <1>9 DEF tentative
<1>10. sym' \in [Name -> SymType]
  <2>1. sym' = [n \in Name |-> sym'[n]]
    BY <1>1
  <2>2. \A n \in Name : sym'[n] \in SymType
    BY <1>2, <1>8, <1>9
  <2> QED
    BY <2>1, <2>2
<1>11. ASSUME NEW n \in Name
       PROVE  /\ sym'[n].obj = sym[n].obj /\ sym'[n].imp = sym[n].imp
              /\ sym'[n].weak = sym[n].weak /\ sym'[n].forced = sym[n].forced
              /\ sym'[n].common # 0 <=> sym[n].common # 0
              /\ sym'[n].common = 1 => Defined(sym'[n])
              /\ sym'[n].common = 2 => sym'[n].obj = 0 /\ sym'[n].imp = "no"
              /\ sym'[n].common = 2 \/ sym'[n] = sym[n]
  <2>1. CASE tentative(n)
    BY <1>8, <2>1
  <2>2. CASE ~tentative(n)
    BY <1>9, <2>2
  <2> QED
    BY <2>1, <2>2
<1>12. \A m, n \in Name :
         sym'[m].common = 2 /\ sym'[n].common = 2 /\ sym'[m].slot = sym'[n].slot => m = n
  BY <1>7, <1>8, <1>9
<1> QED
  BY <1>10, <1>11, <1>12

(* So the layout keeps what the symbol table says.                         *)
LEMMA LayoutKeepsSym ==
  ASSUME Types, SymOK, Layout
  PROVE  SymOK'
<1>1. /\ sym' = CommitCommons /\ phase = "layout" /\ phase' = "address"
      /\ UNCHANGED <<input, objs, imports, order>>
  BY DEF Layout
<1> SUFFICES ASSUME NEW n \in Name
             PROVE  /\ ObjIsFirst(n)' /\ ImpIsLast(n)'
                    /\ CommonNoted(n)' /\ WeakNoted(n)' /\ ForcedNoted(n)' /\ Interned(n)'
  BY DEF SymOK
<1>2. /\ ObjIsFirst(n) /\ ImpIsLast(n)
      /\ CommonNoted(n) /\ WeakNoted(n) /\ ForcedNoted(n) /\ Interned(n)
  BY DEF SymOK
<1>3. /\ sym'[n].obj = sym[n].obj /\ sym'[n].imp = sym[n].imp
      /\ sym'[n].weak = sym[n].weak /\ sym'[n].forced = sym[n].forced
      /\ sym'[n].common # 0 <=> sym[n].common # 0
      /\ sym'[n].common = 1 => Defined(sym'[n])
      /\ sym'[n].common = 2 => sym'[n].obj = 0 /\ sym'[n].imp = "no"
      /\ sym'[n].common = 2 \/ sym'[n] = sym[n]
  BY <1>1, CommitsApart
<1>4. ImportsOf(n)' = ImportsOf(n) /\ RootNames' = RootNames
  BY <1>1 DEF ImportsOf, RootNames
<1>5. \A roles : LoadedBy(Len(objs), n, roles)' <=> LoadedBy(Len(objs), n, roles)
  BY <1>1 DEF LoadedBy
<1>6. Defined(sym[n]) => Defined(sym'[n])
  BY <1>3 DEF Defined
<1>7. ObjIsFirst(n)'
  BY <1>1, <1>2, <1>3, <1>4 DEF ObjIsFirst, LoadedBy
<1>8. ImpIsLast(n)'
  <2>1. sym'[n].imp # "no" => sym'[n] = sym[n]
    BY <1>3
  <2> QED
    BY <1>1, <1>2, <1>3, <1>4, <2>1 DEF ImpIsLast
<1>9. CommonNoted(n)'
  BY <1>1, <1>2, <1>3, <1>5, <1>6 DEF CommonNoted
<1>10. WeakNoted(n)'
  BY <1>2, <1>3, <1>5, <1>6 DEF WeakNoted
<1>11. ForcedNoted(n)'
  BY <1>1, <1>2, <1>3, <1>4 DEF ForcedNoted
<1>12. Interned(n)'
  <2>1. sym'[n] # NewSym => sym[n] # NewSym
    BY <1>3 DEF NewSym
  <2> QED
    BY <1>1, <1>2, <1>4, <1>5, <2>1 DEF Interned
<1> QED
  BY <1>7, <1>8, <1>9, <1>10, <1>11, <1>12

-----------------------------------------------------------------------------
(* Every step keeps the types, the counts and what the table says.         *)

(* The phases only go on.                                                  *)
Onward ==
  /\ phase' \in {"load", "resolve", "collect", "gc", "mark", "layout",
                "address", "relocate", "done", "failed"}
  /\ phase' = "load" => phase = "load"
  /\ phase = "load" => phase' \in {"load", "failed"}
  /\ phase = "failed" => phase' = "failed"
  /\ phase \in {"address", "relocate", "done", "failed"}
       => phase' \in {"address", "relocate", "done", "failed"}

(* The passes after the fixpoint do not touch the tables.                  *)
LEMMA TablesStay ==
  ASSUME Types, Counts, SymOK, UNCHANGED <<input, objs, pulled, sym, order, imports>>, Onward
  PROVE  Types' /\ Counts' /\ SymOK'
<1>1. Types'
  BY DEF Types, Onward
<1>2. Counts'
  BY DEF Counts, Onward
<1>3. SymOK'
  BY SymStays DEF Onward
<1> QED
  BY <1>1, <1>2, <1>3

(* Load.                                                                   *)
LEMMA LoadKeeps ==
  ASSUME Types, Counts, SymOK, Load
  PROVE  Types' /\ Counts' /\ SymOK'
<1> DEFINE o == input.explicit[Len(objs) + 1]
<1>1. /\ phase = "load" /\ Len(objs) < Len(input.explicit)
      /\ UNCHANGED <<input, pulled, imports>>
  BY DEF Load
<1>2. CASE o.kind = "bad"
  <2>1. phase' = "failed" /\ UNCHANGED <<objs, sym, order>>
    BY <1>2 DEF Load
  <2> QED
    BY <1>1, <2>1, TablesStay DEF Onward
<1>3. CASE o.kind # "bad"
  <2>1. AddObject(o) /\ UNCHANGED phase
    BY <1>3 DEF Load
  <2>2. o \in Object
    <3>1. input.explicit \in Seq(Object) /\ Len(objs) + 1 \in 1..Len(input.explicit)
      BY <1>1, InputFields, Lengths
    <3> QED
      BY <3>1, ElementOfSeq
  <2> HIDE DEF o
  <2>3. SymOK'
    BY <1>1, <2>1, <2>2, LoadKeepsSym
  <2>4. /\ objs' \in Seq(Object) /\ Len(objs') = Len(objs) + 1
        /\ sym' \in [Name -> SymType]
        /\ order' \in Seq(Name) /\ IsInjective(order')
    BY <2>1, <2>2, ObjectAdded
  <2>5. Types'
    BY <1>1, <2>1, <2>4 DEF Types
  <2>6. Counts'
    <3>1. pulled = <<>> /\ imports = <<>> /\ pulled' = <<>> /\ imports' = <<>>
      BY <1>1 DEF Counts
    <3>2. Len(pulled') = 0 /\ Len(objs) \in Nat /\ Len(input.explicit) \in Nat
      BY <3>1, Lengths, InputFields
    <3>3. Len(objs') <= Len(input'.explicit) + Len(pulled')
      BY <1>1, <2>4, <3>2
    <3>4. DOMAIN imports' = {}
      BY <3>1
    <3> QED
      BY <1>1, <2>1, <3>1, <3>3, <3>4 DEF Counts
  <2> QED
    BY <2>3, <2>5, <2>6
<1> QED
  BY <1>2, <1>3

(* Roots.                                                                  *)
LEMMA RootsKeeps ==
  ASSUME Types, Counts, SymOK, Roots
  PROVE  Types' /\ Counts' /\ SymOK'
<1>1. /\ phase = "load" /\ phase' = "resolve" /\ Len(objs) = Len(input.explicit)
      /\ UNCHANGED <<input, objs, pulled, imports>>
  BY DEF Roots
<1>2. SymOK' /\ sym' \in [Name -> SymType] /\ order' \in Seq(Name) /\ IsInjective(order')
  BY RootsKeepsSym
<1>3. Types'
  BY <1>1, <1>2 DEF Types
<1>4. Counts'
  <2>1. pulled = <<>> /\ imports = <<>> /\ Len(pulled) = 0 /\ Len(objs) \in Nat
    BY <1>1, Lengths DEF Counts
  <2> QED
    BY <1>1, <2>1 DEF Counts
<1> QED
  BY <1>2, <1>3, <1>4

(* ResolveImport.                                                          *)
LEMMA ImportKeeps ==
  ASSUME Types, Counts, SymOK, ResolveImport
  PROVE  Types' /\ Counts' /\ SymOK'
<1>1. phase = "resolve" /\ UNCHANGED <<input, phase, objs, pulled>>
  BY DEF ResolveImport, Resolving
<1>2. /\ SymOK' /\ sym' \in [Name -> SymType] /\ order' \in Seq(Name) /\ IsInjective(order')
      /\ imports' \in Seq([local : DOMAIN Imp, before : Nat])
      /\ \A i \in DOMAIN imports' : imports'[i].before <= Len(objs)
  BY ImportKeepsSym
<1>3. Types'
  BY <1>1, <1>2 DEF Types
<1>4. Counts'
  BY <1>1, <1>2 DEF Counts
<1> QED
  BY <1>2, <1>3, <1>4

(* Pull, and the member it loads.                                          *)
LEMMA PullKeeps ==
  ASSUME Types, Counts, SymOK, Pull
  PROVE  /\ Types' /\ Counts' /\ SymOK'
         /\ Len(pulled') = Len(pulled) + 1 /\ Len(objs') = Len(objs) + 1
         /\ \A k \in 1..Len(pulled) : pulled'[k] = pulled[k]
         /\ \A j \in 1..Len(objs) : objs'[j] = objs[j]
         /\ pulled'[Len(pulled) + 1]
              = [archive |-> Answering, member |-> MemberDefining(Answering, Asked)]
<1> DEFINE o == Member(Answering, Asked)
           e == [archive |-> Answering, member |-> MemberDefining(Answering, Asked)]
<1>1. /\ phase = "resolve" /\ Candidates # {} /\ AddObject(o) /\ pulled' = Append(pulled, e)
      /\ UNCHANGED <<input, phase, imports>>
  BY DEF Pull, Resolving
<1>2. /\ Asked \in Name /\ Answering \in DOMAIN input.archives /\ Answering \in Nat
      /\ MemberDefining(Answering, Asked) # 0
  BY <1>1, AskedIsAnswered DEF Answers
<1>3. o \in Object /\ e \in [archive : Nat, member : Nat]
  BY <1>2, MemberIsObject
<1> HIDE DEF o, e
<1>4. SymOK'
  BY <1>1, <1>3, LoadKeepsSym
<1>5. /\ objs' \in Seq(Object) /\ Len(objs') = Len(objs) + 1
      /\ \A j \in 1..Len(objs) : objs'[j] = objs[j]
      /\ sym' \in [Name -> SymType]
      /\ order' \in Seq(Name) /\ IsInjective(order')
  BY <1>1, <1>3, ObjectAdded
<1>6. /\ pulled' \in Seq([archive : Nat, member : Nat])
      /\ Len(pulled') = Len(pulled) + 1
      /\ \A k \in 1..Len(pulled) : pulled'[k] = pulled[k]
      /\ pulled'[Len(pulled) + 1] = e
  <2>1. pulled \in Seq([archive : Nat, member : Nat])
    BY DEF Types
  <2> QED
    BY <1>1, <1>3, <2>1, AppendProperties
<1>7. Types'
  BY <1>1, <1>5, <1>6 DEF Types
<1>8. Counts'
  <2>1. /\ Len(objs) \in Nat /\ Len(pulled) \in Nat /\ Len(input.explicit) \in Nat
        /\ Len(objs) = Len(input.explicit) + Len(pulled)
    BY <1>1, Lengths, InputFields DEF Counts
  <2>2. Len(objs') = Len(input'.explicit) + Len(pulled') /\ Len(objs') \in Nat
    <3>1. input'.explicit = input.explicit
      BY <1>1
    <3>2. Len(pulled') = Len(pulled) + 1 /\ Len(objs') = Len(objs) + 1
      BY <1>5, <1>6
    <3>3. PICK a \in Nat, b \in Nat, c \in Nat :
            a = Len(objs) /\ b = Len(input.explicit) /\ c = Len(pulled) /\ a = b + c
      BY <2>1, Zenon
    <3>4. a + 1 = b + (c + 1) /\ a + 1 \in Nat
      <4>1. a = b + c
        BY <3>3, Zenon
      <4> QED
        BY <4>1
    <3>5. Len(objs) + 1 = Len(input.explicit) + (Len(pulled) + 1) /\ Len(objs) + 1 \in Nat
      BY <3>3, <3>4, Zenon
    <3> QED
      BY <3>1, <3>2, <3>5, Zenon
  <2>3. \A i \in DOMAIN imports' : imports'[i].before <= Len(objs')
    <3>1. \A i \in DOMAIN imports : imports[i].before <= Len(objs) /\ imports[i].before \in Nat
      BY Lengths DEF Counts
    <3> QED
      BY <1>1, <1>5, <2>1, <3>1
  <2>4. phase' = "resolve" /\ Len(objs') <= Len(input'.explicit) + Len(pulled')
    BY <1>1, <2>2
  <2> QED
    BY <2>2, <2>3, <2>4 DEF Counts
<1> QED
  BY <1>4, <1>5, <1>6, <1>7, <1>8 DEF e

(* Layout.                                                                 *)
LEMMA LayoutKeeps ==
  ASSUME Types, Counts, SymOK, Layout
  PROVE  Types' /\ Counts' /\ SymOK'
<1>1. /\ phase = "layout" /\ phase' = "address" /\ sym' = CommitCommons
      /\ UNCHANGED <<input, objs, pulled, order, imports>>
  BY DEF Layout
<1>2. sym' \in [Name -> SymType]
  BY <1>1, CommitsApart
<1>3. Types'
  BY <1>1, <1>2 DEF Types
<1>4. Counts'
  BY <1>1 DEF Counts
<1> QED
  BY <1>3, <1>4, LayoutKeepsSym

(* The steps of the passes after loading, but the layout.                  *)
Other == PullFails \/ ResolveEnd \/ Collect \/ GcStart \/ GcMark \/ GcEnd
         \/ ResolveAddrs \/ Relocate

(* They leave the tables alone.                                            *)
LEMMA OthersKeep ==
  ASSUME Types, Counts, SymOK, Other
  PROVE  /\ Types' /\ Counts' /\ SymOK' /\ Onward
         /\ UNCHANGED <<input, objs, pulled, sym, order, imports>>
<1>1. UNCHANGED <<input, objs, pulled, sym, order, imports>>
  BY DEF Other, PullFails, ResolveEnd, Collect, GcStart, GcMark, GcEnd, ResolveAddrs,
         Relocate, tables
<1>2. Onward
  BY DEF Onward, Other, PullFails, ResolveEnd, Collect, GcStart, GcMark, GcEnd,
         ResolveAddrs, Relocate, Resolving
<1> QED
  BY <1>1, <1>2, TablesStay

(* So every step keeps them.                                               *)
LEMMA TablesKept ==
  ASSUME Types, Counts, SymOK, [Next]_vars
  PROVE  Types' /\ Counts' /\ SymOK'
<1>1. CASE UNCHANGED vars
  <2>1. UNCHANGED <<input, objs, pulled, sym, order, imports>> /\ phase' = phase
    BY <1>1 DEF vars
  <2>2. Onward
    BY <2>1 DEF Types, Onward
  <2> QED
    BY <2>1, <2>2, TablesStay
<1>2. CASE Next
  BY <1>2, LoadKeeps, RootsKeeps, ImportKeeps, PullKeeps, LayoutKeeps, OthersKeep DEF Next, Other
<1> QED
  BY <1>1, <1>2

-----------------------------------------------------------------------------
(* The fixpoint takes what is needed: sym_unresolved says who is.          *)

(* A symbol that is unresolved is one somebody needs.                      *)
LEMMA UnresolvedIsDemanded ==
  ASSUME Types, SymOK, phase = "resolve", NEW n \in Name, n \in ToSet(order),
         Unresolved(sym[n])
  PROVE  Demanded(Len(objs), n)
<1>1. /\ ObjIsFirst(n) /\ ImpIsLast(n)
      /\ CommonNoted(n) /\ WeakNoted(n) /\ ForcedNoted(n) /\ Interned(n)
  BY DEF SymOK
<1>2. /\ sym[n].obj = 0 /\ sym[n].imp = "no" /\ sym[n].common = 0 /\ ~Defined(sym[n])
      /\ sym[n].weak => sym[n].forced
  BY DEF Unresolved, Defined
<1>3. ImportsOf(n) = {}
  BY <1>1, <1>2 DEF ImpIsLast
<1>4. ~LoadedBy(Len(objs), n, Global) /\ ~LoadedBy(Len(objs), n, {"common"})
  BY <1>1, <1>2, <1>3 DEF ObjIsFirst, CommonNoted
<1>5. ~LoadedBy(Len(objs), n, Global \cup {"common"})
  BY <1>4 DEF LoadedBy
<1>6. CASE n \in RootNames
  BY <1>5, <1>6 DEF Demanded, RootNames
<1>7. CASE n \notin RootNames
  <2>1. ~sym[n].weak
    BY <1>1, <1>2, <1>7 DEF ForcedNoted
  <2>2. ~LoadedBy(Len(objs), n, {"weak"})
    BY <1>1, <1>2, <2>1 DEF WeakNoted
  <2>3. LoadedBy(Len(objs), n, Role \ {"none", "static"})
    BY <1>1, <1>3, <1>7 DEF Interned
  <2>4. LoadedBy(Len(objs), n, {"undef"})
    BY <1>5, <2>2, <2>3 DEF LoadedBy, Role, Global
  <2> QED
    BY <1>5, <2>2, <2>4 DEF Demanded
<1> QED
  BY <1>6, <1>7

(* And a name that is needed and not imported is in the table, unresolved. *)
LEMMA DemandedIsUnresolved ==
  ASSUME Types, SymOK, phase = "resolve", NEW n \in Name, Demanded(Len(objs), n),
         ImportsOf(n) = {}
  PROVE  n \in ToSet(order) /\ Unresolved(sym[n])
<1>1. /\ ObjIsFirst(n) /\ ImpIsLast(n)
      /\ CommonNoted(n) /\ WeakNoted(n) /\ ForcedNoted(n) /\ Interned(n)
  BY DEF SymOK
<1>2. ~LoadedBy(Len(objs), n, Global) /\ ~LoadedBy(Len(objs), n, {"common"})
  BY DEF Demanded, LoadedBy
<1>3. sym[n].obj = 0
  BY <1>1, <1>2, Lengths DEF ObjIsFirst, LoadedBy
<1>4. sym[n].imp = "no" /\ sym[n].common = 0
  BY <1>1, <1>2 DEF ImpIsLast, CommonNoted
<1>5. ~Defined(sym[n])
  BY <1>3, <1>4 DEF Defined
<1>6. n \in RootNames \/ (LoadedBy(Len(objs), n, {"undef"}) /\ ~LoadedBy(Len(objs), n, {"weak"}))
  BY DEF Demanded, RootNames
<1>7. sym[n].weak => sym[n].forced
  BY <1>1, <1>6 DEF WeakNoted, ForcedNoted
<1>8. n \in ToSet(order)
  <2>1. LoadedBy(Len(objs), n, {"undef"}) => LoadedBy(Len(objs), n, Role \ {"none", "static"})
    BY DEF LoadedBy, Role
  <2> QED
    BY <1>1, <1>6, <2>1 DEF Interned
<1> QED
  BY <1>4, <1>5, <1>7, <1>8 DEF Unresolved

(* What is needed at a point depends on what was loaded before.            *)
LEMMA DemandedStays ==
  ASSUME Types, NEW k \in 0..Len(objs), NEW n \in Name, UNCHANGED input,
         \A j \in 1..Len(objs) : objs'[j] = objs[j]
  PROVE  Demanded(k, n)' <=> Demanded(k, n)
<1>1. Len(objs) \in Nat
  BY Lengths
<1>2. \A roles : LoadedBy(k, n, roles)' <=> LoadedBy(k, n, roles)
  BY <1>1 DEF LoadedBy
<1> QED
  BY <1>2 DEF Demanded

(* A member is pulled for a name that is needed, and was not pulled before.*)
LEMMA PullIsDemanded ==
  ASSUME Types, Counts, SymOK, PulledOnce, PulledOnDemand, Pull
  PROVE  PulledOnce' /\ PulledOnDemand'
<1> DEFINE k == Len(pulled) + 1
           e == [archive |-> Answering, member |-> MemberDefining(Answering, Asked)]
<1>1. /\ phase = "resolve" /\ Candidates # {} /\ UNCHANGED input
  BY DEF Pull, Resolving
<1>2. /\ Asked \in Name /\ Unresolved(sym[Asked]) /\ Asked \in ToSet(order)
      /\ Answers(Answering, Asked)
  <2>1. Candidates \in SUBSET Nat /\ Candidates \subseteq DOMAIN order
    BY Lengths DEF Candidates
  <2>2. Min0(Candidates) \in DOMAIN order
    BY <1>1, <2>1, Min0IsLeast
  <2> QED
    BY <1>1, <2>2, AskedIsAnswered DEF Asked, ToSet
<1>3. Demanded(Len(objs), Asked)
  BY <1>1, <1>2, UnresolvedIsDemanded
<1>4. /\ Types' /\ Len(pulled') = k /\ Len(objs') = Len(objs) + 1
      /\ \A i \in 1..Len(pulled) : pulled'[i] = pulled[i]
      /\ \A j \in 1..Len(objs) : objs'[j] = objs[j]
      /\ pulled'[k] = e
  BY PullKeeps
<1>5. /\ Len(pulled) \in Nat /\ Len(objs) \in Nat /\ Len(input.explicit) \in Nat
      /\ Len(objs) = Len(input.explicit) + Len(pulled)
      /\ DOMAIN pulled = 1..Len(pulled)
  BY <1>1, Lengths, InputFields DEF Counts
<1>6. DOMAIN pulled' = 1..k
  <2>1. pulled' \in Seq([archive : Nat, member : Nat])
    BY <1>4 DEF Types
  <2> QED
    BY <1>4, <2>1, LenProperties
<1>7. \A i \in 1..Len(pulled) : pulled[i] # e
  BY <1>2, <1>5 DEF Answers, Contains
<1> HIDE DEF e
<1>8. \A i \in 1..k : i \in 1..Len(pulled) \/ i = k
  BY <1>5
<1>9. PulledOnce'
  <2> SUFFICES ASSUME NEW i \in 1..k, NEW j \in 1..k, pulled'[i] = pulled'[j] PROVE i = j
    BY <1>6 DEF PulledOnce, IsInjective
  <2>1. CASE i \in 1..Len(pulled) /\ j \in 1..Len(pulled)
    BY <1>4, <1>5, <2>1 DEF PulledOnce, IsInjective
  <2>2. CASE i = k /\ j \in 1..Len(pulled)
    BY <1>4, <1>7, <2>2
  <2>3. CASE j = k /\ i \in 1..Len(pulled)
    BY <1>4, <1>7, <2>3
  <2> QED
    BY <1>8, <2>1, <2>2, <2>3
<1>10. PulledOnDemand'
  <2> SUFFICES ASSUME NEW i \in 1..k
               PROVE  \E n \in Name : /\ Demanded(Len(input.explicit) + i - 1, n)'
                                      /\ MemberDefining(pulled[i].archive, n)' = pulled'[i].member
    BY <1>1, <1>6 DEF PulledOnDemand
  <2>1. CASE i \in 1..Len(pulled)
    <3>1. PICK n \in Name : /\ Demanded(Len(input.explicit) + i - 1, n)
                            /\ MemberDefining(pulled[i].archive, n) = pulled[i].member
      BY <1>5, <2>1 DEF PulledOnDemand
    <3>2. Len(input.explicit) + i - 1 \in 0..Len(objs)
      BY <1>5, <2>1
    <3>3. Demanded(Len(input.explicit) + i - 1, n)'
      BY <1>1, <1>4, <3>1, <3>2, DemandedStays
    <3> QED
      BY <1>1, <1>4, <2>1, <3>1, <3>3 DEF MemberDefining
  <2>2. CASE i = k
    <3>1. Len(input.explicit) + i - 1 = Len(objs) /\ Len(objs) \in 0..Len(objs)
      BY <1>5, <2>2
    <3>2. PICK n \in Name : n = Asked
      BY <1>2
    <3>3. Demanded(Len(input.explicit) + i - 1, n)
      BY <1>3, <3>1, <3>2
    <3>4. Demanded(Len(input.explicit) + i - 1, n)'
      BY <1>1, <1>4, <3>1, <3>3, DemandedStays
    <3>5. pulled'[i].archive = Answering /\ pulled'[i].member = MemberDefining(Answering, n)
      BY <1>4, <2>2, <3>2 DEF e
    <3>6. MemberDefining(pulled[i].archive, n)' = pulled'[i].member
      BY <1>1, <3>5 DEF MemberDefining
    <3> QED
      BY <3>4, <3>6
  <2> QED
    BY <1>8, <2>1, <2>2
<1> QED
  BY <1>9, <1>10

(* When a pass finds nothing to do, no archive has anything left to give.  *)
LEMMA EndsComplete ==
  ASSUME Types, SymOK, ResolveEnd
  PROVE  NothingMissed'
<1>1. /\ phase = "resolve" /\ Candidates = {}
      /\ UNCHANGED <<input, objs, pulled, imports>>
  BY DEF ResolveEnd, tables
<1> SUFFICES ASSUME NEW n \in Name, NEW a \in DOMAIN input.archives,
                    Demanded(Len(objs), n), ImportsOf(n) = {}, MemberDefining(a, n) # 0
             PROVE  \/ Member(a, n).kind = "orphan"
                    \/ \E k \in DOMAIN pulled :
                         pulled[k] = [archive |-> a, member |-> MemberDefining(a, n)]
  BY <1>1 DEF NothingMissed, Demanded, LoadedBy, ImportsOf, MemberDefining, Member
<1>2. n \in ToSet(order) /\ Unresolved(sym[n])
  BY <1>1, DemandedIsUnresolved
<1>3. PICK i \in DOMAIN order : order[i] = n
  BY <1>2 DEF ToSet
<1>4. ~Answers(a, n)
  BY <1>1, <1>2, <1>3 DEF Candidates, Answered
<1> QED
  BY <1>4, Lengths DEF Answers, Contains

(* The steps after the fixpoint leave alone what it took.                  *)
LEMMA FixpointStays ==
  ASSUME UNCHANGED <<input, objs, pulled, imports>>,
         PulledOnce, PulledOnDemand, NothingMissed,
         phase' \in {"load", "resolve", "failed"} \/ phase \notin {"load", "resolve", "failed"}
  PROVE  PulledOnce' /\ PulledOnDemand' /\ NothingMissed'
<1>1. PulledOnce'
  BY DEF PulledOnce
<1>2. PulledOnDemand'
  BY DEF PulledOnDemand, Demanded, LoadedBy, MemberDefining
<1>3. NothingMissed'
  BY DEF NothingMissed, Demanded, LoadedBy, ImportsOf, MemberDefining, Member
<1> QED
  BY <1>1, <1>2, <1>3

(* So the fixpoint takes from the archives what the link needs.            *)
LEMMA FixpointKept ==
  ASSUME Types, Counts, SymOK, PulledOnce, PulledOnDemand, NothingMissed, [Next]_vars
  PROVE  PulledOnce' /\ PulledOnDemand' /\ NothingMissed'
<1>1. CASE UNCHANGED vars
  BY <1>1, FixpointStays DEF vars
<1>2. CASE Load \/ Roots \/ ResolveImport
  <2>1. UNCHANGED <<input, pulled>> /\ phase \in {"load", "resolve"}
        /\ phase' \in {"load", "resolve", "failed"}
    BY <1>2 DEF Load, Roots, ResolveImport, Resolving
  <2>2. PulledOnce' /\ NothingMissed'
    BY <2>1 DEF PulledOnce, NothingMissed
  <2>3. CASE Load
    <3>1. pulled' = <<>>
      BY <2>1, <2>3 DEF Load, Counts
    <3> QED
      BY <2>2, <3>1 DEF PulledOnDemand
  <2>4. CASE Roots \/ ResolveImport
    <3>1. UNCHANGED <<input, objs, pulled>>
      BY <2>4 DEF Roots, ResolveImport
    <3> QED
      BY <2>2, <3>1 DEF PulledOnDemand, Demanded, LoadedBy, MemberDefining
  <2> QED
    BY <1>2, <2>3, <2>4
<1>3. CASE Pull
  <2>1. NothingMissed'
    BY <1>3 DEF Pull, Resolving, NothingMissed
  <2> QED
    BY <1>3, <2>1, PullIsDemanded
<1>4. CASE ResolveEnd
  <2>1. UNCHANGED <<input, objs, pulled>>
    BY <1>4 DEF ResolveEnd, tables
  <2>2. PulledOnce' /\ PulledOnDemand'
    BY <2>1 DEF PulledOnce, PulledOnDemand, Demanded, LoadedBy, MemberDefining
  <2> QED
    BY <1>4, <2>2, EndsComplete
<1>5. CASE PullFails \/ Collect \/ GcStart \/ GcMark \/ GcEnd \/ Layout \/ ResolveAddrs \/ Relocate
  <2>1. UNCHANGED <<input, objs, pulled, imports>>
    BY <1>5 DEF PullFails, Collect, GcStart, GcMark, GcEnd, Layout, ResolveAddrs, Relocate, tables
  <2>2. phase' \in {"load", "resolve", "failed"} \/ phase \notin {"load", "resolve", "failed"}
    BY <1>5 DEF PullFails, Collect, GcStart, GcMark, GcEnd, Layout, ResolveAddrs, Relocate
  <2> QED
    BY <2>1, <2>2, FixpointStays
<1> QED
  BY <1>1, <1>2, <1>3, <1>4, <1>5 DEF Next

(* The initial state.                                                      *)
LEMMA TablesInit ==
  ASSUME Init
  PROVE  /\ Types /\ Counts /\ SymOK
         /\ PulledOnce /\ PulledOnDemand /\ NothingMissed
<1>1. NewSym \in SymType
  BY DEF NewSym, SymType
<1>2. /\ input \in Inputs /\ phase = "load" /\ sym = [n \in Name |-> NewSym]
      /\ objs = <<>> /\ pulled = <<>> /\ order = <<>> /\ imports = <<>>
  BY DEF Init
<1>3. /\ objs \in Seq(Object) /\ pulled \in Seq([archive : Nat, member : Nat])
      /\ imports \in Seq([local : DOMAIN Imp, before : Nat]) /\ order \in Seq(Name)
      /\ DOMAIN imports = {} /\ DOMAIN objs = {} /\ DOMAIN pulled = {} /\ DOMAIN order = {}
      /\ Len(objs) = 0 /\ Len(pulled) = 0
  BY <1>2
<1>4. Types
  BY <1>1, <1>2, <1>3 DEF Types, IsInjective
<1>5. Counts
  <2>1. Len(input.explicit) \in Nat
    BY <1>4, InputFields
  <2> QED
    BY <1>2, <1>3, <2>1 DEF Counts
<1>6. \A n \in Name : /\ ImportsOf(n) = {} /\ \A roles : ~LoadedBy(Len(objs), n, roles)
                      /\ sym[n] = NewSym /\ n \notin ToSet(order)
  BY <1>2, <1>3 DEF ImportsOf, LoadedBy, ToSet
<1>7. SymOK
  <2> SUFFICES ASSUME NEW n \in Name
               PROVE  /\ ObjIsFirst(n) /\ ImpIsLast(n)
                      /\ CommonNoted(n) /\ WeakNoted(n) /\ ForcedNoted(n) /\ Interned(n)
    BY DEF SymOK
  <2>1. ObjIsFirst(n) /\ ImpIsLast(n)
    BY <1>6 DEF ObjIsFirst, ImpIsLast, NewSym
  <2>2. CommonNoted(n) /\ WeakNoted(n)
    BY <1>6 DEF CommonNoted, WeakNoted, NewSym
  <2>3. ForcedNoted(n) /\ Interned(n)
    BY <1>2, <1>6 DEF ForcedNoted, Interned, NewSym
  <2> QED
    BY <2>1, <2>2, <2>3
<1>8. PulledOnce /\ PulledOnDemand /\ NothingMissed
  BY <1>2, <1>3 DEF PulledOnce, PulledOnDemand, NothingMissed, IsInjective
<1> QED
  BY <1>4, <1>5, <1>7, <1>8

(* The links of the linker take from the archives exactly what is needed.  *)
THEOREM SpecArchivesExact == Spec => []ArchivesExact
<1> DEFINE Inv == /\ Types /\ Counts /\ SymOK
                  /\ PulledOnce /\ PulledOnDemand /\ NothingMissed
<1>1. Init => Inv
  BY TablesInit
<1>2. Inv /\ [Next]_vars => Inv'
  BY TablesKept, FixpointKept
<1>3. Inv => ArchivesExact
  BY DEF ArchivesExact
<1> QED
  BY <1>1, <1>2, <1>3, PTL DEF Spec

-----------------------------------------------------------------------------
(* The sections: what is kept, and how the index finds it.                 *)

(* The kept sections are finitely many.                                    *)
LEMMA KeptIsFinite ==
  ASSUME Types
  PROVE  Kept \in SUBSET [obj : Nat, name : Name] /\ IsFiniteSet(Kept)
<1>1. DOMAIN objs = 1..Len(objs) /\ Len(objs) \in Nat
  BY Lengths
<1>2. IsFiniteSet(DOMAIN objs) /\ IsFiniteSet(Name)
  BY <1>1, FS_Interval, NameAt
<1>3. IsFiniteSet((DOMAIN objs) \X Name)
  BY <1>2, FS_Product
<1>4. IsFiniteSet(Section)
  <2> DEFINE f == [p \in (DOMAIN objs) \X Name |-> [obj |-> p[1], name |-> p[2]]]
  <2>1. f \in [(DOMAIN objs) \X Name -> Section]
    BY DEF Section
  <2>2. \A s \in Section : \E p \in (DOMAIN objs) \X Name : f[p] = s
    <3>1. ASSUME NEW s \in Section PROVE \E p \in (DOMAIN objs) \X Name : f[p] = s
      <4>1. s.obj \in DOMAIN objs /\ s.name \in Name /\ s = [obj |-> s.obj, name |-> s.name]
        BY DEF Section
      <4>2. <<s.obj, s.name>> \in (DOMAIN objs) \X Name /\ f[<<s.obj, s.name>>] = s
        BY <4>1
      <4> QED
        BY <4>2
    <3> QED
      BY <3>1
  <2>3. f \in Surjection((DOMAIN objs) \X Name, Section)
    BY <2>1, <2>2 DEF Surjection
  <2> QED
    BY <1>3, <2>3, FS_Surjection
<1>5. Kept \in SUBSET Section
  BY DEF Kept
<1>6. Section \in SUBSET [obj : Nat, name : Name]
  BY <1>1 DEF Section
<1> QED
  BY <1>4, <1>5, <1>6, FS_Subset

(* A list that names each kept section once is laid out and indexed.       *)
LEMMA ListIsLaid ==
  ASSUME Lists(contribs', Kept), map' = MapOf(contribs'), UNCHANGED objs, Collected'
  PROVE  Laid'
<1>1. Kept' = Kept
  BY DEF Kept, Section, HasSection, Duplicate
<1>2. /\ ToSet(contribs') = Kept /\ DOMAIN contribs' = 1..Cardinality(Kept)
      /\ IsInjective(contribs')
  BY DEF Lists
<1>3. map' = MapOf(contribs)'
  BY DEF MapOf
<1> QED
  BY <1>1, <1>2, <1>3 DEF Laid

(* contrib_map: a kept section is found in its place, another one is not.  *)
LEMMA IndexFinds ==
  ASSUME Types, Laid, Collected
  PROVE  /\ DOMAIN map = Kept
         /\ \A s \in Kept : /\ map[s] = IndexOf(contribs, s) /\ map[s] \in DOMAIN contribs
                            /\ contribs[map[s]] = s
         /\ \A s : MapGet(s) = IF s \in Kept THEN {s} ELSE {}
<1>1. ToSet(contribs) = Kept /\ map = MapOf(contribs)
  BY DEF Laid
<1>2. DOMAIN map = Kept /\ \A s \in Kept : map[s] = IndexOf(contribs, s)
  BY <1>1 DEF MapOf
<1>3. ASSUME NEW s \in Kept
      PROVE  IndexOf(contribs, s) \in DOMAIN contribs /\ contribs[IndexOf(contribs, s)] = s
  BY <1>1 DEF ToSet, IndexOf
<1>4. ASSUME NEW s PROVE MapGet(s) = IF s \in Kept THEN {s} ELSE {}
  BY <1>2, <1>3 DEF MapGet
<1> QED
  BY <1>2, <1>3, <1>4

(* The object's own section is kept when it has one that was not folded.   *)
LEMMA OwnIsOwnDef ==
  ASSUME Types, Laid, Collected, NEW o \in DOMAIN objs, NEW n \in Name
  PROVE  Own(o, n) = OwnDef(o, n) /\ OwnDef(o, n) \subseteq Kept
<1> DEFINE s == [obj |-> o, name |-> n]
<1>1. s \in Section /\ s.obj = o /\ s.name = n
  BY DEF Section
<1> HIDE DEF s
<1>2. s \in Kept <=> HasSection(s) /\ ~Duplicate(s)
  BY <1>1 DEF Kept
<1>3. OwnDef(o, n) = IF s \in Kept THEN {s} ELSE {}
  BY <1>2 DEF OwnDef, s
<1>4. MapGet(s) = IF s \in Kept THEN {s} ELSE {}
  BY IndexFinds
<1>5. Own(o, n) = IF objs[o].role[n] \in Placed THEN MapGet(s) ELSE {}
  BY DEF Own, s
<1>6. s \in Kept => objs[o].role[n] \in Placed
  BY <1>1, <1>2 DEF HasSection
<1> QED
  BY <1>3, <1>4, <1>5, <1>6

(* The table's definition of a name is the first one loaded, and is kept.  *)
LEMMA TableIsGlobalDef ==
  ASSUME Types, SymOK, NEW n \in Name
  PROVE  /\ GlobalDef(n) = IF sym[n].obj = 0 THEN {} ELSE {[obj |-> sym[n].obj, name |-> n]}
         /\ GlobalDef(n) \subseteq Kept
<1> DEFINE ds == {i \in DOMAIN objs : objs[i].role[n] \in Global}
<1>1. ObjIsFirst(n)
  BY DEF SymOK
<1>2. DOMAIN objs = 1..Len(objs) /\ Len(objs) \in Nat /\ ds \in SUBSET Nat
  BY Lengths
<1>3. ds # {} => Min0(ds) \in ds /\ \A y \in ds : Min0(ds) <= y
  BY <1>2, Min0IsLeast
<1>4. \A i \in ImportsOf(n) : imports[i].before \in Nat
  BY Lengths DEF ImportsOf
<1>5. CASE sym[n].obj = 0
  <2>1. CASE ~LoadedBy(Len(objs), n, Global)
    <3>1. ds = {}
      BY <1>2, <2>1 DEF LoadedBy
    <3> QED
      BY <1>5, <3>1 DEF GlobalDef
  <2>2. CASE ds # {} /\ \E i \in ImportsOf(n) : ~LoadedBy(imports[i].before, n, Global)
    <3>1. PICK i \in ImportsOf(n) : ~LoadedBy(imports[i].before, n, Global)
      BY <2>2
    <3>2. Min0(ds) \in ds /\ Min0(ds) \notin 1..imports[i].before
      BY <1>3, <2>2, <3>1 DEF LoadedBy
    <3>3. imports[i].before < Min0(ds)
      BY <1>2, <1>4, <3>2
    <3> QED
      BY <1>5, <3>1, <3>3 DEF GlobalDef
  <2>3. ds = {} => ~LoadedBy(Len(objs), n, Global)
    BY <1>2 DEF LoadedBy
  <2> QED
    BY <1>1, <1>5, <2>1, <2>2, <2>3 DEF ObjIsFirst
<1>6. CASE sym[n].obj # 0
  <2> DEFINE k == sym[n].obj
             s == [obj |-> k, name |-> n]
  <2>1. /\ k \in ds /\ ~LoadedBy(k - 1, n, Global)
        /\ \A i \in ImportsOf(n) : k <= imports[i].before
    BY <1>1, <1>6 DEF ObjIsFirst
  <2>2. k \in Nat /\ Min0(ds) \in ds /\ Min0(ds) \in Nat /\ Min0(ds) <= k
    BY <1>2, <1>3, <2>1
  <2>3. Min0(ds) \notin 1..(k - 1)
    BY <2>1, <2>2 DEF LoadedBy
  <2>4. Min0(ds) = k
    BY <1>2, <2>2, <2>3
  <2>5. ~\E i \in ImportsOf(n) : imports[i].before < Min0(ds)
    BY <1>4, <2>1, <2>2, <2>4
  <2>6. GlobalDef(n) = {s}
    BY <2>1, <2>4, <2>5 DEF GlobalDef
  <2>7. s \in Section /\ s.obj = k /\ s.name = n
    BY <2>1 DEF Section
  <2>8. objs[k].role[n] \in Placed
    BY <2>1 DEF Global, Placed
  <2>9. ~\E j \in 1..(k - 1) : objs[j].role[n] = "comdat"
    BY <2>1 DEF LoadedBy, Global
  <2> HIDE DEF s
  <2>10. s \in Kept
    BY <2>7, <2>8, <2>9 DEF Kept, HasSection, Duplicate
  <2> QED
    BY <1>6, <2>6, <2>10 DEF s
<1> QED
  BY <1>5, <1>6

(* So the definition the index gives is the one the name means.            *)
LEMMA DefinedIsGlobalDef ==
  ASSUME Types, SymOK, Laid, Collected, NEW n \in Name
  PROVE  DefinedIn(n) = GlobalDef(n)
<1>1. CASE sym[n].obj = 0
  BY <1>1, TableIsGlobalDef DEF DefinedIn
<1>2. CASE sym[n].obj # 0
  <2>1. GlobalDef(n) = {[obj |-> sym[n].obj, name |-> n]}
    BY <1>2, TableIsGlobalDef
  <2>2. [obj |-> sym[n].obj, name |-> n] \in Kept
    BY <2>1, TableIsGlobalDef
  <2> QED
    BY <1>2, <2>1, <2>2, IndexFinds DEF DefinedIn
<1> QED
  BY <1>1, <1>2

(* gc_mark_target marks what the name means, which is kept.                *)
LEMMA MarksDefinition ==
  ASSUME Types, SymOK, Laid, Collected, NEW o \in DOMAIN objs, NEW n \in Name
  PROVE  MarkTarget(o, n) = Definition(o, n) /\ Definition(o, n) \subseteq Kept
  BY OwnIsOwnDef, DefinedIsGlobalDef, TableIsGlobalDef DEF MarkTarget, Definition

(* A step that leaves the objects and the contributions alone.             *)
LEMMA LaidStays ==
  ASSUME Laid, UNCHANGED <<objs, contribs, map>>, Collected' <=> Collected,
         ~Collected => UNCHANGED <<live, queue>>
  PROVE  Laid'
<1>1. Kept' = Kept
  BY DEF Kept, Section, HasSection, Duplicate
<1>2. MapOf(contribs)' = MapOf(contribs)
  BY DEF MapOf
<1> QED
  BY <1>1, <1>2 DEF Laid

(* Every step keeps the sections laid out.                                 *)
LEMMA LaidKept ==
  ASSUME Types, Laid, Marking, [Next]_vars
  PROVE  Laid'
<1>1. CASE UNCHANGED vars
  <2>1. UNCHANGED <<objs, contribs, map, live, queue, phase>>
    BY <1>1 DEF vars
  <2> QED
    BY <2>1, LaidStays DEF Collected
<1>2. CASE Load \/ Roots \/ ResolveImport \/ Pull \/ PullFails \/ ResolveEnd
  <2>1. phase \in {"load", "resolve"} /\ UNCHANGED <<contribs, map, live, queue>>
        /\ phase' \in {"load", "resolve", "collect", "failed"}
    BY <1>2 DEF Load, Roots, ResolveImport, Pull, PullFails, ResolveEnd, Resolving, sections
  <2>2. ~Collected /\ contribs = <<>> /\ DOMAIN map = {} /\ live = {} /\ queue = {}
    BY <2>1 DEF Laid, Collected
  <2>3. ~Collected'
    BY <2>1, <2>2 DEF Collected
  <2> QED
    BY <2>1, <2>2, <2>3 DEF Laid
<1>3. CASE Collect
  <2>1. contribs' = Sorted(Kept, Earlier) /\ map' = MapOf(contribs') /\ phase' = "gc"
        /\ UNCHANGED objs
    BY <1>3 DEF Collect, Kept, tables
  <2>2. Lists(contribs', Kept)
    BY <2>1, KeptIsFinite, SortedByObject
  <2> QED
    BY <2>1, <2>2, ListIsLaid DEF Collected
<1>4. CASE GcStart \/ GcMark \/ GcEnd
  <2>1. UNCHANGED <<objs, contribs, map>> /\ phase \in {"gc", "mark"}
        /\ phase' \in {"mark", "layout"}
    BY <1>4 DEF GcStart, GcMark, GcEnd, tables, sections
  <2> QED
    BY <2>1, LaidStays DEF Collected
<1>5. CASE Layout
  <2>1. contribs' = Sorted(ToSet(contribs), Before) /\ map' = MapOf(contribs')
        /\ phase = "layout" /\ phase' = "address" /\ UNCHANGED objs
    BY <1>5 DEF Layout, RefreshMap
  <2>2. ToSet(contribs) = Kept
    BY <2>1 DEF Laid, Collected
  <2>3. Lists(contribs', Kept)
    BY <2>1, <2>2, KeptIsFinite, SortedByKey
  <2> QED
    BY <2>1, <2>3, ListIsLaid DEF Collected
<1>6. CASE ResolveAddrs \/ Relocate
  <2>1. UNCHANGED <<objs, contribs, map, live, queue>> /\ phase \in {"address", "relocate"}
        /\ phase' \in {"relocate", "done", "failed"}
    BY <1>6 DEF ResolveAddrs, Relocate, tables, sections
  <2>2. Collected
    BY <2>1 DEF Collected
  <2>3. CASE Collected'
    BY <2>1, <2>2, <2>3, LaidStays
  <2>4. CASE ~Collected'
    <3>1. contribs = <<>>
      BY <2>1, <2>4 DEF Collected
    <3>2. Kept = {}
      BY <2>2, <3>1 DEF Laid, ToSet
    <3>3. DOMAIN map = {}
      BY <2>2, <3>2, IndexFinds
    <3>4. live = {} /\ queue = {}
      BY <3>2 DEF Marking
    <3> QED
      BY <2>1, <2>4, <3>1, <3>3, <3>4 DEF Laid
  <2> QED
    BY <2>3, <2>4
<1> QED
  BY <1>1, <1>2, <1>3, <1>4, <1>5, <1>6 DEF Next

-----------------------------------------------------------------------------
(* gc_sections.                                                            *)

(* The roots it starts with are the root sections.                         *)
LEMMA RootsAreKept ==
  ASSUME Types, SymOK, Laid, Collected
  PROVE  /\ RootSections = {s \in Kept : s.obj = 1 \/ s.name \in KeepNames} \cup
                           UNION {DefinedIn(n) : n \in {Entry, TlsUsed} \cup input.force}
         /\ RootSections \subseteq Kept
<1>1. ToSet(contribs) = Kept
  BY DEF Laid
<1>2. \A n \in {Entry, TlsUsed} \cup input.force :
        n \in Name /\ DefinedIn(n) = GlobalDef(n) /\ GlobalDef(n) \subseteq Kept
  BY InputFields, DefinedIsGlobalDef, TableIsGlobalDef
<1> QED
  BY <1>1, <1>2 DEF RootSections

(* What a section refers to are names, and it is in an object.             *)
LEMMA RefsAreNames ==
  ASSUME Types, NEW s \in Kept
  PROVE  s.obj \in DOMAIN objs /\ s.name \in Name /\ RefsOf(s) \in SUBSET Name
<1>1. s.obj \in DOMAIN objs /\ s.name \in Name
  BY DEF Kept, Section
<1> QED
  BY <1>1, Lengths, ObjectFields DEF RefsOf

(* What the references of a section mean.                                  *)
Meant(s) == UNION {Definition(s.obj, n) : n \in RefsOf(s)}

(* One section scanned marks just that.                                    *)
LEMMA Scanned ==
  ASSUME Types, SymOK, Laid, Collected, NEW s \in Kept
  PROVE  NewlyLive(s) = Meant(s) \ live /\ Meant(s) \subseteq Kept
<1>1. \A n \in RefsOf(s) : /\ MarkTarget(s.obj, n) = Definition(s.obj, n)
                           /\ Definition(s.obj, n) \subseteq Kept
  BY RefsAreNames, MarksDefinition
<1>2. \A x : x \in NewlyLive(s) <=> x \in Meant(s) /\ x \notin live
  BY <1>1 DEF NewlyLive, Meant
<1>3. Meant(s) \subseteq Kept
  BY <1>1 DEF Meant
<1> QED
  BY <1>2, <1>3

(* The kept sections are closed under reference.                           *)
LEMMA KeptIsClosed ==
  ASSUME Types, SymOK, Laid, Collected
  PROVE  Closed(Kept)
  BY RefsAreNames, MarksDefinition DEF Closed

(* What a section refers to depends on the objects and the imports.        *)
LEMMA MeaningStays ==
  ASSUME UNCHANGED <<input, objs, imports>>
  PROVE  /\ Kept' = Kept
         /\ \A s : RefsOf(s)' = RefsOf(s)
         /\ \A n : GlobalDef(n)' = GlobalDef(n) /\ ImportsOf(n)' = ImportsOf(n)
         /\ \A o, n : OwnDef(o, n)' = OwnDef(o, n) /\ Definition(o, n)' = Definition(o, n)
         /\ \A T : Closed(T)' <=> Closed(T)
<1>1. Kept' = Kept /\ \A s : RefsOf(s)' = RefsOf(s)
  BY DEF Kept, Section, HasSection, Duplicate, RefsOf
<1>2. \A n : GlobalDef(n)' = GlobalDef(n) /\ ImportsOf(n)' = ImportsOf(n)
  BY DEF GlobalDef, ImportsOf
<1>3. \A o, n : OwnDef(o, n)' = OwnDef(o, n)
  BY DEF OwnDef, HasSection, Duplicate
<1>4. \A o, n : Definition(o, n)' = Definition(o, n)
  BY <1>2, <1>3 DEF Definition
<1>5. \A T : Closed(T)' <=> Closed(T)
  BY <1>1, <1>4 DEF Closed
<1> QED
  BY <1>1, <1>2, <1>3, <1>4, <1>5

(* The roots stay the roots while the contributions do.                    *)
LEMMA RootsStay ==
  ASSUME UNCHANGED <<input, objs, imports, contribs>>
  PROVE  RootSections' = RootSections
<1>1. \A n : GlobalDef(n)' = GlobalDef(n)
  BY MeaningStays
<1> QED
  BY <1>1 DEF RootSections

(* Before the sections are collected, and after the sweep.                 *)
LEMMA MarkingStays ==
  ASSUME Types, Laid, Laid', Marking, [Next]_vars,
         UNCHANGED <<live, queue>>, phase' \notin {"gc", "mark"},
         Collected' => Swept /\ UNCHANGED <<input, objs, imports>>
  PROVE  Marking'
<1>1. CASE Collected'
  <2>1. Kept' = Kept /\ (Closed(live)' <=> Closed(live)) /\ Swept
    <3>1. \A T : Closed(T)' <=> Closed(T)
      BY <1>1, MeaningStays
    <3>2. Closed(live)' <=> Closed(live)
      BY <1>1, MeaningStays DEF Closed
    <3> QED
      BY <1>1, <3>2, MeaningStays
  <2> QED
    BY <1>1, <2>1 DEF Marking, Swept
<1>2. CASE ~Collected'
  <2>1. live' = {} /\ queue' = {}
    BY <1>2 DEF Laid
  <2> QED
    BY <1>2, <2>1 DEF Marking, Swept
<1> QED
  BY <1>1, <1>2

(* The sweep begins.                                                       *)
LEMMA SweepStarts ==
  ASSUME Types, SymOK, Laid, Marking, GcStart
  PROVE  Marking' /\ LiveExact'
<1>1. /\ phase = "gc" /\ UNCHANGED <<input, objs, imports, contribs>> /\ Collected
      /\ live = Kept /\ ToSet(contribs) = Kept
  BY DEF GcStart, tables, Collected, Marking, Laid
<1>2. Kept' = Kept /\ RootSections' = RootSections /\ \A T : Closed(T)' <=> Closed(T)
  BY <1>1, MeaningStays, RootsStay
<1>3. CASE ~input.gc \/ contribs = <<>>
  <2>1. phase' = "layout" /\ UNCHANGED <<live, queue>>
    BY <1>3 DEF GcStart
  <2>2. Closed(live) /\ (Closed(live)' <=> Closed(live))
    BY <1>1, <2>1, KeptIsClosed, MeaningStays DEF Closed
  <2>3. Marking'
    BY <1>2, <2>1, <2>2 DEF Marking, Swept
  <2>4. contribs = <<>> => live' = {} /\ RootSections' = {}
    <3>1. contribs = <<>> => Kept = {}
      BY <1>1 DEF ToSet
    <3> QED
      BY <1>1, <1>2, <2>1, <3>1, RootsAreKept
  <2>5. contribs = <<>> => LiveExact'
    BY <2>2, <2>4 DEF LiveExact
  <2>6. ~input.gc => LiveExact'
    BY <1>1 DEF LiveExact
  <2> QED
    BY <1>3, <2>3, <2>5, <2>6
<1>4. CASE input.gc /\ contribs # <<>>
  <2>1. live' = RootSections /\ queue' = RootSections /\ phase' = "mark"
    <3>1. RootSections = {s \in live : s.obj = 1 \/ s.name \in KeepNames} \cup
                         UNION {DefinedIn(n) : n \in {Entry, TlsUsed} \cup input.force}
      BY <1>1, RootsAreKept
    <3> QED
      BY <1>4, <3>1 DEF GcStart
  <2>2. RootSections \subseteq Kept
    BY <1>1, RootsAreKept
  <2>3. Marking'
    BY <1>1, <1>2, <1>4, <2>1, <2>2 DEF Marking, Swept
  <2> QED
    BY <2>1, <2>3 DEF LiveExact
<1> QED
  BY <1>3, <1>4

(* A section is scanned.                                                   *)
LEMMA SweepScans ==
  ASSUME Types, SymOK, Laid, Marking, GcMark
  PROVE  Marking' /\ LiveExact'
<1>1. /\ phase = "mark" /\ phase' = "mark" /\ UNCHANGED <<input, objs, imports, contribs>>
      /\ Collected
  BY DEF GcMark, tables, Collected
<1>2. PICK s \in queue : /\ live' = live \cup NewlyLive(s)
                         /\ queue' = (queue \ {s}) \cup NewlyLive(s)
  BY DEF GcMark
<1>3. s \in Kept /\ s \in live
  BY DEF Marking
<1>4. NewlyLive(s) = Meant(s) \ live /\ Meant(s) \subseteq Kept
  BY <1>1, <1>3, Scanned
<1>5. /\ Kept' = Kept /\ RootSections' = RootSections
      /\ \A u : RefsOf(u)' = RefsOf(u)
      /\ \A o, n : Definition(o, n)' = Definition(o, n)
      /\ \A T : Closed(T)' <=> Closed(T)
  BY <1>1, MeaningStays, RootsStay
<1>6. /\ input.gc /\ RootSections \subseteq live /\ queue \subseteq live /\ live \subseteq Kept
      /\ \A u \in live \ queue : \A n \in RefsOf(u) : Definition(u.obj, n) \subseteq live
      /\ \A T \in SUBSET Kept : RootSections \subseteq T /\ Closed(T) => live \subseteq T
  BY <1>1 DEF Marking
<1>7. live' = live \cup Meant(s)
  BY <1>2, <1>4
<1>8. queue' \subseteq live' /\ live' \subseteq Kept
  BY <1>2, <1>4, <1>6
<1>9. \A u \in live' \ queue' : \A n \in RefsOf(u) : Definition(u.obj, n) \subseteq live'
  <2> SUFFICES ASSUME NEW u \in live' \ queue', NEW n \in RefsOf(u)
               PROVE  Definition(u.obj, n) \subseteq live'
    OBVIOUS
  <2>1. u = s \/ u \in live \ queue
    BY <1>2
  <2>2. u = s => Definition(u.obj, n) \subseteq Meant(s)
    BY DEF Meant
  <2> QED
    BY <1>6, <1>7, <2>1, <2>2
<1>10. ASSUME NEW T \in SUBSET Kept, RootSections \subseteq T, Closed(T)
       PROVE  live' \subseteq T
  <2>1. live \subseteq T /\ s \in T
    BY <1>3, <1>6, <1>10
  <2>2. Meant(s) \subseteq T
    BY <1>10, <2>1 DEF Closed, Meant
  <2> QED
    BY <1>7, <2>1, <2>2
<1>11. Marking'
  <2>1. \A u \in live' \ queue' : \A n \in RefsOf(u)' : Definition(u.obj, n)' \subseteq live'
    BY <1>5, <1>9
  <2>2. \A T \in SUBSET (Kept') : RootSections' \subseteq T /\ Closed(T)' => live' \subseteq T
    BY <1>5, <1>10
  <2>3. input'.gc /\ RootSections' \subseteq live'
    BY <1>1, <1>5, <1>6, <1>7
  <2> QED
    BY <1>1, <1>5, <1>8, <2>1, <2>2, <2>3 DEF Marking, Swept
<1> QED
  BY <1>1, <1>11 DEF LiveExact

(* The worklist is empty: the live sections are the least closed set.      *)
LEMMA SweepEnds ==
  ASSUME Types, SymOK, Laid, Marking, GcEnd
  PROVE  Marking' /\ LiveExact'
<1>1. /\ phase = "mark" /\ phase' = "layout" /\ queue = {}
      /\ UNCHANGED <<input, objs, imports, contribs, live, queue>>
  BY DEF GcEnd, tables, sections
<1>2. /\ Kept' = Kept /\ RootSections' = RootSections
      /\ \A T : Closed(T)' <=> Closed(T)
  BY <1>1, MeaningStays, RootsStay
<1>3. /\ RootSections \subseteq live /\ live \subseteq Kept
      /\ \A s \in live \ queue : \A n \in RefsOf(s) : Definition(s.obj, n) \subseteq live
      /\ \A T \in SUBSET Kept : RootSections \subseteq T /\ Closed(T) => live \subseteq T
  BY <1>1 DEF Marking
<1>4. Closed(live)
  BY <1>1, <1>3 DEF Closed
<1>5. Closed(live)'
  BY <1>1, <1>2, <1>4
<1>6. Marking'
  BY <1>1, <1>2, <1>3, <1>5 DEF Marking, Swept
<1>7. \A T \in SUBSET live' : RootSections' \subseteq T /\ Closed(T)' => T = live'
  <2> SUFFICES ASSUME NEW T \in SUBSET live, RootSections \subseteq T, Closed(T) PROVE T = live
    BY <1>1, <1>2
  <2> QED
    BY <1>3
<1>8. LiveExact'
  BY <1>1, <1>2, <1>3, <1>5, <1>7 DEF LiveExact
<1> QED
  BY <1>6, <1>8

(* So every step keeps what is marked, and the sweep ends exactly.         *)
LEMMA MarkingKept ==
  ASSUME Types, SymOK, Laid, Laid', Marking, LiveExact, [Next]_vars
  PROVE  Marking' /\ LiveExact'
<1>1. CASE UNCHANGED vars
  <2>1. UNCHANGED <<input, phase, objs, imports, contribs, live, queue>>
    BY <1>1 DEF vars
  <2>2. /\ Kept' = Kept /\ RootSections' = RootSections
        /\ \A u : RefsOf(u)' = RefsOf(u)
        /\ \A o, n : Definition(o, n)' = Definition(o, n)
        /\ \A T : Closed(T)' <=> Closed(T)
    BY <2>1, MeaningStays, RootsStay
  <2>3. Closed(live)' <=> Closed(live)
    BY <2>1, <2>2 DEF Closed
  <2>4. (Swept' <=> Swept)
    BY <2>1 DEF Swept, Collected
  <2>5. Marking'
    BY <2>1, <2>2, <2>3, <2>4 DEF Marking
  <2>6. LiveExact'
    BY <2>1, <2>2, <2>3 DEF LiveExact
  <2> QED
    BY <2>5, <2>6
<1>2. CASE Load \/ Roots \/ ResolveImport \/ Pull \/ PullFails \/ ResolveEnd
  <2>1. phase \in {"load", "resolve"} /\ UNCHANGED <<contribs, live, queue>>
        /\ phase' \in {"load", "resolve", "collect", "failed"}
    BY <1>2 DEF Load, Roots, ResolveImport, Pull, PullFails, ResolveEnd, Resolving, sections
  <2>2. contribs = <<>>
    BY <2>1 DEF Laid, Collected
  <2>3. ~Collected'
    BY <2>1, <2>2 DEF Collected
  <2> QED
    BY <2>1, <2>3, MarkingStays DEF LiveExact
<1>3. CASE Collect
  <2>1. /\ live' = Kept /\ UNCHANGED <<objs, queue>> /\ phase = "collect" /\ phase' = "gc"
    BY <1>3 DEF Collect, Kept, tables
  <2>2. queue' = {} /\ Kept' = Kept
    BY <2>1 DEF Laid, Collected, Kept, Section, HasSection, Duplicate
  <2>3. Marking'
    BY <2>1, <2>2 DEF Marking, Swept
  <2> QED
    BY <2>1, <2>3 DEF LiveExact
<1>4. CASE Layout \/ ResolveAddrs \/ Relocate
  <2>1. /\ phase \in {"layout", "address", "relocate"}
        /\ phase' \in {"address", "relocate", "done", "failed"}
        /\ UNCHANGED <<input, objs, imports, live, queue>>
        /\ phase # "layout" => UNCHANGED contribs
    BY <1>4 DEF Layout, ResolveAddrs, Relocate, tables, sections
  <2>2. Swept
    BY <2>1 DEF Swept, Collected
  <2> QED
    BY <2>1, <2>2, MarkingStays DEF LiveExact
<1> QED
  BY <1>1, <1>2, <1>3, <1>4, SweepStarts, SweepScans, SweepEnds DEF Next

(* The sweep leaves the sections the link needs, and no other.             *)
THEOREM SpecLiveExact == Spec => []LiveExact
<1> DEFINE Inv == Types /\ Counts /\ SymOK /\ Laid /\ Marking /\ LiveExact
<1>1. Init => Inv
  <2> SUFFICES ASSUME Init PROVE Inv
    OBVIOUS
  <2>1. /\ phase = "load" /\ contribs = <<>> /\ map = <<>> /\ live = {} /\ queue = {}
    BY DEF Init
  <2>2. DOMAIN map = {}
    BY <2>1
  <2>3. Laid /\ Marking /\ LiveExact
    BY <2>1, <2>2 DEF Laid, Marking, LiveExact, Collected, Swept
  <2> QED
    BY <2>3, TablesInit
<1>2. Inv /\ [Next]_vars => Inv'
  BY TablesKept, LaidKept, MarkingKept
<1> QED
  BY <1>1, <1>2, PTL DEF Spec

-----------------------------------------------------------------------------
(* Addresses and relocations.                                              *)

(* The addresses are those of the symbol table and of the sections.        *)
LEMMA TargetsStay ==
  ASSUME UNCHANGED <<objs, sym, contribs, map, live>>
  PROVE  /\ \A n : AddrOf(n)' = AddrOf(n)
         /\ LiveRelocs' = LiveRelocs
         /\ \A o, n : Resolvable(o, n)' <=> Resolvable(o, n)
         /\ rva' = rva => \A o, n : Target(o, n)' = Target(o, n)
<1>1. \A s : SectionAddr(s)' = SectionAddr(s)
  BY DEF SectionAddr, Offset
<1>2. \A n : SymAddr(n)' = SymAddr(n)
  BY <1>1 DEF SymAddr
<1>3. \A n : AddrOf(n)' = AddrOf(n)
  BY <1>2 DEF AddrOf, FallsBack, Defined
<1>4. \A o, n : OwnLive(o, n)' = OwnLive(o, n)
  BY DEF OwnLive, Own, MapGet
<1>5. \A o, n : Resolvable(o, n)' <=> Resolvable(o, n)
  BY <1>4 DEF Resolvable, Defined
<1>6. rva' = rva => \A o, n : Target(o, n)' = Target(o, n)
  BY <1>1, <1>4 DEF Target, Defined
<1>7. LiveRelocs' = LiveRelocs
  BY DEF LiveRelocs, Relocs, RefsOf
<1> QED
  BY <1>3, <1>5, <1>6, <1>7

(* The tables of the last passes.                                          *)
LEMMA BoundKept ==
  ASSUME Types, SymOK, Laid, Bound, [Next]_vars
  PROVE  Bound'
<1>1. CASE UNCHANGED vars
  <2>1. UNCHANGED <<phase, objs, sym, contribs, map, live, rva, bound>>
    BY <1>1 DEF vars
  <2>2. /\ \A n : AddrOf(n)' = AddrOf(n)
        /\ LiveRelocs' = LiveRelocs
        /\ \A o, n : Resolvable(o, n)' <=> Resolvable(o, n)
        /\ \A o, n : Target(o, n)' = Target(o, n)
    BY <2>1, TargetsStay
  <2>3. (Swept' <=> Swept) /\ \A n : Defined(sym[n])' <=> Defined(sym[n])
    BY <2>1 DEF Swept, Collected, Defined
  <2> QED
    BY <2>1, <2>2, <2>3 DEF Bound
<1>2. CASE Load \/ Roots \/ ResolveImport \/ Pull \/ PullFails \/ ResolveEnd
  <2>1. phase \in {"load", "resolve"} /\ UNCHANGED contribs
        /\ phase' \in {"load", "resolve", "collect", "failed"}
    BY <1>2 DEF Load, Roots, ResolveImport, Pull, PullFails, ResolveEnd, Resolving, sections
  <2>2. contribs' = <<>>
    BY <2>1 DEF Laid, Collected
  <2> QED
    BY <2>1, <2>2 DEF Bound, Swept, Collected
<1>3. CASE Collect \/ GcStart \/ GcMark \/ GcEnd
  <2>1. phase' \in {"gc", "mark", "layout"}
    BY <1>3 DEF Collect, GcStart, GcMark, GcEnd
  <2> QED
    BY <2>1 DEF Bound, Swept, Collected
<1>4. CASE Layout
  <2>1. phase = "layout" /\ phase' = "address" /\ sym' = CommitCommons
    BY <1>4 DEF Layout
  <2>2. /\ \A n \in Name : sym'[n].common = 1 => Defined(sym'[n])
        /\ \A m, n \in Name :
             sym'[m].common = 2 /\ sym'[n].common = 2 /\ sym'[m].slot = sym'[n].slot => m = n
    BY <2>1, CommitsApart
  <2> QED
    BY <2>1, <2>2 DEF Bound, Defined
<1>5. CASE ResolveAddrs
  <2>1. /\ phase = "address" /\ phase' = "relocate" /\ rva' = [n \in Name |-> AddrOf(n)]
        /\ UNCHANGED <<objs, sym, contribs, map, live>>
    BY <1>5 DEF ResolveAddrs, tables, sections
  <2>2. \A n : AddrOf(n)' = AddrOf(n)
    BY <2>1, TargetsStay
  <2>3. rva' = [n \in Name |-> AddrOf(n)']
    BY <2>1, <2>2
  <2>4. Swept /\ \A n : Defined(sym[n])' <=> Defined(sym[n])
    BY <2>1 DEF Swept, Collected, Defined
  <2> QED
    BY <2>1, <2>3, <2>4 DEF Bound
<1>6. CASE Relocate
  <2>1. /\ phase = "relocate" /\ phase' \in {"done", "failed"}
        /\ UNCHANGED <<objs, sym, contribs, map, live, rva>>
    BY <1>6 DEF Relocate, tables, sections
  <2>2. /\ \A n : AddrOf(n)' = AddrOf(n)
        /\ LiveRelocs' = LiveRelocs
        /\ \A o, n : Resolvable(o, n)' <=> Resolvable(o, n)
        /\ \A o, n : Target(o, n)' = Target(o, n)
    BY <2>1, TargetsStay
  <2>3. Swept /\ \A n : Defined(sym[n])' <=> Defined(sym[n])
    BY <2>1 DEF Swept, Collected, Defined
  <2>4. rva' = [n \in Name |-> AddrOf(n)']
    BY <2>1, <2>2 DEF Bound
  <2>5. phase' = "done" => /\ \A r \in LiveRelocs : Resolvable(r.from.obj, r.name)
                           /\ bound' = [r \in LiveRelocs |-> Target(r.from.obj, r.name)]
    BY <1>6 DEF Relocate
  <2>6. phase' = "done" => /\ \A r \in LiveRelocs' : Resolvable(r.from.obj, r.name)'
                           /\ bound' = [r \in LiveRelocs' |-> Target(r.from.obj, r.name)']
    BY <2>2, <2>5
  <2>7. phase' = "failed" => \E r \in LiveRelocs : ~Resolvable(r.from.obj, r.name)
    BY <1>6 DEF Relocate
  <2>8. phase' = "failed" => \E r \in LiveRelocs' : ~Resolvable(r.from.obj, r.name)'
    BY <2>2, <2>7
  <2>9. /\ \A n \in Name : sym'[n].common = 1 => Defined(sym[n])'
        /\ \A m, n \in Name :
             sym'[m].common = 2 /\ sym'[n].common = 2 /\ sym'[m].slot = sym'[n].slot => m = n
    BY <2>1, <2>3 DEF Bound
  <2> QED
    BY <2>1, <2>4, <2>6, <2>8, <2>9 DEF Bound
<1> QED
  BY <1>1, <1>2, <1>3, <1>4, <1>5, <1>6 DEF Next

(* What a live section relocates against.                                  *)
LEMMA RelocsAreLive ==
  ASSUME Types, SymOK, Laid, Collected, Marking, Swept, NEW r \in LiveRelocs
  PROVE  /\ r.from \in live /\ r.from.obj \in DOMAIN objs /\ r.name \in Name
         /\ Definition(r.from.obj, r.name) \subseteq live
<1>1. r.from \in live /\ r.name \in Name /\ r.name \in RefsOf(r.from)
  BY DEF LiveRelocs, Relocs
<1>2. r.from \in Kept /\ Closed(live)
  BY <1>1 DEF Marking
<1> QED
  BY <1>1, <1>2, RefsAreNames DEF Closed

(* Where a live section starts.                                            *)
LEMMA LiveAddr ==
  ASSUME Types, Laid, Collected, NEW s \in Kept, s \in live
  PROVE  SectionAddr(s) = Place(s)
  BY IndexFinds DEF SectionAddr, Place

(* What the tables say of a name no section of the object is for.          *)
LEMMA NameBinds ==
  ASSUME Types, SymOK, Laid, Collected, NEW n \in Name
  PROVE  /\ GlobalDef(n) # {} => sym[n].obj # 0 /\ GlobalDef(n) = {[obj |-> sym[n].obj, name |-> n]}
         /\ GlobalDef(n) = {} => sym[n].obj = 0
         /\ ImportsOf(n) = {} <=> sym[n].imp = "no"
         /\ sym[n].imp # "no" =>
              /\ sym[n].slot \in ImportsOf(n)
              /\ sym[n].imp = IF n = imports[sym[n].slot].local THEN "thunk" ELSE "iat"
         /\ sym[n].common = 2 => sym[n].obj = 0 /\ sym[n].imp = "no"
<1>1. ImpIsLast(n) /\ CommonNoted(n)
  BY DEF SymOK
<1>2. /\ GlobalDef(n) # {} => sym[n].obj # 0 /\ GlobalDef(n) = {[obj |-> sym[n].obj, name |-> n]}
      /\ GlobalDef(n) = {} => sym[n].obj = 0
  BY TableIsGlobalDef
<1>3. /\ ImportsOf(n) = {} <=> sym[n].imp = "no"
      /\ sym[n].imp # "no" =>
           /\ sym[n].slot \in ImportsOf(n)
           /\ sym[n].imp = IF n = imports[sym[n].slot].local THEN "thunk" ELSE "iat"
  BY <1>1 DEF ImpIsLast
<1> QED
  BY <1>1, <1>2, <1>3 DEF CommonNoted

(* A relocation is patched with what its name means.                       *)
Patched == /\ Types /\ SymOK /\ Laid /\ Marking /\ Bound
           /\ Collected /\ Swept /\ phase = "done"

(* The object's own section, which was kept.                               *)
LEMMA BindsOwn ==
  ASSUME Patched, NEW r \in LiveRelocs, OwnDef(r.from.obj, r.name) # {}
  PROVE  /\ MeansSection(r.from.obj, r.name, Target(r.from.obj, r.name))
         /\ Target(r.from.obj, r.name).addr.area = "section"
<1> DEFINE o == r.from.obj
           n == r.name
           s == [obj |-> o, name |-> n]
<1>1. o \in DOMAIN objs /\ n \in Name /\ Definition(o, n) \subseteq live
  BY RelocsAreLive DEF Patched
<1>2. Own(o, n) = OwnDef(o, n) /\ OwnDef(o, n) \subseteq Kept
  BY <1>1, OwnIsOwnDef DEF Patched
<1>3. OwnDef(o, n) = {s} /\ Definition(o, n) = {s}
  BY DEF OwnDef, Definition
<1> HIDE DEF o, n, s
<1>4. s \in live /\ s \in Kept
  BY <1>1, <1>2, <1>3
<1>5. OwnLive(o, n) = {s}
  BY <1>2, <1>3, <1>4 DEF OwnLive
<1>6. Target(o, n) = [addr |-> SectionAddr(s), abs |-> FALSE]
  BY <1>5 DEF Target, s
<1>7. SectionAddr(s) = Place(s)
  BY <1>4, LiveAddr DEF Patched
<1>8. MeansSection(o, n, Target(o, n))
  BY <1>3, <1>4, <1>6, <1>7 DEF MeansSection
<1>9. Target(o, n).addr.area = "section"
  BY <1>6, <1>7 DEF Place
<1> QED
  BY <1>8, <1>9 DEF o, n

(* A name without one takes its address from the symbol table.             *)
LEMMA BindsByTable ==
  ASSUME Patched, NEW r \in LiveRelocs, OwnDef(r.from.obj, r.name) = {}
  PROVE  /\ r.name \in Name /\ OwnLive(r.from.obj, r.name) = {}
         /\ Target(r.from.obj, r.name) = [addr |-> AddrOf(r.name), abs |-> ~Defined(sym[r.name])]
         /\ Defined(sym[r.name]) \/ sym[r.name].weak
<1> DEFINE o == r.from.obj
           n == r.name
<1>1. o \in DOMAIN objs /\ n \in Name
  BY RelocsAreLive DEF Patched
<1>2. OwnLive(o, n) = {}
  BY <1>1, OwnIsOwnDef DEF Patched, OwnLive
<1>3. Resolvable(o, n) /\ rva[n] = AddrOf(n)
  BY <1>1 DEF Patched, Bound
<1> QED
  BY <1>1, <1>2, <1>3 DEF Target, Resolvable

(* An address in .bss is that of a committed tentative definition, or of a *)
(* weak name's default.                                                    *)
LEMMA BssIsCommon ==
  ASSUME Patched, NEW n \in Name, AddrOf(n).area = "bss", ~HasDefault(n)
  PROVE  sym[n].common = 2 /\ AddrOf(n).at = sym[n].slot
<1>1. ~FallsBack(sym[n])
  BY DEF FallsBack, HasDefault
<1>2. Defined(sym[n])
  BY <1>1 DEF AddrOf, Null
<1>3. AddrOf(n) = SymAddr(n)
  BY <1>2 DEF AddrOf
<1>4. sym[n] \in SymType
  BY DEF Patched, Types
<1>5. CASE sym[n].imp # "no"
  <2>1. SymAddr(n).area = sym[n].imp
    BY <1>5 DEF SymAddr
  <2> QED
    BY <1>3, <1>4, <2>1 DEF SymType
<1>6. CASE sym[n].imp = "no" /\ sym[n].common = 2
  BY <1>3, <1>6 DEF SymAddr
<1>7. CASE sym[n].imp = "no" /\ sym[n].common # 2
  <2> DEFINE s == [obj |-> sym[n].obj, name |-> n]
  <2>1. SymAddr(n) = SectionAddr(s)
    BY <1>7 DEF SymAddr
  <2>2. SectionAddr(s).area \in {"section", "null"}
    <3> HIDE DEF s
    <3> QED
      BY DEF SectionAddr, Null
  <2> QED
    BY <1>3, <2>1, <2>2
<1> QED
  BY <1>5, <1>6, <1>7

(* Every relocation of a finished link means what was written.             *)
LEMMA BindsEach ==
  ASSUME Patched, NEW r \in LiveRelocs
  PROVE  LET o == r.from.obj  n == r.name  b == bound[r] IN
         IF Definition(o, n) # {} /\ ~(OwnDef(o, n) = {} /\ Shadowed(n))
         THEN MeansSection(o, n, b)
         ELSE IF ImportsOf(n) # {} THEN MeansImport(n, b)
         ELSE MeansCommon(n, b) \/ MeansNull(n, b)
<1> DEFINE o == r.from.obj
           n == r.name
           b == Target(o, n)
<1>1. bound[r] = b
  BY DEF Patched, Bound
<1>2. CASE OwnDef(o, n) # {}
  <2>1. Definition(o, n) # {}
    BY <1>2 DEF Definition
  <2> QED
    BY <1>1, <1>2, <2>1, BindsOwn
<1>3. CASE OwnDef(o, n) = {}
  <2>1. /\ n \in Name
        /\ b = [addr |-> AddrOf(n), abs |-> ~Defined(sym[n])]
        /\ Defined(sym[n]) \/ sym[n].weak
    BY <1>3, BindsByTable
  <2>2. Definition(o, n) = GlobalDef(n)
    BY <1>3 DEF Definition
  <2>3. /\ GlobalDef(n) # {} => sym[n].obj # 0 /\ GlobalDef(n) = {[obj |-> sym[n].obj, name |-> n]}
        /\ GlobalDef(n) = {} => sym[n].obj = 0
        /\ ImportsOf(n) = {} <=> sym[n].imp = "no"
        /\ sym[n].imp # "no" =>
             /\ sym[n].slot \in ImportsOf(n)
             /\ sym[n].imp = IF n = imports[sym[n].slot].local THEN "thunk" ELSE "iat"
        /\ sym[n].common = 2 => sym[n].obj = 0 /\ sym[n].imp = "no"
    BY <2>1, NameBinds DEF Patched
  <2>4. Definition(o, n) \subseteq live
    BY RelocsAreLive DEF Patched
  <2>5. GlobalDef(n) \subseteq Kept
    BY <2>1, TableIsGlobalDef DEF Patched
  <2> HIDE DEF o, n
  <2>6. ASSUME GlobalDef(n) # {}, ~Shadowed(n) PROVE MeansSection(o, n, b)
    <3> DEFINE s == [obj |-> sym[n].obj, name |-> n]
    <3>1. sym[n].imp = "no" /\ sym[n].common # 2 /\ Defined(sym[n])
      BY <2>3, <2>6 DEF Shadowed, Defined
    <3>2. AddrOf(n) = SectionAddr(s)
      BY <3>1 DEF AddrOf, SymAddr
    <3>3. GlobalDef(n) = {s} /\ s \in live /\ s \in Kept
      BY <2>2, <2>3, <2>4, <2>5, <2>6
    <3> HIDE DEF s
    <3>4. SectionAddr(s) = Place(s)
      BY <3>3, LiveAddr DEF Patched
    <3>5. b = [addr |-> Place(s), abs |-> FALSE]
      BY <2>1, <3>1, <3>2, <3>4
    <3> QED
      BY <2>2, <2>6, <3>3, <3>5 DEF MeansSection
  <2>7. ASSUME ImportsOf(n) # {} PROVE MeansImport(n, b)
    <3>1. sym[n].imp # "no" /\ Defined(sym[n])
      BY <2>3, <2>7 DEF Defined
    <3>2. AddrOf(n) = [area |-> sym[n].imp, at |-> sym[n].slot]
      BY <3>1 DEF AddrOf, SymAddr
    <3> QED
      BY <2>1, <2>3, <2>7, <3>1, <3>2 DEF MeansImport
  <2>8. ASSUME GlobalDef(n) = {}, ImportsOf(n) = {} PROVE MeansCommon(n, b) \/ MeansNull(n, b)
    <3>1. sym[n].obj = 0 /\ sym[n].imp = "no" /\ CommonNoted(n) /\ WeakNoted(n)
      BY <2>1, <2>3, <2>8 DEF Patched, SymOK
    <3>2. CASE sym[n].common = 2
      <4>1. Defined(sym[n]) /\ AddrOf(n) = [area |-> "bss", at |-> sym[n].slot]
        BY <3>1, <3>2 DEF Defined, AddrOf, SymAddr
      <4>2. sym[n].common # 0
        BY <3>2
      <4>3. LoadedBy(Len(objs), n, {"common"})
        BY <3>1, <4>2 DEF CommonNoted
      <4>4. b = [addr |-> [area |-> "bss", at |-> sym[n].slot], abs |-> FALSE]
        BY <2>1, <4>1
      <4> QED
        BY <4>3, <4>4 DEF MeansCommon
    <3>3. CASE sym[n].common # 2
      <4>1. ~Defined(sym[n]) /\ sym[n].weak
        BY <2>1, <3>1, <3>3 DEF Defined
      <4>2. LoadedBy(Len(objs), n, {"weak"})
        BY <3>1, <4>1 DEF WeakNoted
      <4>3. ~HasDefault(n) => AddrOf(n) = Null
        BY <4>1 DEF HasDefault, AddrOf, FallsBack
      <4> QED
        BY <2>1, <4>1, <4>2, <4>3 DEF MeansNull
    <3> QED
      BY <3>2, <3>3
  <2> HIDE DEF b
  <2>9. IF Definition(o, n) # {} /\ ~(OwnDef(o, n) = {} /\ Shadowed(n))
        THEN MeansSection(o, n, b)
        ELSE IF ImportsOf(n) # {} THEN MeansImport(n, b)
        ELSE MeansCommon(n, b) \/ MeansNull(n, b)
    BY <1>3, <2>2, <2>6, <2>7, <2>8 DEF Shadowed
  <2> QED
    BY <1>1, <2>9 DEF o, n
<1> QED
  BY <1>2, <1>3

(* Names without a default do not share a slot of .bss.                    *)
LEMMA BindsApart ==
  ASSUME Patched, NEW r \in LiveRelocs, NEW q \in LiveRelocs,
         bound[r].addr = bound[q].addr, bound[r].addr.area = "bss",
         ~HasDefault(r.name), ~HasDefault(q.name)
  PROVE  r.name = q.name
<1>1. ASSUME NEW u \in LiveRelocs, bound[u].addr.area = "bss", ~HasDefault(u.name)
      PROVE  u.name \in Name /\ sym[u.name].common = 2 /\ bound[u].addr.at = sym[u.name].slot
  <2>1. bound[u] = Target(u.from.obj, u.name)
    BY DEF Patched, Bound
  <2>2. OwnDef(u.from.obj, u.name) = {}
    BY <1>1, <2>1, BindsOwn
  <2>3. /\ u.name \in Name
        /\ Target(u.from.obj, u.name) = [addr |-> AddrOf(u.name), abs |-> ~Defined(sym[u.name])]
    BY <2>2, BindsByTable
  <2>4. bound[u].addr = AddrOf(u.name)
    BY <2>1, <2>3
  <2>5. sym[u.name].common = 2 /\ AddrOf(u.name).at = sym[u.name].slot
    BY <1>1, <2>3, <2>4, BssIsCommon
  <2> QED
    BY <2>3, <2>4, <2>5
<1>2. /\ r.name \in Name /\ q.name \in Name /\ sym[r.name].common = 2 /\ sym[q.name].common = 2
      /\ sym[r.name].slot = sym[q.name].slot
  BY <1>1
<1> QED
  BY <1>2 DEF Patched, Bound, Swept, Collected

(* A name that cannot be resolved is defined nowhere.                      *)
LEMMA FailsUndefined ==
  ASSUME Types, SymOK, Laid, Marking, Bound, phase = "failed", contribs # <<>>,
         NEW r \in LiveRelocs, ~Resolvable(r.from.obj, r.name)
  PROVE  Undefined(r.from.obj, r.name)
<1> DEFINE o == r.from.obj
           n == r.name
<1>1. Collected /\ Swept /\ phase # "layout"
  BY DEF Swept, Collected
<1>2. o \in DOMAIN objs /\ n \in Name /\ Definition(o, n) \subseteq live
  BY <1>1, RelocsAreLive
<1>3. OwnLive(o, n) = {} /\ ~Defined(sym[n]) /\ ~sym[n].weak
  BY DEF Resolvable
<1>4. Own(o, n) = OwnDef(o, n)
  BY <1>1, <1>2, OwnIsOwnDef
<1> HIDE DEF o, n
<1>5. OwnDef(o, n) = {}
  BY <1>2, <1>3, <1>4 DEF OwnLive, Definition
<1>6. sym[n].obj = 0 /\ sym[n].imp = "no" /\ sym[n].common # 2
  BY <1>3 DEF Defined
<1>7. Definition(o, n) = {} /\ ImportsOf(n) = {}
  BY <1>1, <1>2, <1>5, <1>6, NameBinds DEF Definition
<1>8. CommonNoted(n) /\ WeakNoted(n) /\ sym[n].common \in 0..2
  BY <1>2 DEF SymOK, Types, SymType
<1>9. sym[n].common # 1
  BY <1>1, <1>2, <1>3 DEF Bound
<1>10. ~LoadedBy(Len(objs), n, {"common"}) /\ ~LoadedBy(Len(objs), n, {"weak"})
  <2>1. sym[n].common = 0
    BY <1>6, <1>8, <1>9
  <2> QED
    BY <1>3, <1>8, <2>1 DEF CommonNoted, WeakNoted
<1>11. ~LoadedBy(Len(objs), n, {"common", "weak"})
  BY <1>10 DEF LoadedBy
<1> QED
  BY <1>7, <1>11 DEF Undefined, o, n

(* A link that ends has bound every relocation to what its name means, or  *)
(* has one whose name nothing defines.                                     *)
LEMMA TablesBind ==
  ASSUME Types, SymOK, Laid, Marking, Bound
  PROVE  BindsAsWritten
<1>1. ASSUME phase = "done"
      PROVE  /\ DOMAIN bound = LiveRelocs
             /\ \A r \in LiveRelocs : LET o == r.from.obj  n == r.name  b == bound[r] IN
                  IF Definition(o, n) # {} /\ ~(OwnDef(o, n) = {} /\ Shadowed(n))
                  THEN MeansSection(o, n, b)
                  ELSE IF ImportsOf(n) # {} THEN MeansImport(n, b)
                  ELSE MeansCommon(n, b) \/ MeansNull(n, b)
             /\ \A r, q \in LiveRelocs :
                  bound[r].addr = bound[q].addr /\ bound[r].addr.area = "bss" =>
                    r.name = q.name \/ HasDefault(r.name) \/ HasDefault(q.name)
  <2>1. Patched
    BY <1>1 DEF Patched, Collected, Swept
  <2>2. DOMAIN bound = LiveRelocs
    BY <1>1 DEF Bound
  <2> QED
    BY <2>1, <2>2, BindsEach, BindsApart
<1>2. ASSUME phase = "failed", contribs # <<>>
      PROVE  \E r \in LiveRelocs : Undefined(r.from.obj, r.name)
  <2>1. PICK r \in LiveRelocs : ~Resolvable(r.from.obj, r.name)
    BY <1>2 DEF Bound
  <2> QED
    BY <1>2, <2>1, FailsUndefined
<1> QED
  BY <1>1, <1>2 DEF BindsAsWritten

(* The whole invariant holds when a link starts.                           *)
LEMMA LinkInit ==
  ASSUME Init
  PROVE  IndInv
<1>1. /\ phase = "load" /\ contribs = <<>> /\ map = <<>> /\ live = {} /\ queue = {}
  BY DEF Init
<1>2. DOMAIN map = {}
  BY <1>1
<1>3. Laid /\ Marking /\ LiveExact /\ Bound
  BY <1>1, <1>2 DEF Laid, Marking, LiveExact, Bound, Collected, Swept
<1> QED
  BY <1>3, TablesInit DEF IndInv

(* Every step of a link keeps it.                                          *)
LEMMA LinkStep ==
  ASSUME IndInv, [Next]_vars
  PROVE  IndInv'
<1>1. /\ Types /\ Counts /\ SymOK /\ Laid /\ Marking /\ Bound
      /\ PulledOnce /\ PulledOnDemand /\ NothingMissed /\ LiveExact
  BY DEF IndInv
<1>2. Types' /\ Counts' /\ SymOK'
  BY <1>1, TablesKept
<1>3. PulledOnce' /\ PulledOnDemand' /\ NothingMissed'
  BY <1>1, FixpointKept
<1>4. Laid'
  BY <1>1, LaidKept
<1>5. Marking' /\ LiveExact'
  BY <1>1, <1>4, MarkingKept
<1>6. Bound'
  BY <1>1, BoundKept
<1> QED
  BY <1>2, <1>3, <1>4, <1>5, <1>6 DEF IndInv

(* Every relocation of a finished link is patched with the place of what   *)
(* its name means, across the pulls, the folding, the sweep and the sort;  *)
(* a link that fails after loading names something nothing defines.        *)
THEOREM SpecBindsAsWritten == Spec => []BindsAsWritten
<1>1. Init => IndInv
  BY LinkInit
<1>2. IndInv /\ [Next]_vars => IndInv'
  BY LinkStep
<1>3. IndInv => BindsAsWritten
  BY TablesBind DEF IndInv
<1> QED
  BY <1>1, <1>2, <1>3, PTL DEF Spec

(* The areas an address can be in.                                         *)
Areas == {"null", "section", "thunk", "iat", "bss"}

(* Whatever step computes addresses puts them in one of these.             *)
LEMMA AddressesPlaced ==
  ASSUME IndInv, [Next]_vars, \A n \in Name : rva[n].area \in Areas
  PROVE  \A n \in Name : rva'[n].area \in Areas
<1>1. CASE rva' = rva
  BY <1>1
<1>2. CASE ResolveAddrs
  <2>1. ASSUME NEW m \in Name, Defined(sym[m]) PROVE SymAddr(m).area \in Areas
    <3> DEFINE s == [obj |-> sym[m].obj, name |-> m]
    <3>1. sym[m].imp \in {"no", "thunk", "iat"}
      BY DEF IndInv, Types, SymType
    <3>2. SectionAddr(s).area \in Areas
      <4> HIDE DEF s
      <4> QED
        BY DEF SectionAddr, Null, Areas
    <3>3. CASE sym[m].imp # "no"
      BY <3>1, <3>3 DEF SymAddr, Areas
    <3>4. CASE sym[m].imp = "no" /\ sym[m].common = 2
      BY <3>4 DEF SymAddr, Areas
    <3>5. CASE sym[m].imp = "no" /\ sym[m].common # 2
      BY <3>2, <3>5 DEF SymAddr
    <3> QED
      BY <3>3, <3>4, <3>5
  <2>2. ASSUME NEW n \in Name PROVE AddrOf(n).area \in Areas
    <3>1. FallsBack(sym[n]) => sym[n].dflt \in Name /\ Defined(sym[sym[n].dflt])
      BY DEF IndInv, Types, SymType, FallsBack
    <3> QED
      BY <2>1, <3>1 DEF AddrOf, Null, Areas
  <2>3. rva' = [n \in Name |-> AddrOf(n)]
    BY <1>2 DEF ResolveAddrs
  <2> QED
    BY <2>2, <2>3
<1>3. rva' = rva \/ ResolveAddrs
  BY DEF Next, vars, Load, Roots, ResolveImport, Pull, PullFails, ResolveEnd, Collect, GcStart,
         GcMark, GcEnd, Layout, Relocate
<1> QED
  BY <1>1, <1>2, <1>3

(* The tables hold what they should, for any inputs.                       *)
THEOREM SpecTypeOK == Spec => []TypeOK
<1> DEFINE Inv == IndInv /\ \A n \in Name : rva[n].area \in Areas
<1>1. Init => Inv
  BY LinkInit DEF Init, Null, Areas
<1>2. Inv /\ [Next]_vars => Inv'
  BY LinkStep, AddressesPlaced
<1>3. Inv => TypeOK
  <2> SUFFICES ASSUME IndInv, \A n \in Name : rva[n].area \in Areas PROVE TypeOK
    OBVIOUS
  <2>1. Types /\ Counts /\ SymOK /\ Laid /\ Marking
    BY DEF IndInv
  <2>2. ASSUME NEW n \in Name
        PROVE  /\ sym[n].obj \in 0..Len(objs) /\ sym[n].common \in 0..2
               /\ sym[n].imp \in {"no", "thunk", "iat"}
               /\ sym[n] # NewSym => Contains(order, n)
               /\ rva[n].area \in {"null", "section", "thunk", "iat", "bss"}
    <3>1. sym[n] \in SymType /\ ObjIsFirst(n) /\ Interned(n)
      BY <2>1 DEF Types, SymOK
    <3>2. sym[n].obj \in 0..Len(objs)
      BY <2>1, <3>1, Lengths DEF ObjIsFirst
    <3>3. sym[n] # NewSym => Contains(order, n)
      BY <2>1, <3>1, Lengths DEF Interned, Contains, ToSet
    <3> QED
      BY <3>1, <3>2, <3>3 DEF SymType, Areas
  <2>3. queue \subseteq live /\ live \subseteq ToSet(contribs) /\ DOMAIN map = ToSet(contribs)
    <3>1. CASE Collected
      BY <2>1, <3>1, IndexFinds DEF Laid, Marking
    <3>2. CASE ~Collected
      BY <2>1, <3>2 DEF Laid, ToSet
    <3> QED
      BY <3>1, <3>2
  <2> QED
    BY <2>1, <2>2, <2>3 DEF TypeOK, Types, Counts
<1> QED
  BY <1>1, <1>2, <1>3, PTL DEF Spec
=============================================================================
